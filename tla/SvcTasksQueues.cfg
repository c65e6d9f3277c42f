SPECIFICATION Spec
CONSTANTS
    Tasks = {t1}
    Waitable = {t1}
    Queues = {q1, q2}
    Clients = {c1}
    Waiters = {}
    Timer = timer
    NoTask = none
    Half = 8
    MaxDelay = 1
    MaxLate = 1
    MaxStops = 0
    MaxStarts = 0
    Sticky = TRUE
    Torn = FALSE
INVARIANTS
    QueuedIsPending
    NoLostWakeup
PROPERTY
    LifeSpec
SYMMETRY Symmetry
