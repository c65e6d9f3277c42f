SPECIFICATION FairSpec
CONSTANTS
    Tasks = {t1}
    Waitable = {}
    Queues = {q1}
    Clients = {c1}
    Waiters = {}
    Timer = timer
    NoTask = none
    Half = 8
    MaxDelay = 1
    MaxLate = 1
    MaxStops = 0
    MaxStarts = 0
    Sticky = FALSE
    Torn = FALSE
PROPERTY
    EventuallyServed
