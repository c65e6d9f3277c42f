SPECIFICATION FairSpec
CONSTANTS
    Tasks = {t1}
    Waitable = {t1}
    Queues = {q1}
    Clients = {c1}
    Waiters = {c1}
    Timer = timer
    NoTask = none
    Half = 8
    MaxDelay = 1
    MaxLate = 1
    MaxStops = 1
    MaxStarts = 0
    Sticky = TRUE
    Torn = FALSE
PROPERTIES
    EventuallyServed
    WaiterReleased
    QueueWaiterReleased
    StopJoins
