SPECIFICATION Spec
CONSTANTS
    Tasks = {t1, t2}
    Waitable = {t1}
    Queues = {q1}
    Clients = {c1}
    Waiters = {}
    Timer = timer
    NoTask = none
    Half = 8
    MaxDelay = 2
    MaxLate = 1
    MaxStops = 1
    MaxStarts = 1
    Sticky = TRUE
    Torn = FALSE
INVARIANTS
    TypeOK
    ListedOnce
    CountsAgree
    
    
