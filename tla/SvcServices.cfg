SPECIFICATION Spec
CONSTANTS
    Objects = {s1}
    Idle = idle
    NoOne = none
    SemMax = 2
    Services = {s1, s2}
    Threaded = {s1}
    Clients = {c1, c2}
    MayFail = TRUE
    TimesOut = TRUE
INVARIANTS
    StoppedIsGone
    Registered
PROPERTIES
    StartAnswered
