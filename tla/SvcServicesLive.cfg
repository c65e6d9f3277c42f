SPECIFICATION FairSpec
CONSTANTS
    Objects = {s1}
    Idle = idle
    NoOne = none
    SemMax = 2
    Services = {s1}
    Threaded = {s1}
    Clients = {c1, c2}
    MayFail = TRUE
    TimesOut = TRUE
PROPERTIES
    StopEnds
    CallsReturn
