SPECIFICATION Spec
CONSTANTS
    Objects = {s1}
    Idle = idle
    NoOne = none
    SemMax = 2
    Services = {s1}
    Threaded = {s1}
    Clients = {c1}
    MayFail = FALSE
    TimesOut = FALSE
PROPERTIES
    StopAnswered
