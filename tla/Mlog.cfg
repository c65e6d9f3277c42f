SPECIFICATION Spec
CONSTANTS
    Size = 6
    ItemSizes = {2, 3, 4}
    Crashes = TRUE
    Tries = 3
    CrashAt = {"idle", "alloc", "clear", "linkPrev", "linkTail", "setSize",
        "setMagic", "counted", "text", "unlinkHead", "unmagic", "fill", "setRead",
        "resetWrite", "resetRead", "uncount", "initWrite", "initNext", "initCount"}
INVARIANTS
    Disjoint
    QueueSound
    StaleRejected
    WholeUnlessCrashed
PROPERTIES
    
    IsRing
