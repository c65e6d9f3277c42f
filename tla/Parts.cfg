SPECIFICATION Spec
CONSTANTS
    Parts = {"threads", "mlock", "sync", "events", "timers",
             "notices", "messages", "logger", "wdt", "dictionary"}
    NoteMax = 3
    IsrMsgs = {0, 1}
    Lockers = {"l1", "l2"}
    Locks = {"m1", "m2"}
    Nobody = "nobody"
    Prio <- MCPrio
    DepthMax = 2
    KHi <- MCKHi
    KLo = 14
    Users = {"u1", "u2"}
    TokenMax = 4
    CountMax = 2
    Flags = {0, 1}
    Waiters = {"w1", "w2"}
    Calls <- MCCalls
    Timers = {"t1", "t2", "t3"}
    Nil = "nil"
    Setters = {"s1", "s2"}
    TicksMax = 1
    EventIds = {0, 1}
    Handlers = {"h0", "h1", "h2"}
    EventOf <- MCEventOf
    Posters = {"p1", "p2"}
    Messages = {"g1", "g2", "g3"}
    Modules = {1}
    MsgChannels = {"c1"}
    ModulesOf <- MCModulesOf
    MSG_MAX = 1
    DriftMax = 0
    Loggers = {"o1"}
    LogTasks = {"b1", "b2"}
    LogChannels = {"k1", "k2"}
    FiltersOf <- MCFiltersOf
    MemFilters <- MCMemFilters
    LogCalls <- MCLogCalls
    LOG_MAX = 1
    WdtHandlers = {"d1", "d2"}
    Intervals = {15, 20}
    AgeMax = 13
    Dicts = {"da", "db"}
    HashSize <- MCHashSize
    Keys = {0, 1, 2}
    Entries = {"e1", "e2", "e3"}
    NoEntry = "none"
    Rank <- MCRank
INVARIANTS
    
    PriorityRestored
    
    NoTokenFromNothing
    NoLostSignal
    
    InFlightBound
    WaitedForAll
    LogReaches
    EventDelivered
    DictWhole
    WalkMeetsAll
PROPERTIES
    FreedIsDone
    NoLostNotify
    CalledForCause
    NoFalseReset
    StuckDetected
