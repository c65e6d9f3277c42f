SPECIFICATION Spec
CONSTANTS
    Size = 6
    ItemSizes = {2, 3}
    Crashes = TRUE
    Tries = 1
    CrashAt = {"unlinkPrev"}
PROPERTY
    MessageReadable
