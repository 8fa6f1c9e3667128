SPECIFICATION FairSpec
CONSTANTS
    NF = 1
    N = 2
    Parts = 1
    Readers = {r1, r2}
    NoReader = NoReader
    Kinds = {"dequeue"}
    InOrder = TRUE
    MaxFrames = 2
    MaxCalls = 2
    MaxControl = 1
    SIZE_MAX = 15
PROPERTIES
    EnqueueReturns
CHECK_DEADLOCK FALSE
