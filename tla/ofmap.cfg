SPECIFICATION FairSpec
CONSTANTS
    NF = 1
    N = 3
    Parts = 2
    Readers = {r1, r2}
    NoReader = NoReader
    Kinds = {"stream", "dequeue"}
    InOrder = TRUE
    MaxFrames = 4
    MaxCalls = 2
    MaxControl = 2
    SIZE_MAX = 15
INVARIANTS
    TypeOK
    WholeFramesInOrder
    LentBuffersIntact
    CountMatchesPointers
PROPERTIES
    QuietWhenDisabled
    ImplementsChannel
    ReadReturns
CHECK_DEADLOCK FALSE
