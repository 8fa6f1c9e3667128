SPECIFICATION FairSpec
CONSTANTS
    NC = 2  NF = 2
    Batches <- TwoFlows
    L = 1
    MaxFrames <- FramesOf  MaxSessions = 2
INVARIANTS TypeOK FramesConsecutive ChipAnnouncedOnce
PROPERTIES CloseReturns
CHECK_DEADLOCK FALSE
