SPECIFICATION FairSpec
CONSTANTS
    NF = 1
    N = 2
    Users = {u1, u2}
    NoUser = NoUser
    MaxCalls = 2
    MaxControl = 2
    DeviceMayStop = TRUE
PROPERTIES
    FramesReachDevice
    StreamReturns
    DisableReturns
    DestroyReturns
CHECK_DEADLOCK FALSE
