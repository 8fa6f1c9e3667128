SPECIFICATION Spec
CONSTANTS
    NF = 2
    N = 3
    Users = {u1, u2}
    NoUser = NoUser
    MaxCalls = 3
    MaxControl = 2
    DeviceMayStop = FALSE
SYMMETRY UserSymmetry
INVARIANTS
    TypeOK
    FifoDelivery
    UnsentFramesIntact
    ReadGuardReleased
    NoLostWakeup
PROPERTIES
    QuietWhenDisabled
    ImplementsChannel
CHECK_DEADLOCK FALSE
