SPECIFICATION Spec
CONSTANTS
    NF = 1  H = 2  RingFrames = 2  QueueSize = 1
    Users = {u1, u2}
    JobWorkers = {e1, e2}
    NoWorker = NoWorker
    MaxCalls = 3  MaxControl = 2
SYMMETRY ThreadSymmetry
INVARIANTS TypeOK WholeFramesOnce FramesInOrder JobsMatchFrames
    TransferWithinRows CounterMatchesRows NobodyStuck
CHECK_DEADLOCK FALSE
