SPECIFICATION Spec
CONSTANTS
    NF = 1  H = 1  RingFrames = 2  QueueSize = 1
    Users = {u1}
    JobWorkers = {e1, e2}
    NoWorker = NoWorker
    MaxCalls = 2  MaxControl = 2
INVARIANTS EveryFrameHasJob
CHECK_DEADLOCK FALSE
