SPECIFICATION Spec
CONSTANTS
    NF = 1  H = 2  P = 2  RingFrames = 3  QueueSize = 1
    Readers = {r1, r2}  NodesFit = TRUE
    JobWorkers = {d1, d2}
    NoWorker = NoWorker
    MaxRows = 7  MaxCalls = 2  MaxControl = 2
SYMMETRY ThreadSymmetry
INVARIANTS TypeOK WholeFramesOnce FramesInOrder ReportMatchesJobs NobodyStuck
CHECK_DEADLOCK FALSE
