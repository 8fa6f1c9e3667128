SPECIFICATION FairSpec
CONSTANTS
    NF = 3
    Heights = {1, 2, 4}
    MaxFrames = 2
    MaxSwitch = 1
INVARIANTS
    NoFlowAhead
    RowsInStep
PROPERTIES
    DrainBeforeSwitch
CHECK_DEADLOCK FALSE
