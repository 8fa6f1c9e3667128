SPECIFICATION FairSpec
CONSTANTS
    NF = 3
    Heights = {1, 2}
    MaxFrames = 1
    MaxSwitch = 1
PROPERTIES
    BalancedInputsDrain
CHECK_DEADLOCK FALSE
