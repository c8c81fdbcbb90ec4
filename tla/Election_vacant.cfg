SPECIFICATION FairSpec
CONSTANTS
    Nodes = {1, 2, 3}
    InitMaster = 1
    MaxCalls = 3
    Scenarios <- TwoCrashes
PROPERTIES
    MasterIsReplaced
CHECK_DEADLOCK FALSE
