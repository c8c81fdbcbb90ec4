SPECIFICATION FairSpec
CONSTANTS
    Nodes = {1, 2, 3}
    InitMaster = 1
    MaxCalls = 3
    Scenarios <- Mixed
INVARIANTS
    RunningHasOwner
PROPERTIES
    ElectionEnds
    SmallestRules
    OnlyStaleTimersUsurp
CHECK_DEADLOCK FALSE
