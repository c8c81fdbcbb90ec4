SPECIFICATION FairSpec
CONSTANTS
    n1 = n1
    n2 = n2
    Nodes = {n1, n2}
    Clients = {n1, n2}
    InitMaster = n1
    NoReq = NoReq
    NoLock = NoLock
    MaxAttempts = 2
    MaxReqs = 2
    MaxBoot <- MasterRestarts
    MaxFaults <- AnyFault
INVARIANTS
    ArbiterExclusion
    TokenIsHeld
    SendNeverBlocks
    WaiterIsServed
PROPERTIES
    ImplementsLockTable
    AcquireReturns
CHECK_DEADLOCK FALSE
