SPECIFICATION FairSpec
CONSTANTS
    Peers = {p1, p2}
    Calls = {c1, c2}
    MaxFaults <- AnyFault
INVARIANTS
    DoneIsComplete
    NoIdleWait
PROPERTIES
    CallsReturn
CHECK_DEADLOCK FALSE
