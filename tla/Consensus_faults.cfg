SPECIFICATION FairSpec
CONSTANTS
    n1 = n1
    n2 = n2
    n3 = n3
    p1 = p1
    Nodes = {n1, n2, n3}
    Proposals = {p1}
    Owner <- OneCaller
    MaxAttempts = 2
    MaxFaults <- AnyFault
    MaxTotal = 2
INVARIANTS
    MajorityAccepted
    NoLostWakeup
    OnlyLastRoundCommits
PROPERTIES
    ProposeReturns
    CommitArrives
CHECK_DEADLOCK FALSE
