SPECIFICATION Spec
CONSTANTS
    Nodes = {n1, n2, n3}
    n1 = n1
    n2 = n2
    n3 = n3
    e1 = e1
    e2 = e2
    e3 = e3
    e4 = e4
    t1 = t1
    t2 = t2
    InitMaster = n1
    Engineers = {e1, e2, e3, e4}
    Home <- HomeOf
    TicketIds = {t1, t2}
    InitTickets <- OpenAt3
    Jobs = {j1, j2, j3}
    Device = Device
    Scenarios <- Mixed
SYMMETRY Symmetric
INVARIANTS
    TypeOK
    FairDistribution
    NoDeviceIsDropped
    CopiesAreNoticed
PROPERTIES
    ClosedStaysClosed
CHECK_DEADLOCK FALSE
