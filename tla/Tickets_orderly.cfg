SPECIFICATION FairSpec
CONSTANTS
    n1 = n1
    n2 = n2
    e1 = e1
    Nodes = {n1, n2}
    Engineers = {e1}
    Home <- Together
    NoNode = NoNode
    NoEngineer = NoEngineer
    NoRow = NoRow
    Prompt = TRUE
    MaxAttempts = 2
    MaxTickets = 2
    MaxRounds = 3
    MaxFaults <- OneOfEach
INVARIANTS
    RaisedIsStored
    OrderlyAssignment
    OrderlyAvailability
PROPERTIES
    OperationsReturn
CHECK_DEADLOCK FALSE
