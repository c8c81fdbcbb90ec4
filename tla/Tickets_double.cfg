SPECIFICATION Spec
CONSTANTS
    n1 = n1
    n2 = n2
    e1 = e1
    Nodes = {n1, n2}
    Engineers = {e1}
    Home <- Together
    NoNode = NoNode
    NoEngineer = NoEngineer
    NoRow = NoRow
    Prompt = FALSE
    MaxAttempts = 1
    MaxTickets = 1
    MaxRounds = 2
    MaxFaults <- NoFaults
INVARIANTS
    NoDoubleAssignment
CHECK_DEADLOCK FALSE
