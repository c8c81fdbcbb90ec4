SPECIFICATION FairSpec
CONSTANTS
    Msgs = {m1, m2, m3}
    CliMsgs = {m3}
    LongMsgs = {m2}
    Room = 1
    NoConn = NoConn
    MaxFaults <- OneOfEach
INVARIANTS
    LeaksAreFailures
PROPERTIES
    ImplementsNetwork
    WrittenIsHandled
CHECK_DEADLOCK FALSE
