SPECIFICATION StartupSpec
CONSTANTS
    Seeds <- SmallSeed
    MaxHistory = 2
    LongLines = {4}
    MaxClock = 3
    MaxSaves = 5
    MaxDraws = 2
    MaxCrashes = 2
INVARIANTS
    StartupTypeOK
    SchemaIsRecorded
    SeedIsWhole
    FreshIds
    HistoryIsTail
CHECK_DEADLOCK FALSE
