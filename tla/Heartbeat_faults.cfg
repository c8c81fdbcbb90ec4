SPECIFICATION FairSpec
CONSTANTS
    Peers = {p1}
    Self = self
    Slots = {k1, k2}
    NoSlot = NoSlot
    MaxMissed = 3
    MaxTransit = 2
    MaxFaults <- Faults
    MaxTotal = 4
INVARIANTS
    ChannelOfCurrentPing
    OneReactionPerDeath
    NoHastyDeath
PROPERTIES
    DeathIsNoticed
    ReturnIsNoticed
CHECK_DEADLOCK FALSE
