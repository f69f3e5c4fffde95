CONSTANTS
    d1 = d1
    d2 = d2
    u1 = u1
    u2 = u2
    e1 = e1
    e2 = e2
    t1 = t1
    None = None
    Devices <- OneDevice
    Users <- OneUser
    Ids <- TwoIds
    Texts <- OneText
    FirstUser <- SignedIn
    Saved <- OneSaved
    MaxScreens <- Four
    MaxWrites = 1
    MaxDrops = 0
    MaxFaults = 0
SPECIFICATION Spec
INVARIANT
    NoTrap
CHECK_DEADLOCK FALSE
