CONSTANTS
    d1 = d1
    d2 = d2
    u1 = u1
    u2 = u2
    e1 = e1
    e2 = e2
    t1 = t1
    None = None
    Devices <- OneDevice
    Users <- OneUser
    Ids <- TwoIds
    Texts <- OneText
    FirstUser <- SignedIn
    Saved <- OneSaved
    MaxScreens <- Three
    MaxWrites = 2
    MaxDrops = 1
    MaxFaults = 1
SPECIFICATION FairSpec
PROPERTIES
    GapsClose
    HomeSettles
CHECK_DEADLOCK FALSE
