CONSTANTS
    BlockSize = 7
    HeaderSize = 2
    Lengths = {0, 3, 9}
    InitialOffsets = {0, 9}
    MaxRecords = 3
    MaxFaults = 2
SPECIFICATION Spec
INVARIANTS
    RoundTrip
    TornTailIsSilent
    NothingForged
    DamageIsLocal
CHECK_DEADLOCK FALSE
