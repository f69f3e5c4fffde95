CONSTANTS
    None = None
    c1 = c1
    c2 = c2
    c3 = c3
    Calls = {c1, c2, c3}
    Kinds <- AllKinds
    MemRoom = 1
    SmallBatch = 2
    MaxBatch = 4
    CompactTrigger = 1
    SlowdownTrigger = 1
    StopTrigger = 2
    MaxErrors = 1
SPECIFICATION FairSpec
INVARIANTS
    SyncedIfAsked
    ReadersSeeBatches
    WritesAreOrdered
PROPERTIES
    EveryCallReturns
    CloseReturns
CHECK_DEADLOCK FALSE
