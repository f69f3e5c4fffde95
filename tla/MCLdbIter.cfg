SPECIFICATION FairSpec
CONSTANTS
    Keys = {1, 2, 3}
    NumChildren = 3
    MaxSeq = 3
    MaxMore = 1
CONSTRAINT Cases
INVARIANTS
    ChildrenAreInPlace
PROPERTIES
    StandsOnTheMap
    CallsReturn
CHECK_DEADLOCK FALSE
