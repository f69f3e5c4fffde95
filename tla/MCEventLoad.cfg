CONSTANTS
    e1 = e1
    e2 = e2
    e3 = e3
    t1 = t1
    t2 = t2
    Ids <- MCIds
    Texts <- MCTexts
SPECIFICATION FairSpec
INVARIANTS
    ListIsWhole
    FailureOrList
    GroupBalance
PROPERTIES
    FetchSpec
    WholeIsShown
CHECK_DEADLOCK FALSE
