SPECIFICATION Spec
CONSTANTS
    Keys = {1, 2, 3}
    NumLevels = 3
    MaxMemLevel = 1
    CompactTrigger = 1
    LevelLimit <- Tight
    FileLimit = 2
    GrandparentLimit = 2
    ExpandLimit = 6
    MaxSeq = 5
    CanDelete = TRUE
    Takers = {t1, t2}
    Readers = {r1}
    Ranges <- WholeAndPart
    MaxManual = 1
    MaxErrors = 1
SYMMETRY Symmetry
CONSTRAINT Cases
INVARIANTS
    NewerIsAbove
    NeededFilesExist
PROPERTIES
    OverlapsComeFromGaps
    OnlyWritesChangeReads
CHECK_DEADLOCK FALSE
