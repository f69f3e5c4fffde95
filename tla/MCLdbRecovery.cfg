SPECIFICATION Spec
CONSTANTS
    MaxSeq = 3
    MaxFile = 12
    MaxOpens = 3
    MaxCompactions = 1
    MaxOutputs = 3
    MaxErrors = 2
CONSTRAINT Cases
INVARIANTS
    AckedSurvive
    SyncedSurvive
    OpensAgain
CHECK_DEADLOCK FALSE
