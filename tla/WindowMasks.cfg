SPECIFICATION MasksSpec
CONSTANTS
    NumThreads = 3
    VectorSize = 2
    WordBits = 4
    MaxBlocks = 5
    MaxBegins = 2
    Inputs <- MCGroups
    NotSet = NotSet
INVARIANTS
    MaskIsExact
PROPERTIES
    FinishedRowsStay
CHECK_DEADLOCK FALSE
