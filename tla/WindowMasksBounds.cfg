SPECIFICATION MasksSpec
CONSTANTS
    NumThreads = 2
    VectorSize = 2
    WordBits = 4
    MaxBlocks = 2
    MaxBegins = 1
    Inputs <- MCGroups
    NotSet = NotSet
INVARIANTS
    WithinBounds
CHECK_DEADLOCK FALSE
