SPECIFICATION Spec
CONSTANTS
    Rows = {1, 2, 3, 4, 5}
    Inputs <- MCInputs
    NumRuns = 2
    NumPartitions = 2
    predicate = 2
    VectorSize = 2
    Base = 2
    PartitionSize = 4
    MaxPart = 1
    Values = {1, 4, 31}
INVARIANTS
    MergePruningIsExact
    PrunesFully
PROPERTIES
    ImplementsQuery
CHECK_DEADLOCK FALSE
