SPECIFICATION Spec
CONSTANTS
    Threads = {t1, t2}
    Rows = {1, 2, 3, 4}
    Data <- MCData
    HashOf <- MCHashOf
    MaxPart = 1
    MaxValue = 1
    predicate_value = 2
    PruneChoices = {TRUE, FALSE}
    ChunkSize = 2
    InitialBits = 1
    max_bits = 2
    HashBits = 2
    RowGroupSize = 1
    estimated_cardinality = 0
    NoRow = NoRow
SYMMETRY Symmetry
INVARIANTS
    PruningIsExact
    PartitionsTogether
PROPERTIES
    ImplementsQuery
CHECK_DEADLOCK FALSE
