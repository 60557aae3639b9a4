SPECIFICATION FairSpec
CONSTANTS
    States = {sort, other}
    ThisSort = sort
    memory_limit = 12
    query_max_memory = 12
    DefaultMinimumReservation = 2
    Configs <- MCConfigs
    Threads = {t1, t2}
    num_threads = 2
    ChunkSizes = {1, 2}
    MaxChunks = 3
    OtherSizes = {3, 16}
    OtherMinimums = {2, 14}
    RowGroupSize = 3
    VectorSize = 2
    NoThread = NoThread
INVARIANTS
    RunsAgree
    RunsWithinLimit
    TotalIsComplete
    GrantsWithinLimit
PROPERTIES
    SinkEnds
CHECK_DEADLOCK FALSE
