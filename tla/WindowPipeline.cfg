SPECIFICATION PipelineSpec
CONSTANTS
    Threads = {t1, t2, t3}
    NumThreads = 3
    AlignedScale = 1
    Bins = 1
    Blocks <- OneGroup
    NoTask = NoTask
    Workers = {w1, w2}
    Client = w1
    NoThread = NoThread
INVARIANTS
    OneWorkerPerTask
    BlockedIsReachable
PROPERTIES
    BatchOrder
    QueryEnds
    ImplementsSource
