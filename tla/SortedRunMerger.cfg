SPECIFICATION Spec
CONSTANTS
    Threads = {t1, t2}
    NumThreads = 2
    Runs <- MCRuns
    Mergers <- MCMergers
    MaxSkipped = 1
    TuplesPerBlock = 1
    VectorSize = 3
    NoPartition = NoPartition
INVARIANTS
    ResultIsComplete
    RunsAreFreed
    NoUseAfterDestroy
    SearchFromBoundary
    MergesItsPartition
PROPERTIES
    AllTasksEnd
