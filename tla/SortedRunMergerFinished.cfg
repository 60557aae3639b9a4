SPECIFICATION Spec
CONSTANTS
    Threads = {t1, t2}
    NumThreads = 2
    Runs <- MCRuns
    Mergers <- MCBuildRuns
    MaxSkipped = 1
    TuplesPerBlock = 1
    VectorSize = 3
    NoPartition = NoPartition
INVARIANTS
    CompleterReturnsFinished
