SPECIFICATION FairSpec
CONSTANTS
    Threads = {t1, t2}
    NumThreads = 2
    AlignedScale = 1
    Bins = 3
    Blocks <- TwoGroups
    NoTask = NoTask
INVARIANTS
    TypeOK
    StageBarrier
    GroupIsLive
    BlockOnce
    LocalStatesReady
    NoLostWakeup
    AllBlocksReturned
PROPERTIES
    Termination
