SPECIFICATION Spec
CONSTANTS
    NumRuns = 3
    PartitionSize = 3
    Keys = {1, 2}
    MaxRun = 4
INVARIANTS
    NeverOvershoots
    FindsTheCut
PROPERTIES
    Ends
CHECK_DEADLOCK FALSE
