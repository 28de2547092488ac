SPECIFICATION Spec
CONSTANTS
    N = 6
    Cap = 4
    HighWater = 3
    TargetLag = 2
    SyncMax = 5
    Lanes = {1, 2, 3}
    Files <- MCFiles
    CatchupLag = 1
    CatchupBudget = 3
    VodBudget = 1
    OutCap = 3
    OutFlush = 1
    OpenFails = TRUE
    MaxPlays = 2
    MaxSeeks = 1
    MaxPauses = 1
    Targets = {0, 4, 5}
INVARIANT FifoContiguous
INVARIANT RunIsTheFile
INVARIANT HoldMatches
INVARIANT ReaderOfOpenLane
PROPERTY PlaysToTheEnd
CHECK_DEADLOCK FALSE
