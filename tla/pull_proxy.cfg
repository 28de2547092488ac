SPECIFICATION FairSpec
CONSTANTS
    RetryCounts = {0, 1}
    PollerThreads = {TRUE, FALSE}
    MaxPushes = 1
    MaxApis = 1
    MaxFailed = 2
INVARIANTS OneChain StoppedIsQuiet FreedUntouched
PROPERTIES ClientContract Recovers
CHECK_DEADLOCK FALSE
