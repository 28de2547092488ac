SPECIFICATION FairSpec
CONSTANTS
    RetryCounts = {0, 1}
    PollerThreads = {FALSE}
    MaxPushes = 1
    MaxApis = 1
    MaxFailed = 2
PROPERTY TakeoverEnds
CHECK_DEADLOCK FALSE
