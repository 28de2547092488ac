SPECIFICATION FairSpec
CONSTANTS
    Capacity = 3
    MaxGop = 2
    TargetGops = 1
    CacheMs = 1
    Readers = {r1}
    NoBuf = 0
    Bufs = {1, 2, 3, 4, 5}
    Kinds = {"idr", "inter", "empty"}
    Dts = {0, 2}
    GraceGivesUp = FALSE
    MaxGopLen = 2
    MaxFrames = 4
    MaxClears = 1
    ConfigAlwaysStored = TRUE
INVARIANTS TypeOK GopsOrdered WindowInRing
PROPERTIES CommitEnds ReadersCatchUp
CHECK_DEADLOCK FALSE
