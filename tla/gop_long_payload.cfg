SPECIFICATION Spec
CONSTANTS
    Capacity = 3
    MaxGop = 2
    TargetGops = 1
    CacheMs = 0
    Readers = {r1}
    NoBuf = 0
    Bufs = {1, 2, 3, 4, 5, 6}
    Kinds = {"idr", "inter"}
    Dts = {0}
    GraceGivesUp = FALSE
    MaxGopLen = 9
    MaxFrames = 8
    MaxClears = 0
    ConfigAlwaysStored = TRUE
INVARIANTS HeldIntact
CHECK_DEADLOCK FALSE
