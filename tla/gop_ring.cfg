SPECIFICATION Spec
CONSTANTS
    Capacity = 5
    MaxGop = 2
    TargetGops = 1
    CacheMs = 0
    Readers = {r1}
    NoBuf = 0
    Bufs = {1, 2, 3, 4, 5, 6, 7}
    Kinds = {"idr", "inter"}
    Dts = {0}
    GraceGivesUp = FALSE
    MaxGopLen = 2
    MaxFrames = 7
    MaxClears = 1
    ConfigAlwaysStored = TRUE
INVARIANTS HeldIntact NoTouchAfterFree RefsExact KeyIndexed
PROPERTIES TakesItsSlot InOrder
CHECK_DEADLOCK FALSE
