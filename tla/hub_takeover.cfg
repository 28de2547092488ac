SPECIFICATION FairSpec
CONSTANTS
    Sessions = {r1, t1}
    Rtsp = {t1}
    Api = api
    Nobody = nobody
    MaxCloses = 1
    MaxRequests = 4
INVARIANTS NoOrphans EndsMatchBegins
PROPERTIES OneSurvives
CHECK_DEADLOCK FALSE
