SPECIFICATION Spec
CONSTANTS
    MaxOpens = 2
    Segments = 5
    Window = 3
    Tracks = 2
    Size = 2
    PerFlush = 1
    MaxAsks = 2
    MaxOut = 0
    Players = {"a", "b"}
    Publishers = {"c", "d"}
    SessionMax = 2
    MaxDeletes = 2
    Modes = {"passive", "active", "unknown"}
    Ports = {1}
    PacketKinds = {"key", "alien"}
    Junk = {0, 2}
    MaxPackets = 2
    MaxRequests = 2
    MaxConns = 2
    MaxDatagrams = 1
INVARIANTS HeldOnce CarriedRight Quiet
PROPERTIES LiveCatchesUp Drains FilePlays Pumped ClientContract PullRecovers
CHECK_DEADLOCK FALSE
