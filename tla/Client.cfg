SPECIFICATION Spec
CONSTANTS
    InitThread = {i1, i2}
    TcpThread = {t1, t2}
    UdpThread = {u1, u2}
    None = None
    NetEvents = {{"Drop", "UDPLoss"}, {"EarlyDrop"}, {"UDPRequest"}, {"TCPRequest"}, {"Quit"}, {"Stop", "UDPLoss"}}
    MaxFaults = 2
    MaxOrders = 1
    MaxDrops = 1
    MaxTries = 2
    LengthSize = 2
    BufSize = 6
    PayloadLens = {1, 3}
    MaxPackets = 3
    CutSets = {{}, {"Overflow", "Length"}}
    Client = {c1, c2}
    Player = {p1, p2}
    NoOne = NoOne
    UdpEvents = {{}}
    MaxConnections = 3
    MaxSockets = 2
    Object = {o1}
    RepEvents = {{"Authority", "Destroy", "StopSync"}, {"Late"}, {"StopSync", "Timeout"}, {"Unreliable", "Authority", "StopSync"}}
    MaxWrites = 2
    MaxCalls = 2
    SessionEvents = {{"Drop", "Crash", "EndGame", "Both"}, {"Drop", "Crash"}}
    MaxLosses = 2
    MaxGames = 1
    MaxString = 56
    SingleBuf = 70
    PacketBuf = 193
    TextSizes = {1, 9}
    MaxMessages = 2
    Member = {m1, m2, m3}
    BatchSets = {{}, {"Batch"}}
    MaxPresses = 3
    MaxLeaves = 1
    Kinds = {"location", "rotation", "control"}
    Places = {0, 1, 3, 7}
    Gap = 1
    Limit = 4
    Steps = 2
    MaxMoves = 2
    MaxThrows = 1
CHECK_DEADLOCK FALSE
INVARIANTS
    JoinedOnce
    ArrivedAreHandled
    RegisteredIsAttributed
    CallsSeeTheirState
    Converges
    SlotsAgree
    PausedExactly
    PacketsArrive
    ScreensAgree
PROPERTIES
    StaysOnline
    OffEndsAll
