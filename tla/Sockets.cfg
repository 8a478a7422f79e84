SPECIFICATION FairSpec
CONSTANTS
    Socket = {s1, s2}
    Worker = {w1, w2, w3}
    s1 = s1
    s2 = s2
    w1 = w1
    w2 = w2
    w3 = w3
    Machines <- MCMachines
    Conn = {c1, c2}
    NoSocket = NoSocket
    NoConn = NoConn
    EventSets = {{"Data", "RecvError"}, {"FirstRecvError", "AcceptError"}, {"CloseError"}, {"Data", "OverlapReuse", "RecvError"}, {"ServerClose"}, {"Data", "PostAcceptError"}}
    MaxData = 1
    MaxCloses = 1
CHECK_DEADLOCK FALSE
INVARIANTS
    AlwaysAccepting
    PoolIsClean
PROPERTIES
    QueueIsFIFO
    ConnectionsServed
    DataReachesOwner
