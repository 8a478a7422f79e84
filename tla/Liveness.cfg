SPECIFICATION FairSpec
CONSTANTS
    Player = {p1, p2}
    Room = {r1, r2}
    Socket = {s1, s2}
    SteamID = {id1, id2}
    NoPlayer = NoPlayer
    NoRoom = NoRoom
    NoSocket = NoSocket
    NoID = NoID
    Events = {"AnswerId", "Invite", "Ping"}
    Recycles = FALSE
    MaxInbox = 1
CHECK_DEADLOCK FALSE
PROPERTIES
    DeadPlayersLeave
