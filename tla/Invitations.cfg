SPECIFICATION Spec
CONSTANTS
    Player = {p1, p2, p3}
    Room = {r1, r2, r3}
    Socket = {s1, s2, s3}
    SteamID = {id1, id2, id3}
    NoPlayer = NoPlayer
    NoRoom = NoRoom
    NoSocket = NoSocket
    NoID = NoID
    Events = {"AnswerId", "Invite"}
    Recycles = FALSE
    MaxInbox = 1
SYMMETRY Interchangeable
CHECK_DEADLOCK FALSE
PROPERTIES
    PartiesNotMoved
