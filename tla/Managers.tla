------------------------------ MODULE Managers ------------------------------
(***************************************************************************)
(* The functions of CPlayerManager, CRoomManager and CRoom that the game   *)
(* logic thread composes in its message handlers, as operators from one    *)
(* value of the thread's data (a "world") to the next.  A handler of       *)
(* GameServer.tla is one composition of them, as one C++ handler is.       *)
(*                                                                         *)
(* A world w is a record with the fields                                   *)
(*   players     CPlayerManager::players, in vector order                  *)
(*   pool        CPlayer objects that playerObjectPool would hand out      *)
(*   info        the fields of every CPlayer object: steamID, socket, state*)
(*   rooms       CRoomManager::rooms, in list order (creation order)       *)
(*   slot        CRoom::players of every room                              *)
(*   state       CRoom::state of every room                                *)
(*   matchRooms, gameRooms  the two other lists, as sets: their order only *)
(*               decides which of several possible matches comes first     *)
(*   sock        per CSocket: "free" (in socketObjectPool, AcceptEx may be *)
(*               pending on it), "open" (sockStates true) or "closing"     *)
(*               (sockStates false, TransmitFile pending)                  *)
(*   inbox       sockets of the CLOSE messages the thread has not handled  *)
(* UDP addresses and ping times are not part of this module.               *)
(***************************************************************************)
EXTENDS Integers, Sequences, FiniteSets

CONSTANTS Player,     \* CPlayer objects
          Room,       \* CRoom objects
          Socket,     \* CSocket objects
          SteamID,    \* steam IDs of the clients, all different from 0
          NoPlayer, NoRoom, NoSocket,   \* nullptr of each type
          NoID        \* steamID 0: not identified yet

ASSUME NullAssumption ==
    /\ NoPlayer \notin Player
    /\ NoRoom \notin Room
    /\ NoSocket \notin Socket
    /\ NoID \notin SteamID

MAX_PLAYER == 2
Slots == 0 .. (MAX_PLAYER - 1)

EGameState == {"LOBBY", "READY", "GAME", "ConnectionLost"}
CPlayer == [steamID : SteamID \cup {NoID},
            socket  : Socket \cup {NoSocket},
            state   : EGameState]
Seats == [Slots -> Player \cup {NoPlayer}]

\* A pooled object.  Its fields are written by CreatePlayer and OnAcceptMessage
\* before anything reads them, so one value stands for all.
Blank == [steamID |-> NoID, socket |-> NoSocket, state |-> "LOBBY"]
NoSeats == [i \in Slots |-> NoPlayer]

(***************************************************************************)
(* std::vector and std::list without iterators.                            *)
(***************************************************************************)
Elems(seq) == {seq[i] : i \in DOMAIN seq}

\* The first element of seq that is in S, as the search loops return it.
FirstIn(seq, S, none) ==
    LET I == {i \in DOMAIN seq : seq[i] \in S /\ \A j \in 1 .. (i - 1) : seq[j] \notin S}
    IN  IF I = {} THEN none ELSE seq[CHOOSE i \in I : TRUE]

\* seq without the first occurrence of x.
Erase(seq, x) ==
    LET I == {i \in DOMAIN seq : seq[i] = x /\ \A j \in 1 .. (i - 1) : seq[j] # x}
    IN  IF I = {} THEN seq
        ELSE LET k == CHOOSE i \in I : TRUE
             IN  [i \in 1 .. (Len(seq) - 1) |-> IF i < k THEN seq[i] ELSE seq[i + 1]]

(***************************************************************************)
(* Sockets.  PostClose: the first close of an open socket starts the       *)
(* asynchronous reuse; any other posts the CLOSE message at once.          *)
(***************************************************************************)
Close(w, s) ==
    IF s \in Socket /\ w.sock[s] = "open"
    THEN [w EXCEPT !.sock[s] = "closing"]
    ELSE [w EXCEPT !.inbox = Append(@, s)]

(***************************************************************************)
(* CRoom and the lookups of CRoomManager.                                  *)
(***************************************************************************)
Members(w, r) == {w.slot[r][i] : i \in Slots} \ {NoPlayer}
GetPlayerCount(w, r) == Cardinality({i \in Slots : w.slot[r][i] # NoPlayer})
NotLost(w, r) == {i \in Slots : w.slot[r][i] # NoPlayer /\ w.info[w.slot[r][i]].state # "ConnectionLost"}
GetNotLostedPlayerCount(w, r) == Cardinality(NotLost(w, r))
CanMatching(w, r) == \A p \in Members(w, r) : w.info[p].state # "LOBBY"

RoomsOf(w, p) == {r \in Room : p \in Members(w, r)}
GetRoom(w, p) == IF p = NoPlayer THEN NoRoom ELSE FirstIn(w.rooms, RoomsOf(w, p), NoRoom)
GetConnectedRoom(w, p) == IF w.info[p].state = "ConnectionLost" THEN NoRoom ELSE GetRoom(w, p)
GetGameRoom(w, p) == LET r == GetRoom(w, p) IN IF r \in w.gameRooms THEN r ELSE NoRoom

\* A seat list without seat i, the seats behind it moved forward.
Pulled(seats, i) ==
    [j \in Slots |-> IF j < i THEN seats[j]
                     ELSE IF j = MAX_PLAYER - 1 THEN NoPlayer ELSE seats[j + 1]]
SeatOf(seats, p) == CHOOSE i \in Slots : seats[i] = p /\ \A j \in Slots : seats[j] = p => i <= j
Without(seats, p) == IF \E i \in Slots : seats[i] = p THEN Pulled(seats, SeatOf(seats, p)) ELSE seats
Swapped(seats) == [j \in Slots |-> IF j = 0 THEN seats[1] ELSE IF j = 1 THEN seats[0] ELSE seats[j]]

(***************************************************************************)
(* CPlayerManager.                                                         *)
(***************************************************************************)
GetPlayerById(w, id) == FirstIn(w.players, {p \in Player : w.info[p].steamID = id}, NoPlayer)
GetPlayerBySocket(w, s) == FirstIn(w.players, {p \in Player : w.info[p].socket = s}, NoPlayer)

\* Mutant: PopObject leaves the object in the pool.
CreatePlayer_StillPooled(w, p, s) ==
    [w EXCEPT !.players = Append(@, p),
              !.info[p] = [steamID |-> NoID, socket |-> s, state |-> "LOBBY"]]

\* p is any object the pool holds.
CreatePlayer(w, p, s) ==
    [w EXCEPT !.pool = @ \ {p},
              !.players = Append(@, p),
              !.info[p] = [steamID |-> NoID, socket |-> s, state |-> "LOBBY"]]

\* Mutant: the object is erased from the vector and not returned.
RemovePlayer_Leaked(w, p) == [w EXCEPT !.players = Erase(@, p)]

\* Only a player that is in the vector goes back to the pool.  What the object
\* holds stays visible to a room that still points to it, to nothing else.
RemovePlayer(w, p) ==
    IF p \notin Elems(w.players) THEN w
    ELSE [w EXCEPT !.players = Erase(@, p),
                   !.pool = @ \cup {p},
                   !.info[p] = IF \E r \in Elems(w.rooms) : p \in Members(w, r) THEN @ ELSE Blank]

RemoveSeated(w, seats) == RemovePlayer(RemovePlayer(w, seats[0]), seats[1])

(***************************************************************************)
(* CRoomManager: life and state of rooms.                                  *)
(***************************************************************************)
FreeRooms(w) == Room \ Elems(w.rooms)

\* What roomObjectPool hands out: a room that is not in use.
NewRoom(w) == CHOOSE r \in Room : r \in FreeRooms(w)

\* Puts p alone in a new room.  Room is a bound: the pool grows when it is empty.
CreateRoom(w, p) ==
    IF FreeRooms(w) = {} THEN w
    ELSE [w EXCEPT !.rooms = Append(@, NewRoom(w)),
                   !.slot[NewRoom(w)] = [NoSeats EXCEPT ![0] = p],
                   !.state[NewRoom(w)] = "LOBBY"]

\* Mutant: the room is only removed from the list of all rooms.
DeleteRoom_StillListed(w, r) ==
    [w EXCEPT !.rooms = Erase(@, r), !.slot[r] = NoSeats, !.state[r] = "LOBBY"]

\* The room goes back to the pool; Init overwrites it before it is read again.
DeleteRoom(w, r) ==
    [w EXCEPT !.rooms = Erase(@, r),
              !.matchRooms = @ \ {r},
              !.gameRooms = @ \ {r},
              !.slot[r] = NoSeats,
              !.state[r] = "LOBBY"]

\* Mutant: the players in the room are not told.
SetState_RoomOnly(w, r, st) == [w EXCEPT !.state[r] = st]

\* The state of a room is also written to every player in it.
SetState(w, r, st) ==
    [w EXCEPT !.state[r] = st,
              !.info = [p \in Player |-> IF p \in Members(w, r) THEN [@[p] EXCEPT !.state = st] ELSE @[p]]]

\* Mutant: a room that starts its game stays among the waiting ones.
ChangeRoomState_StillWaiting(w, r, st) ==
    IF w.state[r] = st THEN w
    ELSE SetState([w EXCEPT
             !.matchRooms = IF st = "LOBBY" THEN @ \ {r} ELSE @ \cup {r},
             !.gameRooms  = IF st = "GAME" THEN @ \cup {r} ELSE @ \ {r}], r, st)

ChangeRoomState(w, r, st) ==
    IF w.state[r] = st THEN w
    ELSE SetState([w EXCEPT
             !.matchRooms = CASE st = "READY" -> @ \cup {r}
                              [] st = "GAME"  -> @ \ {r}
                              [] OTHER        -> IF w.state[r] = "READY" THEN @ \ {r} ELSE @,
             !.gameRooms  = CASE st = "GAME"  -> @ \cup {r}
                              [] OTHER        -> IF st = "LOBBY" /\ w.state[r] = "GAME" THEN @ \ {r} ELSE @],
             r, st)

CheckAndRestateRoom(w, r) ==
    IF w.state[r] \in {"LOBBY", "READY"}
    THEN ChangeRoomState(w, r, IF CanMatching(w, r) THEN "READY" ELSE "LOBBY")
    ELSE w

\* Mutant: the room its last player leaves is not deleted.
LeaveRoom_KeepsEmpty(w, p) ==
    LET r == GetRoom(w, p)
    IN  IF r = NoRoom THEN w
        ELSE CheckAndRestateRoom([w EXCEPT !.slot[r] = Without(@, p)], r)

\* One turn of the loop of OutRoom.
LeaveRoom(w, p) ==
    LET r == GetRoom(w, p)
    IN  IF r = NoRoom THEN w
        ELSE IF GetPlayerCount(w, r) = 1 THEN DeleteRoom(w, r)
        ELSE LET v == CheckAndRestateRoom([w EXCEPT !.slot[r] = Without(@, p)], r)
             IN  IF GetPlayerCount(v, r) = 0 THEN DeleteRoom(v, r) ELSE v

\* A player is in its room, and at most in one more that kept its pointer.
OutRoom(w, p) == LeaveRoom(LeaveRoom(w, p), p)

KickPlayer(w, p) == CreateRoom(OutRoom(w, p), p)

(***************************************************************************)
(* A connection takes over the player object that already has its steam ID.*)
(***************************************************************************)
\* Mutant: the game room is looked up for the object of the new connection.
Absorbed_NewRoom(w, from_new, to_old) ==
    RemovePlayer([w EXCEPT
        !.info[to_old].state = IF GetGameRoom(w, from_new) # NoRoom THEN "GAME" ELSE "LOBBY",
        !.info[to_old].socket = w.info[from_new].socket,
        !.info[from_new].socket = NoSocket], from_new)

\* CPlayerManager::AbsorbPlayer.
Absorbed(w, from_new, to_old) ==
    LET v == RemovePlayer([w EXCEPT
                 !.info[to_old].state = IF GetGameRoom(w, to_old) # NoRoom THEN "GAME" ELSE "LOBBY",
                 !.info[to_old].socket = w.info[from_new].socket,
                 !.info[from_new].socket = NoSocket], from_new)
    IN  IF GetPlayerById(v, v.info[to_old].steamID) = NoPlayer
        THEN [v EXCEPT !.players = Append(@, to_old)]
        ELSE v

\* Mutant: the object of the new connection stays in its room.
AbsorbPlayer_StillSeated(w, from_new, to_old) ==
    Absorbed(Close(w, w.info[to_old].socket), from_new, to_old)

\* CGameProcessor::AbsorbPlayer.
AbsorbPlayer(w, from_new, to_old) ==
    LET v == OutRoom(w, from_new)
        old == v.info[to_old].socket
    IN  Absorbed(IF old # NoSocket THEN Close(v, old) ELSE v, from_new, to_old)

\* The seat JoinRoom stops at: the first one that is free or has p's steam ID.
JoinSeats(w, r, p) ==
    {i \in Slots : w.slot[r][i] = NoPlayer \/ w.info[w.slot[r][i]].steamID = w.info[p].steamID}

\* CRoom::JoinRoom: the new world and the player object that now stands for p.
JoinRoom(w, r, p) ==
    IF JoinSeats(w, r, p) = {} THEN [world |-> w, player |-> p]
    ELSE LET i == CHOOSE i \in JoinSeats(w, r, p) : \A j \in JoinSeats(w, r, p) : i <= j
             q == w.slot[r][i]
         IN  IF q = NoPlayer THEN [world |-> [w EXCEPT !.slot[r][i] = p], player |-> p]
             ELSE [world |-> AbsorbPlayer(w, p, q), player |-> q]

(***************************************************************************)
(* Disconnection.                                                          *)
(***************************************************************************)
\* Mutant: the room is marked lost with its player.
DisconnectPlayer_RoomLost(w, r, p) ==
    IF w.state[r] = "GAME"
    THEN [w EXCEPT !.state[r] = "ConnectionLost", !.info[p].state = "ConnectionLost"]
    ELSE CheckAndRestateRoom([w EXCEPT !.slot[r] = Without(Without(@, p), p)], r)

\* Mutant: a lost master keeps its seat.
DisconnectPlayer_NoSwap(w, r, p) ==
    IF w.state[r] = "GAME" THEN [w EXCEPT !.info[p].state = "ConnectionLost"]
    ELSE CheckAndRestateRoom([w EXCEPT !.slot[r] = Without(Without(@, p), p)], r)

\* Mutant: the seat is closed up in a game too.
DisconnectPlayer_SeatEmptied(w, r, p) ==
    CheckAndRestateRoom([w EXCEPT !.slot[r] = Without(Without(@, p), p)], r)

\* CRoom::DisconnectPlayer: in a game the player stays in its seat, marked lost,
\* and a lost master changes places with seat 1; elsewhere its seat is closed up.
DisconnectPlayer(w, r, p) ==
    IF w.state[r] = "GAME"
    THEN [w EXCEPT !.slot[r] = IF @[0] = p THEN Swapped(@) ELSE @,
                   !.info[p].state = "ConnectionLost"]
    ELSE CheckAndRestateRoom([w EXCEPT !.slot[r] = Without(Without(@, p), p)], r)

\* Removes a room and every player in it.
DropRoom(w, r) == RemoveSeated(DeleteRoom(w, r), w.slot[r])

\* Mutant: who is left in the room is not counted.
DisconnectRoom_NotCounted(w, p) ==
    LET r == GetConnectedRoom(w, p)
    IN  IF r = NoRoom THEN RemovePlayer(w, p) ELSE DisconnectPlayer(w, r, p)

DisconnectRoom(w, p) ==
    LET r == GetConnectedRoom(w, p)
    IN  IF r = NoRoom THEN RemovePlayer(w, p)
        ELSE IF GetNotLostedPlayerCount(w, r) <= 1 THEN DropRoom(w, r)
        ELSE LET v == DisconnectPlayer(w, r, p)
             IN  IF GetNotLostedPlayerCount(v, r) = 0 THEN DropRoom(v, r) ELSE v
=============================================================================
