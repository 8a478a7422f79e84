----------------------------- MODULE GameServer -----------------------------
(***************************************************************************)
(* The game logic thread of HACKEDNetworkServer (CGameProcessor) with the  *)
(* life of the TCP sockets it serves.                                      *)
(*                                                                         *)
(* An action is one message handler of the logic thread, one step of its   *)
(* periodic Update, or one completion handled by an I/O worker thread.     *)
(* Workers and logic thread share the state of the sockets and the message *)
(* queue only.  Of the queue, the CLOSE messages are state: they may be    *)
(* overtaken by what happened to the socket or to the player since.  A TCP *)
(* or ACCEPT message changes nothing before it is handled, so posting and  *)
(* handling it is one step.                                                *)
(***************************************************************************)
EXTENDS Managers

CONSTANTS Events,     \* the client requests and timeouts that may happen
          Recycles,   \* whether a socket may be reused while a player still holds it
          MaxInbox    \* bound: CLOSE messages waiting at one time

ASSUME EventsAssumption ==
    Events \subseteq {"AnswerId", "Invite", "King", "Kick", "Match", "EndGame",
                      "Reconnect", "DebugRoom", "DebugGame", "Ping"}
ASSUME RecyclesAssumption == Recycles \in BOOLEAN
ASSUME MaxInboxAssumption == MaxInbox \in Nat \ {0}

VARIABLES players, pool, info,                      \* CPlayerManager
          rooms, slot, state, matchRooms, gameRooms,    \* CRoomManager
          sock, inbox,     \* the socket layer and the message queue
          recv,            \* recv[s]: a WSARecv is outstanding on s
          client,          \* client[s]: who is at the other end of s
          pc               \* what the logic thread is doing

data == <<players, pool, info, rooms, slot, state, matchRooms, gameRooms, sock, inbox>>
vars == <<players, pool, info, rooms, slot, state, matchRooms, gameRooms, sock, inbox, recv, client, pc>>

World == [players |-> players, pool |-> pool, info |-> info, rooms |-> rooms,
          slot |-> slot, state |-> state, matchRooms |-> matchRooms,
          gameRooms |-> gameRooms, sock |-> sock, inbox |-> inbox]

Commit(w) ==
    /\ players' = w.players
    /\ pool' = w.pool
    /\ info' = w.info
    /\ rooms' = w.rooms
    /\ slot' = w.slot
    /\ state' = w.state
    /\ matchRooms' = w.matchRooms
    /\ gameRooms' = w.gameRooms
    /\ sock' = w.sock
    /\ inbox' = w.inbox

\* The data of a server that has just started.
Fresh == [players |-> << >>, pool |-> Player, info |-> [p \in Player |-> Blank],
          rooms |-> << >>, slot |-> [r \in Room |-> NoSeats], state |-> [r \in Room |-> "LOBBY"],
          matchRooms |-> {}, gameRooms |-> {},
          sock |-> [s \in Socket |-> "free"], inbox |-> << >>]

Init ==
    /\ players = Fresh.players
    /\ pool = Fresh.pool
    /\ info = Fresh.info
    /\ rooms = Fresh.rooms
    /\ slot = Fresh.slot
    /\ state = Fresh.state
    /\ matchRooms = Fresh.matchRooms
    /\ gameRooms = Fresh.gameRooms
    /\ sock = Fresh.sock
    /\ inbox = Fresh.inbox
    /\ recv = [s \in Socket |-> FALSE]
    /\ client = [s \in Socket |-> NoID]
    /\ pc = "run"

\* The process dies.  Nothing is persistent: the server that replaces it starts fresh.
Crash ==
    /\ Commit(Fresh)
    /\ recv' = [s \in Socket |-> FALSE]
    /\ client' = [s \in Socket |-> NoID]
    /\ pc' = "crashed"

Restart ==
    /\ pc = "crashed"
    /\ pc' = "run"
    /\ UNCHANGED <<data, recv, client>>

Running == pc # "crashed"
MayPost == Len(inbox) < MaxInbox

(***************************************************************************)
(* The I/O worker threads.                                                 *)
(***************************************************************************)
\* _AcceptProc and OnAcceptMessage.  ACCEPT follows every CLOSE of the socket's
\* last life in the queue.  Room is the bound on rooms, Player on players.
Connect(s, id) ==
    /\ pc = "run"
    /\ sock[s] = "free" /\ ~recv[s]
    /\ s \notin Elems(inbox)
    /\ Recycles \/ \A p \in Elems(players) : info[p].socket # s
    /\ FreeRooms(World) # {}
    /\ \E p \in pool :
         LET w == CreatePlayer([World EXCEPT !.sock[s] = "open"], p, s)
         IN  Commit(CreateRoom(w, p))
    /\ recv' = [recv EXCEPT ![s] = TRUE]
    /\ client' = [client EXCEPT ![s] = id]
    /\ UNCHANGED pc

\* A WSARecv completes with no data: the peer is gone, or the close of the socket
\* aborted it.  Either way it is not posted again, and the worker closes the socket.
RecvFails(s) ==
    /\ Running /\ MayPost
    /\ recv[s]
    /\ recv' = [recv EXCEPT ![s] = FALSE]
    /\ Commit(Close(World, s))
    /\ UNCHANGED <<client, pc>>

\* The TransmitFile of PostClose completes: the socket can be used again.
CloseDone(s) ==
    /\ Running /\ MayPost
    /\ sock[s] = "closing" /\ ~recv[s]
    /\ Commit([World EXCEPT !.sock[s] = "free", !.inbox = Append(@, s)])
    /\ client' = [client EXCEPT ![s] = NoID]
    /\ UNCHANGED <<recv, pc>>

(***************************************************************************)
(* The message handlers of the logic thread.  The player of a request is   *)
(* the first one that holds the socket.                                    *)
(***************************************************************************)
Me(s) == GetPlayerBySocket(World, s)

Receives(s, kind) ==
    /\ pc = "run" /\ MayPost
    /\ kind \in Events
    /\ recv[s]
    /\ Me(s) # NoPlayer

Reply(w) == Commit(w) /\ UNCHANGED <<recv, client, pc>>

OnCloseMessage ==
    /\ pc = "run"
    /\ inbox # << >>
    /\ LET p == Me(Head(inbox))
           w == [World EXCEPT !.inbox = Tail(@)]
       IN  Reply(IF p = NoPlayer THEN w ELSE DisconnectRoom(w, p))

\* Mutant: only a connected player counts as the old one.
Identified_NotResumed(id, me) ==
    LET old == GetPlayerById(World, id)
        absorbs == old # NoPlayer /\ info[old].socket # info[me].socket /\ info[old].state # "ConnectionLost"
        who == IF absorbs THEN old ELSE me
        w == IF absorbs THEN AbsorbPlayer(World, me, old) ELSE World
    IN  [world |-> [w EXCEPT !.info[who].steamID = id], player |-> who]

\* Mutant: an ID another connection has is taken without absorbing its player.
Identified_NotAbsorbed(id, me) ==
    [world |-> [World EXCEPT !.info[me].steamID = id], player |-> me]

\* A connection takes over the player that already has its ID on another socket.
Identified(id, me) ==
    LET old == GetPlayerById(World, id)
        absorbs == old # NoPlayer /\ info[old].socket # info[me].socket
        who == IF absorbs THEN old ELSE me
        w == IF absorbs THEN AbsorbPlayer(World, me, old) ELSE World
    IN  [world |-> [w EXCEPT !.info[who].steamID = id], player |-> who]

AnswerId(s) ==
    /\ Receives(s, "AnswerId")
    /\ Reply(Identified(client[s], Me(s)).world)

\* The seat SetPlayerWhenEmpty finds.  A room that OutRoom has deleted is only
\* written to in the pool.
MoveInto(w, r, p) ==
    IF r \notin Elems(w.rooms) THEN w
    ELSE IF \A i \in Slots : w.slot[r][i] # NoPlayer THEN CreateRoom(w, p)
    ELSE [w EXCEPT !.slot[r][CHOOSE i \in Slots : /\ w.slot[r][i] = NoPlayer
                                                  /\ \A j \in 0 .. (i - 1) : w.slot[r][j] # NoPlayer] = p]

\* InviteFriendRequest sends invitations to identified players only.  A missing room
\* is dereferenced: GetRoomMemberCount(nullptr).
InviteFriendAnswer(s, id) ==
    /\ Receives(s, "Invite")
    /\ LET outter == Me(s)
           inner == GetPlayerById(World, id)
           room == GetRoom(World, inner)
       IN  /\ info[outter].steamID # NoID
           /\ inner # NoPlayer
           /\ IF GetRoom(World, outter) = NoRoom \/ room = NoRoom THEN Crash
              ELSE /\ GetPlayerCount(World, room) < MAX_PLAYER
                   /\ Reply(MoveInto(OutRoom(World, outter), room, outter))

SetPartyKing(s) ==
    /\ Receives(s, "King")
    /\ LET me == Me(s)
           r == GetRoom(World, me)
       IN  /\ r # NoRoom
           /\ slot[r][0] = me
           /\ \E i \in Slots \ {0} :
                /\ slot[r][i] # NoPlayer
                /\ Reply([World EXCEPT !.slot[r] = [slot[r] EXCEPT ![0] = slot[r][i], ![i] = me]])

FriendKickRequest(s) ==
    /\ Receives(s, "Kick")
    /\ LET me == Me(s)
           r == GetRoom(World, me)
       IN  /\ r # NoRoom
           /\ \E i \in Slots :
                /\ slot[r][i] # NoPlayer
                /\ slot[r][0] = me \/ slot[r][i] = me
                /\ FreeRooms(OutRoom(World, slot[r][i])) # {}
                /\ Reply(KickPlayer(World, slot[r][i]))

MatchRequest(s, isOn) ==
    /\ Receives(s, "Match")
    /\ LET me == Me(s)
           r == GetRoom(World, me)
       IN  /\ info[me].steamID # NoID
           /\ r # NoRoom
           /\ state[r] # "GAME"
           /\ Reply(CheckAndRestateRoom(
                  [World EXCEPT !.info[me].state = IF isOn THEN "READY" ELSE "LOBBY"], r))

\* The rooms ForceJoinRoom and ForceJoinGameRoom consider.
Open(w, R, p) == {r \in R : GetPlayerCount(w, r) < MAX_PLAYER /\ p \notin Members(w, r)}

Debug_RoomStart(s) ==
    /\ Receives(s, "DebugRoom")
    /\ LET me == Me(s)
           r == GetRoom(World, me)
           target == FirstIn(rooms, Open(World, Room, me), NoRoom)
       IN  /\ r # NoRoom
           /\ GetPlayerCount(World, r) = 1
           /\ target # NoRoom
           /\ Reply(JoinRoom(OutRoom(World, me), target, me).world)

Debug_GameStart(s) ==
    /\ Receives(s, "DebugGame")
    /\ LET me == Me(s)
           r == GetRoom(World, me)
           targets == Open(World, gameRooms, me)
       IN  /\ r # NoRoom
           /\ GetPlayerCount(World, r) = 1
           /\ state[r] # "GAME"
           /\ \/ \E target \in targets :
                    Reply([JoinRoom(OutRoom(World, me), target, me).world EXCEPT !.info[me].state = "GAME"])
              \/ targets = {} /\ Reply(ChangeRoomState(World, r, "GAME"))

\* The seat of a lost player is emptied, the ones behind it stay.
Evict(w, r, i) ==
    LET p == w.slot[r][i]
    IN  IF p # NoPlayer /\ w.info[p].state = "ConnectionLost"
        THEN [RemovePlayer(w, p) EXCEPT !.slot[r][i] = NoPlayer]
        ELSE w

InGame_EndGame(s) ==
    /\ Receives(s, "EndGame")
    /\ LET r == GetGameRoom(World, Me(s))
       IN  /\ r # NoRoom
           /\ state[r] = "GAME"
           /\ Reply(ChangeRoomState(Evict(Evict(World, r, 0), r, 1), r, "LOBBY"))

\* The room a client that lost its server goes back to: the one of the first
\* member of its old room that has one.
OldRoom(w, id, seats) ==
    LET RoomAt(i) == IF seats[i] \in {NoID, id} THEN NoRoom
                     ELSE GetRoom(w, GetPlayerById(w, seats[i]))
    IN  IF RoomAt(0) # NoRoom THEN RoomAt(0) ELSE RoomAt(1)

\* A complete room gets its old master back.
Remaster(w, r, seats) ==
    LET p == w.slot[r][1]
    IN  IF /\ GetPlayerCount(w, r) = Cardinality({i \in Slots : seats[i] # NoID})
           /\ p # NoPlayer
           /\ w.info[p].steamID = seats[0]
        THEN [w EXCEPT !.slot[r] = Swapped(@)]
        ELSE w

\* Mutant: the player does not leave the room it was given when it connected.
InGame_ReconnectServer_TwoRooms(s, seats, isGameRoom) ==
    /\ Receives(s, "Reconnect")
    /\ LET id == client[s]
           me == Me(s)
           old == GetPlayerById(World, id)
           w1 == Identified(id, me).world
           who == Identified(id, me).player
           r1 == GetGameRoom(w1, who)
           r2 == OldRoom(w1, id, seats)
       IN  /\ old # NoPlayer => info[old].socket # info[me].socket
           /\ r1 = NoRoom /\ r2 # NoRoom
           /\ Reply(Remaster(JoinRoom(w1, r2, who).world, r2, seats))

InGame_ReconnectServer(s, seats, isGameRoom) ==
    /\ Receives(s, "Reconnect")
    /\ LET id == client[s]
           me == Me(s)
           old == GetPlayerById(World, id)
           w1 == Identified(id, me).world
           who == Identified(id, me).player
           r1 == GetGameRoom(w1, who)
           r2 == OldRoom(w1, id, seats)
           w2 == OutRoom(w1, who)
           r3 == NewRoom(w2)
           w3 == CreateRoom(w2, who)
       IN  /\ old # NoPlayer => info[old].socket # info[me].socket
           /\ IF r1 # NoRoom THEN Reply(Remaster(w1, r1, seats))
              ELSE IF r2 # NoRoom THEN Reply(Remaster(JoinRoom(w2, r2, who).world, r2, seats))
              ELSE /\ FreeRooms(w2) # {}
                   /\ Reply(Remaster(IF isGameRoom THEN ChangeRoomState(w3, r3, "GAME") ELSE w3, r3, seats))

(***************************************************************************)
(* The periodic Update of the logic thread.                                *)
(***************************************************************************)
\* Mutant: only players that are in a room are looked at.
UpdatePing_RoomsOnly(p) ==
    /\ pc = "run" /\ MayPost
    /\ "Ping" \in Events
    /\ p \in Elems(players)
    /\ info[p].state # "ConnectionLost"
    /\ GetRoom(World, p) # NoRoom
    /\ Reply(Close(World, info[p].socket))

\* CGameProcessor::Update closes the connection of a player that has not answered
\* for PING_FINAL_DELAY seconds; a failed send closes it too.  The 60 seconds go on
\* running after the close, so every later Update closes it again.
UpdatePing(p) ==
    /\ pc = "run" /\ MayPost
    /\ "Ping" \in Events
    /\ p \in Elems(players)
    /\ info[p].state # "ConnectionLost"
    /\ Reply(Close(World, info[p].socket))

\* TryMatching: a waiting room that is full, or two that fill each other.
Matches(w, i, j) ==
    \/ i = j /\ GetPlayerCount(w, i) = MAX_PLAYER
    \/ i # j /\ GetPlayerCount(w, j) > 0
             /\ GetPlayerCount(w, i) + GetPlayerCount(w, j) = MAX_PLAYER
Matching(w) == {m \in w.matchRooms \X w.matchRooms : Matches(w, m[1], m[2])}

\* Mutant: the merge starts one seat before the first empty one.
Merged_OneBefore(w, i, j) ==
    LET k == CHOOSE x \in Slots : w.slot[i][x] # NoPlayer /\ \A y \in 0 .. (x - 1) : w.slot[i][y] = NoPlayer
        p == IF w.slot[j][0] # NoPlayer THEN w.slot[j][0] ELSE w.slot[j][1]
    IN  IF GetPlayerCount(w, j) = MAX_PLAYER THEN [w EXCEPT !.slot[i] = w.slot[j]]
        ELSE [w EXCEPT !.slot[i][k] = p]

\* The players of room j take the seats of room i from the first empty one on.
Merged(w, i, j) ==
    LET k == CHOOSE x \in Slots : w.slot[i][x] = NoPlayer /\ \A y \in 0 .. (x - 1) : w.slot[i][y] # NoPlayer
        p == IF w.slot[j][0] # NoPlayer THEN w.slot[j][0] ELSE w.slot[j][1]
    IN  IF GetPlayerCount(w, j) = MAX_PLAYER THEN [w EXCEPT !.slot[i] = w.slot[j]]
        ELSE [w EXCEPT !.slot[i][k] = p]

StartGame(w, i, j) ==
    ChangeRoomState(IF i = j THEN w ELSE DeleteRoom(Merged(w, i, j), j), i, "GAME")

\* One pass of CRoomManager::Update that finds a match; it then starts again.
UpdateMatch ==
    /\ pc \in {"run", "update"}
    /\ \E m \in Matching(World) : Commit(StartGame(World, m[1], m[2]))
    /\ pc' = "update"
    /\ UNCHANGED <<recv, client>>

Deserted(w) == {r \in Elems(w.rooms) : GetNotLostedPlayerCount(w, r) = 0}

\* The rest of the last pass: rooms with no connected player are deleted, each
\* through an iterator that DeleteRoom has invalidated.  Going on from it works or
\* kills the process.
UpdateCleanup ==
    /\ pc \in {"run", "update"}
    /\ Matching(World) = {}
    /\ LET r == FirstIn(rooms, Deserted(World), NoRoom)
       IN  /\ r # NoRoom
           /\ \/ /\ Commit(DropRoom(World, r))
                 /\ pc' = "update"
                 /\ UNCHANGED <<recv, client>>
              \/ Crash

UpdateEnd ==
    /\ pc = "update"
    /\ Matching(World) = {} /\ Deserted(World) = {}
    /\ pc' = "run"
    /\ UNCHANGED <<data, recv, client>>

\* The old seats a client can remember: its own is among them, nobody's twice.
Memories(id) == {m \in [Slots -> SteamID \cup {NoID}] :
                    /\ \E i \in Slots : m[i] = id
                    /\ \A i, j \in Slots : m[i] = m[j] => i = j \/ m[i] = NoID}

Next ==
    \/ \E s \in Socket :
        \/ \E id \in SteamID : Connect(s, id)
        \/ RecvFails(s)
        \/ CloseDone(s)
        \/ AnswerId(s)
        \/ \E id \in SteamID \ {client[s]} : InviteFriendAnswer(s, id)
        \/ SetPartyKing(s)
        \/ FriendKickRequest(s)
        \/ \E isOn \in BOOLEAN : MatchRequest(s, isOn)
        \/ Debug_RoomStart(s)
        \/ Debug_GameStart(s)
        \/ InGame_EndGame(s)
        \/ \E seats \in Memories(client[s]), isGameRoom \in BOOLEAN :
             InGame_ReconnectServer(s, seats, isGameRoom)
    \/ OnCloseMessage
    \/ \E p \in Player : UpdatePing(p)
    \/ UpdateMatch
    \/ UpdateCleanup
    \/ UpdateEnd
    \/ Restart

Spec == Init /\ [][Next]_vars

(***************************************************************************)
(* Invariants.                                                             *)
(***************************************************************************)
Listed == Elems(players)
ListedRooms == Elems(rooms)

\* The state is of the types the C++ declarations give it.
TypeOK ==
    /\ players \in Seq(Player)
    /\ pool \subseteq Player
    /\ info \in [Player -> CPlayer]
    /\ rooms \in Seq(Room)
    /\ slot \in [Room -> Seats]
    /\ state \in [Room -> {"LOBBY", "READY", "GAME"}]
    /\ matchRooms \subseteq Room
    /\ gameRooms \subseteq Room
    /\ sock \in [Socket -> {"free", "open", "closing"}]
    /\ inbox \in Seq(Socket \cup {NoSocket})
    /\ recv \in [Socket -> BOOLEAN]
    /\ client \in [Socket -> SteamID \cup {NoID}]
    /\ pc \in {"run", "update", "crashed"}

\* The two lists beside rooms that RoomManager.cpp maintains by hand, in
\* ChangeRoomState and DeleteRoom, say what the state of the rooms says: matching
\* and GetGameRoom, which read only them, miss no room and see no deleted one.
RoomListsOK ==
    /\ matchRooms = {r \in ListedRooms : state[r] = "READY"}
    /\ gameRooms = {r \in ListedRooms : state[r] = "GAME"}

\* CPlayerManager's vector and the object pool share the player objects out: no
\* object is handed to two connections, none is lost to both.
PlayersOK ==
    /\ pool = Player \ Listed
    /\ \A i, j \in DOMAIN players : players[i] = players[j] => i = j

\* Rooms hold players that the player manager still has, each in one seat of one
\* room: no room points to an object that was returned to the pool.
SeatsOK ==
    /\ \A r \in ListedRooms : Members(World, r) \subseteq Listed
    /\ \A r, q \in ListedRooms, i, j \in Slots :
          slot[r][i] = slot[q][j] /\ slot[r][i] # NoPlayer => r = q /\ i = j

\* A steam ID names one player: what a client lost to another connection of the
\* same ID (AbsorbPlayer) it has lost entirely.
UniqueIds ==
    \A p, q \in Listed :
        info[p].steamID = info[q].steamID /\ info[p].steamID # NoID => p = q

\* Nobody waits in, or is matched with, an empty room: OutRoom, DisconnectRoom and
\* the cleanup of Update delete a room when its last player goes.
NoEmptyRoom == \A r \in ListedRooms : GetPlayerCount(World, r) > 0

\* What the logic thread keeps about players and rooms fits together, whatever requests, closes and
\* matches it handles: the lists, the pools, the seats and the ids, each as said above.
ServerConsistent == RoomListsOK /\ PlayersOK /\ SeatsOK /\ UniqueIds /\ NoEmptyRoom

\* TryMatching can count on it that a waiting room is not empty, whatever went wrong
\* elsewhere: a match is made of one room or of two, and of no third, empty one.
WaitingRoomsNotEmpty == \A r \in matchRooms : GetPlayerCount(World, r) > 0

\* Of the players of a game the one in seat 0, whose machine simulates it, is always
\* connected: DisconnectPlayer hands the seat over when the master is lost.
MasterPresent == \A r \in gameRooms : 0 \in NotLost(World, r)

\* Players and room agree on being in a game: a player is marked lost only in a game,
\* and everyone in a game is marked as playing or lost.
GameStatesAgree ==
    \A r \in ListedRooms : \A p \in Members(World, r) :
        state[r] = "GAME" <=> info[p].state \in {"GAME", "ConnectionLost"}

\* The logic thread never follows a null or an invalidated pointer.
NoCrash == pc # "crashed"

\* Room.h: matching considers rooms in which everyone is ready to be matched.
WaitingRoomsReady == \A r \in matchRooms : CanMatching(World, r)

\* Room.cpp, DisconnectPlayer: in a game a disconnect is only marked; the player stays
\* in its seat and in the player manager until it comes back or the game is over.
LostPlayersKept == \A r \in gameRooms : Members(World, r) \subseteq Listed

(***************************************************************************)
(* Action properties.                                                      *)
(***************************************************************************)
\* A game keeps its party.  While it runs nobody joins or leaves; when EndGame ends it
\* the connected players stay together; it vanishes only with its last connection.
GameKeepsParty ==
    [][\A r \in gameRooms :
         \/ r \in gameRooms' /\ Members(World, r)' = Members(World, r)
         \/ r \in ListedRooms' /\ Members(World, r)' = {slot[r][i] : i \in NotLost(World, r)}
         \/ r \notin ListedRooms' /\ GetNotLostedPlayerCount(World, r) <= 1]_vars

\* Matching starts games that are full, and moves players between rooms without
\* losing one.
MatchingKeepsPlayers ==
    [][LET Seated == UNION {Members(World, r) : r \in ListedRooms}
       IN  gameRooms' # gameRooms /\ ListedRooms' \subseteq ListedRooms /\ players' = players
           /\ gameRooms \subseteq gameRooms' =>
             /\ \A r \in gameRooms' \ gameRooms : GetPlayerCount(World, r)' = MAX_PLAYER
             /\ Seated' = Seated]_vars

\* A lost player is resumed only by its own client, in the game it was lost from.
ReconnectResumes ==
    [][\A p \in Player :
         /\ info[p].state = "ConnectionLost"
         /\ p \in Listed /\ p \in Listed'
         /\ info'[p].state # "ConnectionLost"
         => /\ info'[p].state = "GAME"
            /\ GetGameRoom(World, p) # NoRoom /\ GetGameRoom(World, p)' = GetGameRoom(World, p)
            /\ client[info'[p].socket] = info[p].steamID]_vars

\* RoomManager.cpp, _MoveRoomProc: who is in a party already is not moved by an invitation.
PartiesNotMoved ==
    [][\A s \in Socket, id \in SteamID :
         /\ InviteFriendAnswer(s, id)
         /\ GetPlayerCount(World, GetRoom(World, Me(s))) > 1
         => UNCHANGED slot]_vars

\* RoomManager.h, MoveRoom: an invitation that cannot be followed makes the move fail,
\* which is answered to both players; it does not take the server down.
InvitationsAnswered ==
    [][\A s \in Socket, id \in SteamID : InviteFriendAnswer(s, id) => pc' = pc]_vars

=============================================================================
