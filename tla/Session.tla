------------------------------- MODULE Session -------------------------------
(***************************************************************************)
(* Two clients and their room, from the lobby through a game and back:     *)
(* what each client believes of its seat, in which level it is, and        *)
(* whether its game is paused, while connections are lost and clients      *)
(* crash and come back.                                                    *)
(*                                                                         *)
(* The first member of a room is its master, and the machine whose         *)
(* _currentSlot is 0 takes itself for it.  What a client receives in one   *)
(* tick counts as one buffer.                                              *)
(***************************************************************************)
EXTENDS Integers, SequencesExt, FiniteSets

CONSTANTS Client,
          EventSets,      \* the sets of events that a behaviour may have
          MaxLosses,      \* bound: connections lost
          MaxGames        \* bound: games started

\* Drop: a client loses its connection.  Crash: its process ends and is started again.
\* Both: the other one, too, before the first is back.  Early: before both have loaded the game.
\* EndGame: the game ends.
Event == {"Drop", "Crash", "Both", "Early", "EndGame"}
SessionAssumption == EventSets \subseteq SUBSET Event

VARIABLES
    may,
    rooms,     \* the members of each room, in their seats, and whether it plays
    lost,      \* players in state ConnectionLost
    held,      \* the connection the server knows of a client: current, old or none
    request,   \* what a client sends first on a new connection
    inbox,     \* what the server has sent to a client
    pc,        \* each client's process
    losses, games

vars == <<may, rooms, lost, held, request, inbox, pc, losses, games>>

Fresh == [level |-> "lobby", net |-> "START", again |-> FALSE, on |-> FALSE, slot |-> 0,
          ids |-> << >>, paused |-> FALSE, mode |-> FALSE, resync |-> FALSE]
No == [kind |-> "none"]

Init ==
    /\ may \in EventSets
    /\ rooms = {} /\ lost = {}
    /\ held = [c \in Client |-> "none"] /\ request = [c \in Client |-> No]
    /\ inbox = [c \in Client |-> << >>] /\ pc = [c \in Client |-> Fresh]
    /\ losses = 0 /\ games = 0
-----------------------------------------------------------------------------
(* The server. *)

Room(seats, plays) == [seats |-> seats, plays |-> plays]
RoomsOf(c) == {r \in rooms : c \in Range(r.seats)}
Seat(r, c) == CHOOSE i \in DOMAIN r.seats : r.seats[i] = c

Info(r) == [kind |-> "info", seats |-> r.seats]
Tell(kind) == [kind |-> kind]

\* Only a player with a connection is sent something; msgs[c] is for c.
Post(to, msgs) ==
    inbox' = [c \in Client |-> inbox[c] \o IF c \in to THEN msgs[c] ELSE << >>]
Linked(members) == {c \in members : held'[c] = "current"}
SendToAllMember(r, msgs) == Post(Linked(Range(r.seats)), [c \in Client |-> msgs])
SendRoomInfoToAllMember(r) == SendToAllMember(r, <<Info(r)>>)

\* The others are told that c is gone.
SendDisconnectToAllMember(r, c) == [d \in Client |-> IF d = c THEN << >> ELSE <<Tell("gone")>>]

\* The others are told that c is back, and c who is in the room.
SendReconnectToAllMember(r, c) ==
    Post(Linked(Range(r.seats)),
         [d \in Client |-> IF d = c THEN <<[Info(r) EXCEPT !.kind = "reconnect"]>> ELSE <<Tell("back")>>])

\* Update: two players who are ready, of one room or of two.
GameStart ==
    /\ games < MaxGames /\ games' = games + 1
    /\ \A c \in Client : RoomsOf(c) # {} /\ held[c] # "none" /\ pc[c].level = "lobby"
    /\ \A r \in rooms : ~r.plays
    /\ \E seats \in IF Cardinality(rooms) = 1 THEN {r.seats : r \in rooms}
                    ELSE {s.seats \o t.seats : s \in rooms, t \in rooms} :
         /\ IsInjective(seats) /\ Len(seats) = 2
         /\ rooms' = {Room(seats, TRUE)}
         /\ held' = held
         /\ SendToAllMember(Room(seats, TRUE), <<Info(Room(seats, TRUE)), Tell("start")>>)
    /\ UNCHANGED <<may, lost, request, pc, losses>>

\* In a game the master gives the seat to the other one; the rest is told.
\* Mutant: that somebody is gone is told first.
Disconnected_InfoLast(r, c) ==
    Post(Linked(Range(r.seats)), [d \in Client |-> SendDisconnectToAllMember(r, c)[d] \o <<Info(r)>>])
Disconnected(r, c) ==
    Post(Linked(Range(r.seats)), [d \in Client |-> <<Info(r)>> \o SendDisconnectToAllMember(r, c)[d]])

\* DisconnectRoom and DisconnectPlayer: the end of a connection is noticed.
DisconnectPlayer(c) ==
    /\ held[c] = "old" /\ held' = [held EXCEPT ![c] = "none"]
    /\ \E r \in RoomsOf(c) :
         LET rest == SelectSeq(r.seats, LAMBDA d : d # c)
             new == Room(IF r.plays THEN Append(rest, c) ELSE rest, r.plays)
         IN  IF Range(r.seats) \subseteq lost \cup {c}
             THEN /\ rooms' = rooms \ {r} /\ lost' = lost \ Range(r.seats)
                  /\ UNCHANGED inbox
             ELSE /\ rooms' = (rooms \ {r}) \cup {new}
                  /\ lost' = IF r.plays THEN lost \cup {c} ELSE lost
                  /\ IF r.plays THEN Disconnected(new, c) ELSE SendRoomInfoToAllMember(new)
    /\ UNCHANGED <<may, request, pc, losses, games>>

Requested(c, kind) ==
    /\ request[c].kind = kind /\ request' = [request EXCEPT ![c] = No]
    /\ held' = [held EXCEPT ![c] = "current"]
    /\ lost' = lost \ {c}
    /\ UNCHANGED <<may, pc, losses, games>>

\* Common_AnswerId: a known player is absorbed; in a game both are told that it is back.
AnswerId(c) ==
    /\ Requested(c, "answer")
    /\ IF RoomsOf(c) = {}
       THEN /\ rooms' = rooms \cup {Room(<<c>>, FALSE)}
            /\ SendRoomInfoToAllMember(Room(<<c>>, FALSE))
       ELSE /\ \E r \in RoomsOf(c) :
                 IF r.plays THEN SendReconnectToAllMember(r, c) ELSE SendRoomInfoToAllMember(r)
            /\ UNCHANGED rooms

\* InGame_ReconnectServer: the client brings what it knows of its room; who is not in a game
\* looks for the others, or makes a room.  When it is complete, its master is the client's.
ReconnectServer(c) ==
    /\ Requested(c, "reconnect")
    /\ LET ids == request[c].ids
           Without(r) == Room(SelectSeq(r.seats, LAMBDA d : d # c), r.plays)
           mine == RoomsOf(c)
           playing == {r \in mine : r.plays}
           others == {r \in rooms : Range(r.seats) \cap (Range(ids) \ {c}) # {}}
           found == IF playing # {} THEN playing
                    ELSE IF others # {} THEN {[Without(r) EXCEPT !.seats = Append(@, c)] : r \in others}
                    ELSE {Room(<<c>>, request[c].plays)}
           kept == IF playing # {} THEN rooms \ playing
                   ELSE {Without(r) : r \in rooms \ others} \ {Room(<< >>, FALSE)}
       IN  \E r \in found :
             LET master == {i \in DOMAIN r.seats : ids # << >> /\ r.seats[i] = ids[1]}
                 whole == Len(r.seats) = Len(ids)
                 new == IF whole /\ master \ {1} # {} THEN [r EXCEPT !.seats = Reverse(@)] ELSE r
             IN  /\ rooms' = {new} \cup kept
                 /\ Post(Linked(Client), [d \in Client |->
                        SetToSeq({Info(Without(q)) : q \in {p \in mine \ playing : d # c /\ d \in Range(p.seats)}})
                        \o IF whole /\ d \in Range(new.seats) THEN <<Info(new)>> ELSE << >>])

\* InGame_EndGame: who is away is removed, the others are told.
EndGame(c) ==
    /\ "EndGame" \in may
    /\ pc[c].level = "game" /\ ~pc[c].paused /\ held[c] = "current" /\ pc[c].net = "SUCCESS"
    /\ \E r \in RoomsOf(c) :
         LET new == Room(SelectSeq(r.seats, LAMBDA d : d \notin lost), FALSE)
         IN  /\ r.plays
             /\ rooms' = (rooms \ {r}) \cup {new}
             /\ lost' = lost \ Range(r.seats)
             /\ held' = held
             /\ SendToAllMember(new, <<Tell("end"), Info(new)>>)
    /\ UNCHANGED <<may, request, pc, losses, games>>
-----------------------------------------------------------------------------
(* A client. *)

\* GetServerState: the game stands still until the client is connected.
GetServerState(p) ==
    IF p.net = "START" THEN [p EXCEPT !.paused = TRUE, !.on = FALSE]
    ELSE IF p.on THEN p ELSE [p EXCEPT !.paused = FALSE, !.on = TRUE]

Room_RoomInfo(c, p, msg) ==
    [p EXCEPT !.ids = msg.seats, !.slot = IF c \in Range(msg.seats) THEN Seat(msg, c) - 1 ELSE @]

\* Mutant: only the game is synchronized again.
Reconnect_KeepsSlot(c, p, msg) == [p EXCEPT !.resync = TRUE]

Reconnect(c, p, msg) ==
    [p EXCEPT !.resync = TRUE, !.slot = IF c \in Range(msg.seats) THEN Seat(msg, c) - 1 ELSE @]

\* RecvProc of the base class, for a whole buffer before the level handles any of it.
Common(c, p, msg) ==
    CASE msg.kind = "info" -> Room_RoomInfo(c, p, msg)
      [] msg.kind = "reconnect" -> Reconnect(c, p, msg)
      [] OTHER -> p

\* Nothing more is received until the game is loaded.
StartGame(p) == [p EXCEPT !.level = "loading"]

\* A player who comes back while its game goes on.
LobbyReconnect(p, msg) == [StartGame([p EXCEPT !.ids = msg.seats]) EXCEPT !.mode = TRUE]

\* RecvProc in the lobby: after the start of a game the rest of the buffer is not handled.
Lobby(p, msg) ==
    CASE p.level = "lobby" /\ msg.kind = "start" -> StartGame(p)
      [] p.level = "lobby" /\ msg.kind = "reconnect" -> LobbyReconnect(p, msg)
      [] OTHER -> p

\* The game stands still while the other one is away ...
_Disconnect(p) == [p EXCEPT !.paused = TRUE]

\* ... and goes on when the room is complete, ...
_Reconnected(p) == [p EXCEPT !.paused = @ /\ Len(p.ids) < 2]

\* ... or whenever the room is told.
Room_Info(p) == [p EXCEPT !.paused = FALSE]

\* Every object asks the other client for its state.
_ReconnectProcess(p) == [p EXCEPT !.resync = FALSE, !.mode = FALSE]

InGameReconnect(p, msg) == _ReconnectProcess([p EXCEPT !.ids = msg.seats])

\* The screen fades before the lobby is opened.
FadeOut(p) == [p EXCEPT !.level = "ending"]

\* RecvProc in the game.
InGame(p, msg) ==
    CASE msg.kind = "gone" -> _Disconnect(p)
      [] msg.kind = "back" -> _Reconnected(p)
      [] msg.kind = "info" -> Room_Info(p)
      [] msg.kind = "reconnect" -> InGameReconnect(p, msg)
      [] msg.kind = "end" -> FadeOut(p)
      [] OTHER -> p

\* What follows the end of the game in the buffer is not handled.
Handled(msgs) ==
    LET ends == {i \in DOMAIN msgs : msgs[i].kind = "end"}
    IN  IF ends = {} THEN msgs ELSE SubSeq(msgs, 1, CHOOSE i \in ends : \A j \in ends : i <= j)

Tick(c) ==
    LET start == GetServerState(pc[c])
        common == FoldLeft(LAMBDA p, msg : Common(c, p, msg), start, inbox[c])
        level == IF start.level = "lobby" THEN FoldLeft(Lobby, common, inbox[c])
                 ELSE FoldLeft(InGame, common, Handled(inbox[c]))
    IN  /\ IF start.level = "loading"          \* DisableRecv
           THEN pc' = [pc EXCEPT ![c] = start] /\ UNCHANGED inbox
           ELSE pc' = [pc EXCEPT ![c] = level] /\ inbox' = [inbox EXCEPT ![c] = << >>]
        /\ UNCHANGED <<may, rooms, lost, held, request, losses, games>>

\* A new level, in which time runs.
Opened(p, level) == [p EXCEPT !.level = level, !.paused = FALSE, !.on = FALSE]

\* BeginPlay in the game: one that goes on is synchronized.
BeginPlay(p) == IF p.mode THEN _ReconnectProcess(p) ELSE p

OnGameStart(c) ==
    /\ pc[c].level = "loading"
    /\ pc' = [pc EXCEPT ![c] = BeginPlay(Opened(@, "game"))]
    /\ UNCHANGED <<may, rooms, lost, held, request, inbox, losses, games>>

OnEndGame(c) ==
    /\ pc[c].level = "ending"
    /\ pc' = [pc EXCEPT ![c] = Opened(@, "lobby")]
    /\ UNCHANGED <<may, rooms, lost, held, request, inbox, losses, games>>

\* A client that was connected before sends what it knows of its room.
Connect(c) ==
    /\ pc[c].net = "START" /\ pc' = [pc EXCEPT ![c].net = "SUCCESS", ![c].again = TRUE]
    /\ request' = [request EXCEPT ![c] =
           IF pc[c].again THEN [kind |-> "reconnect", ids |-> pc[c].ids, plays |-> pc[c].level # "lobby"]
           ELSE Tell("answer")]
    /\ UNCHANGED <<may, rooms, lost, held, inbox, losses, games>>

\* The connection ends anywhere in what the server has sent; a process that goes on keeps
\* what it has received.
Lose(c) ==
    /\ losses < MaxLosses /\ losses' = losses + 1
    /\ pc[c].net = "SUCCESS" /\ request[c] = No /\ held[c] = "current"
    /\ \/ "Both" \in may
       \/ \A d \in Client \ {c} : held[d] = "current" /\ pc[d].net = "SUCCESS"
    /\ "Early" \in may \/ \A d \in Client : pc[d].level = "game"
    /\ held' = [held EXCEPT ![c] = "old"]
    /\ \/ /\ "Drop" \in may
          /\ pc' = [pc EXCEPT ![c].net = "START"]
          /\ \E n \in 0 .. Len(inbox[c]) : inbox' = [inbox EXCEPT ![c] = SubSeq(@, 1, n)]
       \/ /\ "Crash" \in may
          /\ pc' = [pc EXCEPT ![c] = Fresh] /\ inbox' = [inbox EXCEPT ![c] = << >>]
    /\ UNCHANGED <<may, rooms, lost, request, games>>

Next ==
    \/ GameStart
    \/ \E c \in Client :
         \/ DisconnectPlayer(c) \/ AnswerId(c) \/ ReconnectServer(c) \/ EndGame(c)
         \/ Tick(c) \/ OnGameStart(c) \/ OnEndGame(c) \/ Connect(c) \/ Lose(c)

Spec == Init /\ [][Next]_vars
-----------------------------------------------------------------------------
\* Nothing is under way, and both clients have seen it.
Settled == \A c \in Client : /\ inbox[c] = << >> /\ request[c] = No /\ held[c] # "old"
                             /\ pc[c].net = "SUCCESS" => pc[c].on

\* When nothing is under way and both members of a room are connected, each believes to be in the
\* seat that it has: exactly one of them takes itself for the master (unless a connection was lost
\* before the game was loaded).  And who came back to a game has asked for its state, however the
\* loss, the loading of the level and the messages fell together.
SlotsAgree ==
    Settled => \A r \in rooms :
        Len(r.seats) = 2 /\ (\A c \in Client : held[c] = "current")
            => \A c \in Range(r.seats) :
                 /\ "Early" \notin may => pc[c].slot = Seat(r, c) - 1
                 /\ pc[c].level = "game" => ~pc[c].resync

\* Then, unless a connection was lost while another one was or before the game was loaded, the
\* game of a connected client stands still exactly as long as the other one is away.
PausedExactly ==
    Settled /\ may \cap {"Both", "Early"} = {} => \A c \in Client, r \in rooms :
        held[c] = "current" /\ c \in Range(r.seats) /\ r.plays /\ pc[c].level = "game"
            => pc[c].paused = (Range(r.seats) \cap lost # {})
=============================================================================
