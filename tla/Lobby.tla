-------------------------------- MODULE Lobby --------------------------------
(***************************************************************************)
(* The lobby: the parties on the server (CRoomManager, CRoom and the lobby *)
(* requests of CTCPReceiveProcessor) and what each client shows of its     *)
(* own (ALobbyManager).  Requests and messages are under way in both       *)
(* directions, so a player acts on what its screen shows and the server on *)
(* what it has; a request names a seat, not the player seen in it.         *)
(*                                                                         *)
(* Everybody is connected and identified, one after the other, until it    *)
(* leaves for good; GameServer has what comes of lost connections, Session *)
(* what comes after the start of a game.                                   *)
(***************************************************************************)
EXTENDS Integers, SequencesExt, FiniteSets

CONSTANTS Player,
          Nobody,
          BatchSets,      \* the sets of events that a behaviour may have
          MaxPresses,     \* bound: requests that players make
          MaxLeaves       \* bound: players who quit

\* Batch: requests are handled between a match that is possible and the Update that makes it.
LobbyAssumption == Nobody \notin Player /\ BatchSets \subseteq SUBSET {"Batch"}

MAX_PLAYER == 2

VARIABLES
    may,
    parties,   \* the rooms: their seats and their state
    status,    \* CPlayer::state
    asks,      \* what a client has sent and the server has not handled
    mail,      \* what the server has sent and the client has not handled
    screen,    \* the client: its level, the seats it knows, those shown as ready, the
               \* button of its own, whose invitation it shows
    presses, leaves

vars == <<may, parties, status, asks, mail, screen, presses, leaves>>

Room(seats, state) == [seats |-> seats, state |-> state]
BeginPlay(p) == [level |-> "lobby", seats |-> <<p>>, ready |-> {}, button |-> FALSE, invitation |-> Nobody]

Init ==
    /\ may \in BatchSets
    /\ parties = {Room(<<p>>, "LOBBY") : p \in Player}
    /\ status = [p \in Player |-> "LOBBY"]
    /\ asks = [p \in Player |-> << >>] /\ mail = [p \in Player |-> << >>]
    /\ screen = [p \in Player |-> BeginPlay(p)]
    /\ presses = 0 /\ leaves = 0

World == [parties |-> parties, status |-> status, mail |-> mail]
Become(w) == parties' = w.parties /\ status' = w.status /\ mail' = w.mail
-----------------------------------------------------------------------------
(* CRoomManager and CRoom, with what they send. *)

HasRoom(w, p) == \E r \in w.parties : p \in Range(r.seats)
GetRoom(w, p) == CHOOSE r \in w.parties : p \in Range(r.seats)
Replace(w, old, new) == [w EXCEPT !.parties = (@ \ {old}) \cup {new}]

Send(w, to, msg) ==
    [w EXCEPT !.mail = [p \in Player |-> IF p \in to THEN Append(@[p], msg) ELSE @[p]]]
SendRoomInfoToAllMember(w, r) == Send(w, Range(r.seats), [kind |-> "info", seats |-> r.seats])

\* SetState gives every member the state of the room.
ChangeRoomState(w, r, state) ==
    IF r.state = state THEN w
    ELSE [Replace(w, r, Room(r.seats, state)) EXCEPT
            !.status = [p \in Player |-> IF p \in Range(r.seats) THEN state ELSE @[p]]]

CanMatching(w, r) == \A p \in Range(r.seats) : w.status[p] # "LOBBY"
CheckAndRestateRoom(w, r) ==
    IF r.state = "GAME" THEN w
    ELSE ChangeRoomState(w, r, IF CanMatching(w, r) THEN "READY" ELSE "LOBBY")

Seat(r, p) == CHOOSE i \in DOMAIN r.seats : r.seats[i] = p
Left(r, p) == Room(RemoveAt(r.seats, Seat(r, p)), r.state)

\* Mutant: those who stay are not told.
OutRoom_Silent(w, p) ==
    LET r == GetRoom(w, p)
    IN  IF Len(r.seats) = 1 THEN [w EXCEPT !.parties = @ \ {r}]
        ELSE CheckAndRestateRoom(Replace(w, r, Left(r, p)), Left(r, p))

\* Also what DisconnectRoom and DisconnectPlayer do outside a game.
OutRoom(w, p) ==
    LET r == GetRoom(w, p)
    IN  IF Len(r.seats) = 1 THEN [w EXCEPT !.parties = @ \ {r}]
        ELSE CheckAndRestateRoom(SendRoomInfoToAllMember(Replace(w, r, Left(r, p)), Left(r, p)), Left(r, p))

\* The new room begins in the lobby, the player keeps its state.
KickPlayer(w, p) ==
    LET out == OutRoom(w, p) new == Room(<<p>>, "LOBBY")
    IN  SendRoomInfoToAllMember([out EXCEPT !.parties = @ \cup {new}], new)

\* The new member does not change the state of the room it joins.
MoveRoom(w, inner, outer) ==
    IF Len(GetRoom(w, inner).seats) = MAX_PLAYER
    THEN Send(w, {inner, outer}, [kind |-> "failed"])
    ELSE LET out == OutRoom(w, outer)
             r == GetRoom(out, inner)
             new == Room(Append(r.seats, outer), r.state)
         IN  SendRoomInfoToAllMember(Replace(out, r, new), new)

ChangePartyKing(w, r, i) ==
    LET new == Room([r.seats EXCEPT ![1] = r.seats[i], ![i] = r.seats[1]], r.state)
    IN  SendRoomInfoToAllMember(Replace(w, r, new), new)

ChangeRoomReady(w, p, on) ==
    LET r == GetRoom(w, p)
        answer == [kind |-> "match", on |-> on, seat |-> Seat(r, p)]
    IN  IF r.state = "GAME" THEN w
        ELSE CheckAndRestateRoom(
                 Send([w EXCEPT !.status[p] = IF on THEN "READY" ELSE "LOBBY"], Range(r.seats), answer), r)
-----------------------------------------------------------------------------
(* The server: requests in the order they come, and matches. *)

\* TryMatching, for MAX_PLAYER = 2: a full room (a pair of itself), or two of one player.
Matches ==
    LET waiting == {r \in parties : r.state = "READY"}
    IN  {m \in waiting \X waiting :
            IF m[1] = m[2] THEN Len(m[1].seats) = MAX_PLAYER ELSE Len(m[1].seats) + Len(m[2].seats) = MAX_PLAYER}

Served == "Batch" \in may \/ Matches = {}

Received(p, kind) ==
    /\ Served /\ HasRoom(World, p)
    /\ asks[p] # << >> /\ Head(asks[p]).kind = kind
    /\ asks' = [asks EXCEPT ![p] = Tail(@)]
    /\ UNCHANGED <<may, screen, presses, leaves>>

MatchRequest(p) == Received(p, "ready") /\ Become(ChangeRoomReady(World, p, Head(asks[p]).on))

\* Neither of the two looks at the state of the room.
FriendKickRequest(p) ==
    /\ Received(p, "kick")
    /\ LET seats == GetRoom(World, p).seats i == Head(asks[p]).seat
       IN  IF i \in DOMAIN seats /\ p \in {seats[1], seats[i]}
           THEN Become(KickPlayer(World, seats[i])) ELSE Become(World)

SetPartyKing(p) ==
    /\ Received(p, "king")
    /\ LET r == GetRoom(World, p) i == Head(asks[p]).seat
       IN  IF p = r.seats[1] /\ i \in DOMAIN r.seats \ {1}
           THEN Become(ChangePartyKing(World, r, i)) ELSE Become(World)

InviteFriendRequest(p) ==
    /\ Received(p, "invite")
    /\ Become(Send(World, {Head(asks[p]).whom}, [kind |-> "invite", from |-> p]))

\* Who invited may be anywhere now, but must still have a room (InvitationsAnswered in GameServer).
InviteFriendAnswer(p) ==
    /\ Received(p, "accept") /\ HasRoom(World, Head(asks[p]).whom)
    /\ Become(MoveRoom(World, Head(asks[p]).whom, p))

\* CRoomManager::Update: the seats of the rooms of a match, one room after the other.
Update ==
    \E m \in Matches :
        LET all == Room(IF m[1] = m[2] THEN m[1].seats ELSE m[1].seats \o m[2].seats, "READY")
            w == ChangeRoomState([World EXCEPT !.parties = (@ \ {m[1], m[2]}) \cup {all}], all, "GAME")
        IN  /\ Become(Send(SendRoomInfoToAllMember(w, all), Range(all.seats), [kind |-> "start"]))
            /\ UNCHANGED <<may, asks, screen, presses, leaves>>

\* A player quits, not in a game.
Leave(p) ==
    /\ Served /\ leaves < MaxLeaves /\ leaves' = leaves + 1
    /\ screen[p].level = "lobby" /\ HasRoom(World, p) /\ GetRoom(World, p).state # "GAME"
    /\ asks[p] = << >>
    /\ Become(OutRoom(World, p))
    /\ screen' = [screen EXCEPT ![p].level = "off"]
    /\ UNCHANGED <<may, asks, presses>>
-----------------------------------------------------------------------------
(* The client. *)

Ask(p, request) ==
    /\ screen[p].level = "lobby"
    /\ presses < MaxPresses /\ presses' = presses + 1
    /\ asks' = [asks EXCEPT ![p] = Append(@, request)]
    /\ UNCHANGED <<may, parties, status, mail, leaves>>

OnReady(p) == \E on \in BOOLEAN : Ask(p, [kind |-> "ready", on |-> on]) /\ UNCHANGED screen

InviteFriend(p) ==
    \E q \in Player \ {p} : Ask(p, [kind |-> "invite", whom |-> q]) /\ UNCHANGED screen

\* The widget shows the last invitation that came.
AnswerInviteRequest(p) ==
    /\ screen[p].invitation # Nobody
    /\ Ask(p, [kind |-> "accept", whom |-> screen[p].invitation])
    /\ screen' = [screen EXCEPT ![p].invitation = Nobody]

\* Only of oneself, or as the one shown in the first seat.
Kick(p) ==
    \E i \in DOMAIN screen[p].seats :
        /\ p \in {screen[p].seats[1], screen[p].seats[i]}
        /\ Ask(p, [kind |-> "kick", seat |-> i]) /\ UNCHANGED screen

\* What should stop it only opens a widget.
AskPartyKing(p) ==
    \E i \in DOMAIN screen[p].seats : Ask(p, [kind |-> "king", seat |-> i]) /\ UNCHANGED screen

\* A message is handled; the level that opens does not know the messages of the lobby.
Handle(p, kind) ==
    /\ mail[p] # << >> /\ Head(mail[p]).kind = kind
    /\ mail' = [mail EXCEPT ![p] = Tail(@)]
    /\ UNCHANGED <<may, parties, status, asks, presses, leaves>>

\* Room_Info: each seat is written anew, and nobody is shown as ready.
RoomInfo(p) ==
    /\ screen[p].level \in {"lobby", "game"} /\ Handle(p, "info")
    /\ screen' = [screen EXCEPT ![p].seats = Head(mail[p]).seats, ![p].ready = {}]

\* SetReadyButton.
MatchAnswer(p) ==
    /\ screen[p].level = "lobby" /\ Handle(p, "match")
    /\ LET i == Head(mail[p]).seat on == Head(mail[p]).on
       IN  screen' = [screen EXCEPT
             ![p].button = IF i \in DOMAIN screen[p].seats /\ screen[p].seats[i] = p THEN on ELSE @,
             ![p].ready = IF on THEN @ \cup {i} ELSE @ \ {i}]

OpenRequestInviteWG(p) ==
    /\ screen[p].level = "lobby" /\ Handle(p, "invite")
    /\ screen' = [screen EXCEPT ![p].invitation = Head(mail[p]).from]

InviteFriendFailed(p) == screen[p].level = "lobby" /\ Handle(p, "failed") /\ UNCHANGED screen

\* Nothing more is handled until the level of the game is open.
StartGame(p) ==
    /\ screen[p].level = "lobby" /\ Handle(p, "start")
    /\ screen' = [screen EXCEPT ![p].level = "leaving"]

OnGameStart(p) ==
    /\ screen[p].level = "leaving"
    /\ screen' = [screen EXCEPT ![p].level = "game"]
    /\ UNCHANGED <<may, parties, status, asks, mail, presses, leaves>>

Ignored(p) ==
    /\ screen[p].level = "game"
    /\ \E kind \in {"match", "invite", "failed", "start"} : Handle(p, kind)
    /\ UNCHANGED screen

Next ==
    \/ Update
    \/ \E p \in Player :
         \/ MatchRequest(p) \/ FriendKickRequest(p) \/ SetPartyKing(p)
         \/ InviteFriendRequest(p) \/ InviteFriendAnswer(p) \/ Leave(p)
         \/ OnReady(p) \/ InviteFriend(p) \/ AnswerInviteRequest(p) \/ Kick(p) \/ AskPartyKing(p)
         \/ RoomInfo(p) \/ MatchAnswer(p) \/ OpenRequestInviteWG(p) \/ InviteFriendFailed(p)
         \/ StartGame(p) \/ OnGameStart(p) \/ Ignored(p)

Spec == Init /\ [][Next]_vars
-----------------------------------------------------------------------------
\* A client that has handled everything shows its party as the server has it: who is in it, and
\* who leads it, in the lobby and in the game.  Without Batch its own button is right, too, and
\* nobody is shown as ready who is not.
ScreensAgree ==
    \A p \in Player :
        LET s == screen[p] r == GetRoom(World, p)
        IN  s.level \in {"lobby", "game"} /\ mail[p] = << >> =>
              /\ s.seats = r.seats
              /\ s.level = "lobby" /\ "Batch" \notin may =>
                   /\ s.button = (status[p] = "READY")
                   /\ \A i \in s.ready : status[s.seats[i]] = "READY"
(* Why they do (proved in LobbyProofs). *)
State == {"LOBBY", "READY", "GAME"}
Seats == {<<p>> : p \in Player} \cup {s \in Player \X Player : s[1] # s[2]}
Message ==
    [kind : {"info"}, seats : Seats] \cup [kind : {"match"}, on : BOOLEAN, seat : {1, 2}]
    \cup [kind : {"invite"}, from : Player] \cup [kind : {"failed", "start"}]
Request ==
    [kind : {"ready"}, on : BOOLEAN] \cup [kind : {"kick", "king"}, seat : {1, 2}]
    \cup [kind : {"invite", "accept"}, whom : Player]
Typed ==
    /\ status \in [Player -> State]
    /\ mail \in [Player -> Seq(Message)] /\ asks \in [Player -> Seq(Request)]
    /\ screen \in [Player -> [level : {"lobby", "leaving", "game", "off"}, seats : Seats, ready : SUBSET {1, 2},
                              button : BOOLEAN, invitation : Player \cup {Nobody}]]

\* Who has not left has one seat.
Seated(w) ==
    /\ w.parties \subseteq [seats : Seats, state : State]
    /\ \A r, q \in w.parties : Range(r.seats) \cap Range(q.seats) # {} => r = q
    /\ \A p \in Player : HasRoom(w, p) <=> screen[p].level # "off"

\* Nobody invites itself.
Others ==
    \A p \in Player : screen[p].level # "off" =>
        /\ screen[p].invitation # p
        /\ \A i \in DOMAIN mail[p] : mail[p][i].kind = "invite" => mail[p][i].from # p
        /\ \A i \in DOMAIN asks[p] : asks[p][i].kind \in {"invite", "accept"} => asks[p][i].whom # p

\* The seats that a client will know when it has handled its mail.
Ends(q, first, seats) ==
    \/ first = seats /\ \A i \in DOMAIN q : q[i].kind # "info"
    \/ \E n \in DOMAIN q :
         q[n].kind = "info" /\ q[n].seats = seats /\ \A i \in n + 1 .. Len(q) : q[i].kind # "info"
Told(w) == \A p \in Player : HasRoom(w, p) => Ends(w.mail[p], screen[p].seats, GetRoom(w, p).seats)

\* What it will show in the lobby by then: a button, seats and who in them is ready.
View == [seats : Seats, ready : SUBSET {1, 2}, button : BOOLEAN]
Shown(p) == [seats |-> screen[p].seats, ready |-> screen[p].ready, button |-> screen[p].button]
Handled(p, v, msg) ==
    CASE msg.kind = "info" -> [v EXCEPT !.seats = msg.seats, !.ready = {}]
      [] msg.kind = "match" ->
           [v EXCEPT !.button = IF msg.seat \in DOMAIN v.seats /\ v.seats[msg.seat] = p THEN msg.on ELSE v.button,
                     !.ready = IF msg.on THEN v.ready \cup {msg.seat} ELSE v.ready \ {msg.seat}]
      [] OTHER -> v
Leads(p, first, q, end) ==
    \E run \in [0 .. Len(q) -> View] :
        /\ run[0] = first /\ run[Len(q)] = end
        /\ \A i \in 1 .. Len(q) : run[i] = Handled(p, run[i - 1], q[i])
Fits(w, p, v) ==
    /\ v.seats = GetRoom(w, p).seats
    /\ v.button = (w.status[p] = "READY")
    /\ \A i \in v.ready : i \in DOMAIN v.seats /\ w.status[v.seats[i]] = "READY"

\* It is right until the game starts, and whoever waits alone for a game is ready.
Started(w, p) ==
    screen[p].level \in {"leaving", "game"} \/ \E i \in DOMAIN w.mail[p] : w.mail[p][i].kind = "start"
Right(w) ==
    /\ \A p \in Player : HasRoom(w, p) /\ ~Started(w, p) =>
           w.status[p] # "GAME" /\ \E v \in View : Leads(p, Shown(p), w.mail[p], v) /\ Fits(w, p, v)
    /\ \A r \in w.parties : r.state = "READY" /\ Len(r.seats) = 1 => w.status[r.seats[1]] = "READY"

LobbyInv == Typed /\ Others /\ Seated(World) /\ Told(World) /\ ("Batch" \notin may => Right(World))
=============================================================================
