-------------------------- MODULE GameServerProofs --------------------------
(***************************************************************************)
(* The types of GameServer and the agreement of the lists of rooms are     *)
(* preserved by every step, for any constants: any numbers of players,     *)
(* rooms, sockets and clients, any subset of the requests and timeouts,    *)
(* with and without the reuse of a socket that a player still holds.       *)
(* One lemma per operator of Managers says what it preserves (Good) and    *)
(* what it returns; one per action of GameServer composes them.  Then: a   *)
(* room that waits for a match is never empty; players, sockets and seats  *)
(* fit together; and last, the life of a game.                             *)
(***************************************************************************)
EXTENDS GameServer, TLAPS, SequenceTheorems, FiniteSetTheorems, WellFoundedInduction

RoomState == {"LOBBY", "READY", "GAME"}
SockState == {"free", "open", "closing"}

\* The type of a world: the types TypeOK gives the variables it is made of.
WorldType == [players    : Seq(Player),
              pool       : SUBSET Player,
              info       : [Player -> CPlayer],
              rooms      : Seq(Room),
              slot       : [Room -> Seats],
              state      : [Room -> RoomState],
              matchRooms : SUBSET Room,
              gameRooms  : SUBSET Room,
              sock       : [Socket -> SockState],
              inbox      : Seq(Socket \cup {NoSocket})]

Distinct(seq) == \A i, j \in DOMAIN seq : seq[i] = seq[j] => i = j
InState(w, st) == {r \in Elems(w.rooms) : w.state[r] = st}

\* No room is listed twice, and the lists agree with the states of the rooms.
ListsAgree(w) ==
    /\ Distinct(w.rooms)
    /\ w.matchRooms = InState(w, "READY")
    /\ w.gameRooms = InState(w, "GAME")

Good(w) == w \in WorldType /\ ListsAgree(w)

\* What the lists are about is the same in v and w.
SameRooms(v, w) ==
    /\ v.rooms = w.rooms
    /\ v.state = w.state
    /\ v.matchRooms = w.matchRooms
    /\ v.gameRooms = w.gameRooms

\* A change that does not touch the rooms keeps the lists in agreement.
LEMMA SameRoomsGood ==
    ASSUME NEW w, NEW v, ListsAgree(w), v \in WorldType, SameRooms(v, w)
    PROVE  Good(v)
  BY DEF Good, SameRooms, ListsAgree, InState

(***************************************************************************)
(* Sequences.                                                              *)
(***************************************************************************)
LEMMA FirstInElems ==
    ASSUME NEW seq, NEW S, NEW none
    PROVE  \/ FirstIn(seq, S, none) = none
           \/ FirstIn(seq, S, none) \in Elems(seq) /\ FirstIn(seq, S, none) \in S
<1> DEFINE I == {i \in DOMAIN seq : seq[i] \in S /\ \A j \in 1 .. (i - 1) : seq[j] \notin S}
<1>1. CASE I = {}
  BY <1>1 DEF FirstIn
<1>2. CASE I # {}
  <2> DEFINE k == CHOOSE i \in I : TRUE
  <2>1. k \in I
    BY <1>2
  <2>2. FirstIn(seq, S, none) = seq[k]
    BY <1>2 DEF FirstIn
  <2> QED BY <2>1, <2>2 DEF Elems
<1> QED BY <1>1, <1>2

\* A list of the right type has elements of the right type.
LEMMA ElemsTyped ==
    ASSUME NEW T, NEW seq \in Seq(T)
    PROVE  Elems(seq) \subseteq T
  BY DEF Elems

\* What push_back does to a list.
LEMMA AppendElems ==
    ASSUME NEW T, NEW seq \in Seq(T), NEW x \in T
    PROVE  /\ Append(seq, x) \in Seq(T)
           /\ Elems(Append(seq, x)) = Elems(seq) \cup {x}
           /\ Distinct(seq) /\ x \notin Elems(seq) => Distinct(Append(seq, x))
  BY AppendProperties, LenProperties DEF Elems, Distinct

\* What erase does to a list without repetitions.
LEMMA EraseElems ==
    ASSUME NEW T, NEW seq \in Seq(T), NEW x
    PROVE  /\ Erase(seq, x) \in Seq(T)
           /\ Elems(Erase(seq, x)) \subseteq Elems(seq)
           /\ Distinct(seq) => /\ Distinct(Erase(seq, x))
                               /\ Elems(Erase(seq, x)) = Elems(seq) \ {x}
<1> DEFINE I == {i \in DOMAIN seq : seq[i] = x /\ \A j \in 1 .. (i - 1) : seq[j] # x}
           n == Len(seq)
<1>1. n \in Nat /\ DOMAIN seq = 1 .. n /\ \A i \in 1 .. n : seq[i] \in T
  BY LenProperties, ElementOfSeq
<1>2. CASE I = {}
  <2>1. Erase(seq, x) = seq
    BY <1>2 DEF Erase
  <2>2. Distinct(seq) => x \notin Elems(seq)
    <3> SUFFICES ASSUME Distinct(seq), NEW i \in 1 .. n, seq[i] = x PROVE FALSE
      BY <1>1 DEF Elems
    <3>1. \A j \in 1 .. (i - 1) : seq[j] # x
      BY <1>1 DEF Distinct
    <3> QED BY <1>1, <1>2, <3>1
  <2> QED BY <2>1, <2>2
<1>3. CASE I # {}
  <2> DEFINE k == CHOOSE i \in I : TRUE
             e == [i \in 1 .. (n - 1) |-> IF i < k THEN seq[i] ELSE seq[i + 1]]
  <2>1. k \in 1 .. n /\ seq[k] = x
    BY <1>1, <1>3
  <2>2. Erase(seq, x) = e
    BY <1>3 DEF Erase
  <2> HIDE DEF k, I
  <2>3. n - 1 \in Nat /\ \A i \in 1 .. (n - 1) : e[i] \in T
    BY <1>1, <2>1
  <2>4. e \in Seq(T)
    BY <2>3, IsASeq
  <2>5. Elems(e) \subseteq Elems(seq)
    BY <1>1, <2>1 DEF Elems
  <2>6. ASSUME Distinct(seq) PROVE Distinct(e)
    BY <1>1, <2>1, <2>6 DEF Distinct
  <2>7. ASSUME Distinct(seq) PROVE Elems(e) = Elems(seq) \ {x}
    <3>1. x \notin Elems(e)
      BY <1>1, <2>1, <2>7 DEF Distinct, Elems
    <3>2. ASSUME NEW y \in Elems(seq), y # x PROVE y \in Elems(e)
      <4>1. PICK i \in 1 .. n : seq[i] = y
        BY <1>1 DEF Elems
      <4>2. CASE i < k
        <5>1. i \in 1 .. (n - 1) /\ e[i] = y
          BY <1>1, <2>1, <4>1, <4>2
        <5> QED BY <5>1 DEF Elems
      <4>3. CASE i > k
        <5>1. i - 1 \in 1 .. (n - 1) /\ e[i - 1] = y
          BY <1>1, <2>1, <4>1, <4>3
        <5> QED BY <5>1 DEF Elems
      <4> QED BY <2>1, <3>2, <4>1, <4>2, <4>3
    <3> QED BY <2>5, <3>1, <3>2
  <2> QED BY <2>2, <2>4, <2>5, <2>6, <2>7
<1> QED BY <1>2, <1>3

(***************************************************************************)
(* Each operation of the managers keeps a good world good.                 *)
(***************************************************************************)
LEMMA CloseGood ==
    ASSUME NEW w, Good(w), NEW s \in Socket \cup {NoSocket}
    PROVE  Good(Close(w, s)) /\ SameRooms(Close(w, s), w)
<1>1. w \in WorldType /\ ListsAgree(w)
  BY DEF Good
<1>2. Append(w.inbox, s) \in Seq(Socket \cup {NoSocket})
  BY <1>1 DEF WorldType
<1>3. Close(w, s) \in WorldType
  BY <1>1, <1>2 DEF Close, WorldType, SockState
<1>4. SameRooms(Close(w, s), w)
  BY <1>1 DEF Close, WorldType, SameRooms
<1> QED BY <1>1, <1>3, <1>4, SameRoomsGood

\* RemovePlayer leaves the rooms alone.
LEMMA RemovePlayerGood ==
    ASSUME NEW w, Good(w), NEW p
    PROVE  Good(RemovePlayer(w, p)) /\ SameRooms(RemovePlayer(w, p), w)
<1>1. w \in WorldType /\ ListsAgree(w)
  BY DEF Good
<1>2. CASE p \notin Elems(w.players)
  BY <1>2 DEF RemovePlayer, SameRooms
<1>3. CASE p \in Elems(w.players)
  <2>1. p \in Player /\ Erase(w.players, p) \in Seq(Player)
    BY <1>1, <1>3, ElemsTyped, EraseElems DEF WorldType
  <2>2. Blank \in CPlayer
    BY SMTT(60) DEF Blank, CPlayer, EGameState
  <2>3. RemovePlayer(w, p) \in WorldType
    BY <1>1, <1>3, <2>1, <2>2 DEF RemovePlayer, WorldType
  <2>4. SameRooms(RemovePlayer(w, p), w)
    BY <1>1, <1>3 DEF RemovePlayer, WorldType, SameRooms
  <2> QED BY <1>1, <2>3, <2>4, SameRoomsGood
<1> QED BY <1>2, <1>3

\* So does writing the seats of one room,
LEMMA SlotGood ==
    ASSUME NEW w, Good(w), NEW r \in Room, NEW seats \in Seats
    PROVE  /\ Good([w EXCEPT !.slot[r] = seats])
           /\ SameRooms([w EXCEPT !.slot[r] = seats], w)
  BY SameRoomsGood DEF Good, WorldType, SameRooms

\* and writing the fields of players.
LEMMA InfoGood ==
    ASSUME NEW w, Good(w), NEW in \in [Player -> CPlayer]
    PROVE  /\ Good([w EXCEPT !.info = in])
           /\ SameRooms([w EXCEPT !.info = in], w)
  BY SameRoomsGood DEF Good, WorldType, SameRooms

\* A player that is given the connection of another one.
LEMMA InfoMoved ==
    ASSUME NEW f \in [Player -> CPlayer], NEW p \in Player, NEW q \in Player, NEW st \in EGameState
    PROVE  [f EXCEPT ![q].state = st, ![q].socket = f[p].socket, ![p].socket = NoSocket] \in [Player -> CPlayer]
<1> DEFINE in1 == [f EXCEPT ![q].state = st]
           in2 == [in1 EXCEPT ![q].socket = f[p].socket]
           in3 == [in2 EXCEPT ![p].socket = NoSocket]
<1>1. in1 \in [Player -> CPlayer]
  BY DEF CPlayer
<1>2. f[p].socket \in Socket \cup {NoSocket}
  BY DEF CPlayer
<1> HIDE DEF in1
<1>3. in2 \in [Player -> CPlayer]
  BY <1>1, <1>2 DEF CPlayer
<1> HIDE DEF in2
<1>4. in3 \in [Player -> CPlayer]
  BY <1>3 DEF CPlayer
<1>5. in3 = [f EXCEPT ![q].state = st, ![q].socket = f[p].socket, ![p].socket = NoSocket]
  BY DEF in1, in2
<1> HIDE DEF in3
<1> QED BY <1>4, <1>5

Moved(w, p, q, st, s) ==
    [w EXCEPT !.info[q].state = st, !.info[q].socket = s, !.info[p].socket = NoSocket]
MovedInfo(f, p, q, st, s) ==
    [f EXCEPT ![q].state = st, ![q].socket = s, ![p].socket = NoSocket]

LEMMA InfoWritten ==
    ASSUME NEW w \in WorldType, NEW p, NEW q, NEW st, NEW s
    PROVE  Moved(w, p, q, st, s) = [w EXCEPT !.info = MovedInfo(w.info, p, q, st, s)]
<1> DEFINE in1 == [w.info EXCEPT ![q].state = st]
           in2 == [in1 EXCEPT ![q].socket = s]
           in3 == [in2 EXCEPT ![p].socket = NoSocket]
           w1 == [w EXCEPT !.info[q].state = st]
           w2 == [w1 EXCEPT !.info[q].socket = s]
           w3 == [w2 EXCEPT !.info[p].socket = NoSocket]
<1>1. \A x : \A f, g : x = [w EXCEPT !.info = f] => x.info = f /\ [x EXCEPT !.info = g] = [w EXCEPT !.info = g]
  BY DEF WorldType
<1>2. w1 = [w EXCEPT !.info = in1]
  OBVIOUS
<1>3. w2 = [w1 EXCEPT !.info = [w1.info EXCEPT ![q].socket = s]]
  OBVIOUS
<1>4. w3 = [w2 EXCEPT !.info = [w2.info EXCEPT ![p].socket = NoSocket]]
  OBVIOUS
<1> HIDE DEF w1, w2, w3
<1>5. w1.info = in1
  BY <1>1, <1>2
<1> HIDE DEF in1
<1>6. w2 = [w EXCEPT !.info = in2]
  <2>1. w2 = [w1 EXCEPT !.info = in2]
    BY <1>3, <1>5
  <2> HIDE DEF in2
  <2> QED BY <1>1, <1>2, <2>1
<1> HIDE DEF in2
<1>7. w3 = [w EXCEPT !.info = in3]
  <2>1. w2.info = in2
    BY <1>1, <1>6
  <2>2. w3 = [w2 EXCEPT !.info = in3]
    BY <1>4, <2>1
  <2> HIDE DEF in3
  <2> QED BY <1>1, <1>6, <2>2
<1> HIDE DEF in3
<1> QED BY <1>7 DEF w1, w2, w3, in1, in2, in3, Moved, MovedInfo

\* A seat holds a player or nobody, and what is written to it is one of these.
LEMMA SeatsTyped ==
    ASSUME NEW seats \in Seats
    PROVE  /\ \A p : Without(seats, p) \in Seats
           /\ Swapped(seats) \in Seats
           /\ \A i \in Slots : seats[i] \in Player \cup {NoPlayer}
           /\ \A i \in Slots, p \in Player \cup {NoPlayer} : [seats EXCEPT ![i] = p] \in Seats
           /\ NoSeats \in Seats
  BY DEF Slots, MAX_PLAYER, Pulled, Seats, Without, Swapped, NoSeats

\* GetRoom and its variants find listed rooms.
LEMMA GetRoomListed ==
    ASSUME NEW w, Good(w), NEW p
    PROVE  /\ GetRoom(w, p) \in Elems(w.rooms) \cup {NoRoom}
           /\ GetConnectedRoom(w, p) \in Elems(w.rooms) \cup {NoRoom}
           /\ GetGameRoom(w, p) \in Elems(w.rooms) \cup {NoRoom}
           /\ GetGameRoom(w, p) \in w.gameRooms \cup {NoRoom}
           /\ Elems(w.rooms) \subseteq Room
           /\ NoRoom \notin Elems(w.rooms)
  BY FirstInElems, ElemsTyped, NullAssumption DEF GetRoom, Good, WorldType, GetConnectedRoom, GetGameRoom

\* The lookups of CPlayerManager find a listed player or nobody.
LEMMA GetPlayerListed ==
    ASSUME NEW w, Good(w), NEW x
    PROVE  /\ GetPlayerById(w, x) \in Elems(w.players) \cup {NoPlayer}
           /\ GetPlayerBySocket(w, x) \in Elems(w.players) \cup {NoPlayer}
           /\ Elems(w.players) \subseteq Player
           /\ NoPlayer \notin Elems(w.players)
  BY FirstInElems, ElemsTyped, NullAssumption DEF GetPlayerById, GetPlayerBySocket, Good, WorldType

(***************************************************************************)
(* The three operations that maintain the lists.                           *)
(***************************************************************************)
LEMMA DeleteRoomGood ==
    ASSUME NEW w, Good(w), NEW r \in Room
    PROVE  /\ Good(DeleteRoom(w, r))
           /\ Elems(DeleteRoom(w, r).rooms) = Elems(w.rooms) \ {r}
<1> DEFINE v == DeleteRoom(w, r)
<1>1. w \in WorldType /\ ListsAgree(w) /\ w.rooms \in Seq(Room)
  BY DEF Good, WorldType
<1>2. /\ Erase(w.rooms, r) \in Seq(Room)
      /\ Distinct(Erase(w.rooms, r))
      /\ Elems(Erase(w.rooms, r)) = Elems(w.rooms) \ {r}
  BY <1>1, EraseElems DEF ListsAgree
<1>3. v \in WorldType
  BY <1>1, <1>2 DEF DeleteRoom, WorldType, RoomState, NoSeats, Seats
<1>4. /\ v.rooms = Erase(w.rooms, r)
      /\ v.matchRooms = w.matchRooms \ {r}
      /\ v.gameRooms = w.gameRooms \ {r}
      /\ v.state = [w.state EXCEPT ![r] = "LOBBY"]
  BY <1>1 DEF DeleteRoom, WorldType
<1>5. \A q \in Elems(v.rooms) : v.state[q] = w.state[q]
  BY <1>1, <1>2, <1>4, ElemsTyped DEF WorldType
<1>6. ListsAgree(v)
  BY <1>1, <1>2, <1>4, <1>5 DEF ListsAgree, InState
<1> QED BY <1>2, <1>3, <1>4, <1>6 DEF Good

\* CreateRoom lists one more room, in the lobby.
LEMMA CreateRoomGood ==
    ASSUME NEW w, Good(w), NEW p \in Player
    PROVE  /\ Good(CreateRoom(w, p))
           /\ Elems(w.rooms) \subseteq Elems(CreateRoom(w, p).rooms)
           /\ FreeRooms(w) # {} => NewRoom(w) \in Elems(CreateRoom(w, p).rooms)
<1> DEFINE v == CreateRoom(w, p)
           r == NewRoom(w)
<1>1. w \in WorldType /\ ListsAgree(w) /\ w.rooms \in Seq(Room)
  BY DEF Good, WorldType
<1>2. CASE FreeRooms(w) = {}
  BY <1>2 DEF CreateRoom
<1>3. CASE FreeRooms(w) # {}
  <2>1. r \in Room /\ r \notin Elems(w.rooms)
    BY <1>3 DEF NewRoom, FreeRooms
  <2> HIDE DEF r
  <2>2. /\ Append(w.rooms, r) \in Seq(Room)
        /\ Distinct(Append(w.rooms, r))
        /\ Elems(Append(w.rooms, r)) = Elems(w.rooms) \cup {r}
    BY <1>1, <2>1, AppendElems DEF ListsAgree
  <2>3. [NoSeats EXCEPT ![0] = p] \in Seats
    BY DEF NoSeats, Seats
  <2>4. v = [w EXCEPT !.rooms = Append(w.rooms, r),
                      !.slot[r] = [NoSeats EXCEPT ![0] = p],
                      !.state[r] = "LOBBY"]
    BY <1>3 DEF CreateRoom, r
  <2> HIDE DEF v
  <2>5. v \in WorldType
    BY <1>1, <2>1, <2>2, <2>3, <2>4 DEF WorldType, RoomState
  <2>6. /\ v.rooms = Append(w.rooms, r)
        /\ v.matchRooms = w.matchRooms
        /\ v.gameRooms = w.gameRooms
        /\ v.state = [w.state EXCEPT ![r] = "LOBBY"]
    BY <1>1, <2>4 DEF WorldType
  <2>7. v.state[r] = "LOBBY" /\ \A q \in Elems(w.rooms) : v.state[q] = w.state[q]
    BY <1>1, <2>1, <2>6, ElemsTyped DEF WorldType
  <2>8. ListsAgree(v)
    BY <1>1, <2>2, <2>6, <2>7 DEF ListsAgree, InState
  <2> QED BY <2>2, <2>5, <2>6, <2>8 DEF Good, v, r
<1> QED BY <1>2, <1>3

\* ChangeRoomState moves a listed room to the list of its new state.
LEMMA ChangeRoomStateGood ==
    ASSUME NEW w, Good(w), NEW r \in Elems(w.rooms), NEW st \in RoomState,
           w.state[r] = "GAME" => st # "READY"
    PROVE  /\ Good(ChangeRoomState(w, r, st))
           /\ ChangeRoomState(w, r, st).rooms = w.rooms
           /\ ChangeRoomState(w, r, st).slot = w.slot
<1> DEFINE v == ChangeRoomState(w, r, st)
<1>1. w \in WorldType /\ ListsAgree(w) /\ w.rooms \in Seq(Room)
  BY DEF Good, WorldType
<1>2. r \in Room /\ Elems(w.rooms) \subseteq Room /\ w.state[r] \in RoomState
  BY <1>1, ElemsTyped DEF WorldType
<1>3. CASE w.state[r] = st
  BY <1>3 DEF ChangeRoomState
<1>4. CASE w.state[r] # st
  <2> DEFINE mr == CASE st = "READY" -> w.matchRooms \cup {r}
                     [] st = "GAME"  -> w.matchRooms \ {r}
                     [] OTHER -> IF w.state[r] = "READY" THEN w.matchRooms \ {r} ELSE w.matchRooms
             gr == CASE st = "GAME" -> w.gameRooms \cup {r}
                     [] OTHER -> IF st = "LOBBY" /\ w.state[r] = "GAME" THEN w.gameRooms \ {r} ELSE w.gameRooms
             u == [w EXCEPT !.matchRooms = mr, !.gameRooms = gr]
  <2>1. v = SetState(u, r, st)
    BY <1>4 DEF ChangeRoomState
  <2>2. mr \in SUBSET Room /\ gr \in SUBSET Room
    BY <1>1, <1>2 DEF WorldType
  <2>3. /\ mr = {q \in Elems(w.rooms) : IF q = r THEN st = "READY" ELSE w.state[q] = "READY"}
        /\ gr = {q \in Elems(w.rooms) : IF q = r THEN st = "GAME" ELSE w.state[q] = "GAME"}
    BY <1>1, <1>2 DEF ListsAgree, InState, RoomState
  <2> HIDE DEF mr, gr
  <2>4. /\ u \in WorldType
        /\ u.rooms = w.rooms /\ u.state = w.state /\ u.slot = w.slot
        /\ u.matchRooms = mr /\ u.gameRooms = gr
    BY <1>1, <2>2 DEF WorldType
  <2> HIDE DEF u
  <2>5. \A x \in CPlayer : [x EXCEPT !.state = st] \in CPlayer
    BY DEF CPlayer, EGameState, RoomState
  <2> DEFINE in == [p \in Player |-> IF p \in Members(u, r) THEN [u.info[p] EXCEPT !.state = st]
                                    ELSE u.info[p]]
  <2>10. u.info \in [Player -> CPlayer]
    BY <2>4 DEF WorldType
  <2>11. in \in [Player -> CPlayer]
    BY <2>5, <2>10
  <2>12. SetState(u, r, st) = [u EXCEPT !.state[r] = st, !.info = in]
    BY <2>4 DEF SetState, WorldType
  <2> HIDE DEF in
  <2>13. u.state[r] \in RoomState
    BY <1>2, <2>4 DEF WorldType
  <2>14. [u EXCEPT !.state[r] = st, !.info = in] \in WorldType
    BY <1>2, <2>4, <2>11 DEF WorldType
  <2>6. v \in WorldType
    BY <2>1, <2>12, <2>14
  <2>7. /\ v.rooms = w.rooms /\ v.slot = w.slot
        /\ v.matchRooms = mr /\ v.gameRooms = gr
        /\ v.state = [w.state EXCEPT ![r] = st]
    BY <2>1, <2>4 DEF SetState, WorldType
  <2>8. \A q \in Elems(w.rooms) : v.state[q] = IF q = r THEN st ELSE w.state[q]
    BY <1>1, <1>2, <2>7 DEF WorldType
  <2>9. ListsAgree(v)
    BY <1>1, <2>3, <2>7, <2>8 DEF ListsAgree, InState
  <2> QED BY <2>6, <2>7, <2>9 DEF Good
<1> QED BY <1>3, <1>4

\* CheckAndRestateRoom changes at most the state of its room.
LEMMA CheckAndRestateRoomGood ==
    ASSUME NEW w, Good(w), NEW r \in Elems(w.rooms)
    PROVE  /\ Good(CheckAndRestateRoom(w, r))
           /\ CheckAndRestateRoom(w, r).rooms = w.rooms
           /\ CheckAndRestateRoom(w, r).slot = w.slot
  BY ChangeRoomStateGood DEF CheckAndRestateRoom, RoomState

(***************************************************************************)
(* Leaving, taking over, joining, disconnecting.                           *)
(***************************************************************************)
LEMMA LeaveRoomGood ==
    ASSUME NEW w, Good(w), NEW p
    PROVE  /\ Good(LeaveRoom(w, p))
           /\ Elems(LeaveRoom(w, p).rooms) \subseteq Elems(w.rooms)
<1> DEFINE r == GetRoom(w, p)
           u == [w EXCEPT !.slot[r] = Without(w.slot[r], p)]
           v == CheckAndRestateRoom(u, r)
<1>1. CASE r = NoRoom
  BY <1>1 DEF LeaveRoom
<1>2. CASE r # NoRoom
  <2>1. r \in Elems(w.rooms) /\ r \in Room
    BY <1>2, GetRoomListed
  <2> HIDE DEF r
  <2>2. w.slot[r] \in Seats
    BY <2>1 DEF Good, WorldType
  <2>3. Good(u) /\ SameRooms(u, w)
    BY <2>1, <2>2, SeatsTyped, SlotGood
  <2>4. u.rooms = w.rooms
    BY <2>3 DEF SameRooms
  <2> HIDE DEF u
  <2>5. Good(v) /\ v.rooms = w.rooms
    BY <2>1, <2>3, <2>4, CheckAndRestateRoomGood
  <2>6. LeaveRoom(w, p) \in {DeleteRoom(w, r), DeleteRoom(v, r), v}
    BY <1>2 DEF LeaveRoom, r, u
  <2> HIDE DEF v
  <2> QED BY <2>1, <2>5, <2>6, DeleteRoomGood
<1> QED BY <1>1, <1>2

\* OutRoom may delete rooms and adds none.
LEMMA OutRoomGood ==
    ASSUME NEW w, Good(w), NEW p
    PROVE  /\ Good(OutRoom(w, p))
           /\ Elems(OutRoom(w, p).rooms) \subseteq Elems(w.rooms)
  BY LeaveRoomGood DEF OutRoom

\* AbsorbPlayer may delete the room of the new connection and adds none.
LEMMA AbsorbPlayerGood ==
    ASSUME NEW w, Good(w), NEW p \in Player, NEW q \in Player
    PROVE  /\ Good(AbsorbPlayer(w, p, q))
           /\ Elems(AbsorbPlayer(w, p, q).rooms) \subseteq Elems(w.rooms)
<1> DEFINE w1 == OutRoom(w, p)
           w2 == IF w1.info[q].socket # NoSocket THEN Close(w1, w1.info[q].socket) ELSE w1
           st == IF GetGameRoom(w2, q) # NoRoom THEN "GAME" ELSE "LOBBY"
           w3 == [w2 EXCEPT !.info[q].state = st,
                            !.info[q].socket = w2.info[p].socket,
                            !.info[p].socket = NoSocket]
           w4 == RemovePlayer(w3, p)
<1>1. Good(w1) /\ Elems(w1.rooms) \subseteq Elems(w.rooms)
  BY OutRoomGood
<1> HIDE DEF w1
<1>2. w1.info[q].socket \in Socket \cup {NoSocket}
  BY <1>1 DEF Good, WorldType, CPlayer
<1>3. Good(w2) /\ w2.rooms = w1.rooms
  BY <1>1, <1>2, CloseGood DEF SameRooms
<1> HIDE DEF w2
<1>4. st \in EGameState
  BY DEF EGameState
<1> HIDE DEF st
<1>5. w2.info \in [Player -> CPlayer]
  BY <1>3 DEF Good, WorldType
<1>6. [w2.info EXCEPT ![q].state = st] \in [Player -> CPlayer]
  BY <1>4, <1>5 DEF CPlayer
<1>7. w3 = [w2 EXCEPT !.info = [w2.info EXCEPT ![q].state = st,
                                              ![q].socket = w2.info[p].socket,
                                              ![p].socket = NoSocket]]
  <2>1. w3 = Moved(w2, p, q, st, w2.info[p].socket)
    BY DEF Moved
  <2>2. w2 \in WorldType
    BY <1>3 DEF Good
  <2> HIDE DEF w3
  <2>3. w3 = [w2 EXCEPT !.info = MovedInfo(w2.info, p, q, st, w2.info[p].socket)]
    BY <2>1, <2>2, InfoWritten
  <2> QED BY <2>3 DEF MovedInfo
<1>8. [w2.info EXCEPT ![q].state = st, ![q].socket = w2.info[p].socket,
                      ![p].socket = NoSocket] \in [Player -> CPlayer]
  BY <1>4, <1>5, InfoMoved
<1>9. Good(w3) /\ w3.rooms = w2.rooms
  <2> DEFINE in == [w2.info EXCEPT ![q].state = st, ![q].socket = w2.info[p].socket,
                                   ![p].socket = NoSocket]
  <2>1. in \in [Player -> CPlayer] /\ w3 = [w2 EXCEPT !.info = in]
    BY <1>7, <1>8
  <2> HIDE DEF in, w3
  <2> QED BY <1>3, <2>1, InfoGood DEF SameRooms
<1> HIDE DEF w3
<1>10. Good(w4) /\ w4.rooms = w3.rooms
  BY <1>9, RemovePlayerGood DEF SameRooms
<1> HIDE DEF w4
<1>11. Good([w4 EXCEPT !.players = Append(w4.players, q)])
  <2>1. w4 \in WorldType /\ ListsAgree(w4) /\ w4.players \in Seq(Player)
    BY <1>10 DEF Good, WorldType
  <2>2. Append(w4.players, q) \in Seq(Player)
    BY <2>1
  <2>3. [w4 EXCEPT !.players = Append(w4.players, q)] \in WorldType
    BY <2>1, <2>2 DEF WorldType
  <2> QED BY <2>1, <2>3, SameRoomsGood DEF WorldType, SameRooms
<1>13. [w4 EXCEPT !.players = Append(w4.players, q)].rooms = w4.rooms
  BY <1>10 DEF Good, WorldType
<1>12. AbsorbPlayer(w, p, q) \in {w4, [w4 EXCEPT !.players = Append(w4.players, q)]}
  BY DEF AbsorbPlayer, w1, w2, Absorbed, w3, w4, st
<1> QED BY <1>1, <1>3, <1>9, <1>10, <1>11, <1>13, <1>12

\* JoinRoom returns a player object.
LEMMA JoinRoomGood ==
    ASSUME NEW w, Good(w), NEW r \in Room, NEW p \in Player
    PROVE  /\ Good(JoinRoom(w, r, p).world)
           /\ JoinRoom(w, r, p).player \in Player
<1> DEFINE S == JoinSeats(w, r, p)
           i == CHOOSE i \in S : \A j \in S : i <= j
           q == w.slot[r][i]
<1>1. w.slot[r] \in Seats
  BY DEF Good, WorldType
<1>2. CASE S = {}
  BY <1>2 DEF JoinRoom
<1>3. CASE S # {}
  <2>1. i \in S
    <3>1. S \in SUBSET {0, 1}
      BY DEF JoinSeats, Slots, MAX_PLAYER
    <3>2. \E x \in S : \A j \in S : x <= j
      BY SMTT(60), <1>3, <3>1
    <3> QED BY <3>2
  <2>2. i \in Slots /\ q \in Player \cup {NoPlayer}
    BY <1>1, <2>1, SeatsTyped DEF JoinSeats
  <2>3. JoinRoom(w, r, p) = IF q = NoPlayer THEN [world |-> [w EXCEPT !.slot[r][i] = p], player |-> p]
                            ELSE [world |-> AbsorbPlayer(w, p, q), player |-> q]
    BY <1>3 DEF JoinRoom
  <2> HIDE DEF i, q
  <2>4. CASE q = NoPlayer
    BY <1>1, <2>2, SeatsTyped, SlotGood, <2>3, <2>4
  <2>5. CASE q # NoPlayer
    BY <2>2, <2>3, <2>5, AbsorbPlayerGood
  <2> QED BY <2>4, <2>5
<1> QED BY <1>2, <1>3

\* DisconnectPlayer keeps the room.
LEMMA DisconnectPlayerGood ==
    ASSUME NEW w, Good(w), NEW r \in Elems(w.rooms), NEW p \in Player
    PROVE  Good(DisconnectPlayer(w, r, p)) /\ DisconnectPlayer(w, r, p).rooms = w.rooms
<1>1. r \in Room /\ w.slot[r] \in Seats /\ w.info \in [Player -> CPlayer]
  BY ElemsTyped DEF Good, WorldType
<1>2. CASE w.state[r] = "GAME"
  <2> DEFINE seats == IF w.slot[r][0] = p THEN Swapped(w.slot[r]) ELSE w.slot[r]
             u == [w EXCEPT !.slot[r] = seats]
             in == [u.info EXCEPT ![p].state = "ConnectionLost"]
  <2>1. seats \in Seats
    BY <1>1, SeatsTyped
  <2>2. DisconnectPlayer(w, r, p) = [u EXCEPT !.info = in]
    BY <1>2 DEF DisconnectPlayer
  <2> HIDE DEF seats
  <2>3. Good(u) /\ u.rooms = w.rooms
    BY <1>1, <2>1, SlotGood DEF SameRooms
  <2> HIDE DEF u
  <2>4. u.info \in [Player -> CPlayer]
    BY <2>3 DEF Good, WorldType
  <2>5. in \in [Player -> CPlayer]
    BY <2>4 DEF CPlayer, EGameState
  <2> HIDE DEF in
  <2> QED BY <2>2, <2>3, <2>5, InfoGood DEF SameRooms
<1>3. CASE w.state[r] # "GAME"
  <2> DEFINE u == [w EXCEPT !.slot[r] = Without(Without(w.slot[r], p), p)]
  <2>1. Without(Without(w.slot[r], p), p) \in Seats
    BY <1>1, SeatsTyped
  <2>2. Good(u) /\ u.rooms = w.rooms
    BY <1>1, <2>1, SlotGood DEF SameRooms
  <2>3. DisconnectPlayer(w, r, p) = CheckAndRestateRoom(u, r)
    BY <1>3 DEF DisconnectPlayer
  <2> HIDE DEF u
  <2> QED BY <2>2, <2>3, CheckAndRestateRoomGood
<1> QED BY <1>2, <1>3

\* Deleting a room with its players keeps the lists in agreement.
LEMMA DropRoomGood ==
    ASSUME NEW w, Good(w), NEW r \in Room
    PROVE  Good(DropRoom(w, r))
  BY DeleteRoomGood, RemovePlayerGood DEF DropRoom, RemoveSeated

\* DisconnectRoom, whichever of its branches runs.
LEMMA DisconnectRoomGood ==
    ASSUME NEW w, Good(w), NEW p \in Player
    PROVE  Good(DisconnectRoom(w, p))
<1> DEFINE r == GetConnectedRoom(w, p)
           v == DisconnectPlayer(w, r, p)
<1>1. DisconnectRoom(w, p) \in IF r = NoRoom THEN {RemovePlayer(w, p)}
                                ELSE {DropRoom(w, r), v, DropRoom(v, r)}
  BY DEF DisconnectRoom
<1>2. r = NoRoom \/ (r \in Elems(w.rooms) /\ r \in Room)
  BY GetRoomListed
<1> HIDE DEF r
<1>3. CASE r = NoRoom
  BY <1>1, <1>3, RemovePlayerGood
<1>4. CASE r # NoRoom
  <2>1. Good(v)
    BY <1>2, <1>4, DisconnectPlayerGood
  <2> HIDE DEF v
  <2> QED BY <1>1, <1>2, <1>4, <2>1, DropRoomGood
<1> QED BY <1>3, <1>4

\* CreatePlayer leaves the rooms alone.
LEMMA CreatePlayerGood ==
    ASSUME NEW w, Good(w), NEW p \in Player, NEW s \in Socket
    PROVE  Good(CreatePlayer(w, p, s)) /\ SameRooms(CreatePlayer(w, p, s), w)
<1>1. w \in WorldType /\ ListsAgree(w) /\ w.players \in Seq(Player)
  BY DEF Good, WorldType
<1>2. Append(w.players, p) \in Seq(Player)
  BY <1>1
<1>3. [steamID |-> NoID, socket |-> s, state |-> "LOBBY"] \in CPlayer
  BY DEF CPlayer, EGameState
<1>4. CreatePlayer(w, p, s) \in WorldType
  BY <1>1, <1>2, <1>3 DEF CreatePlayer, WorldType
<1>5. SameRooms(CreatePlayer(w, p, s), w)
  BY <1>1 DEF CreatePlayer, WorldType, SameRooms
<1> QED BY <1>1, <1>4, <1>5, SameRoomsGood

(***************************************************************************)
(* The compositions of GameServer.                                         *)
(***************************************************************************)
LEMMA KickPlayerGood ==
    ASSUME NEW w, Good(w), NEW p \in Player
    PROVE  Good(KickPlayer(w, p))
  BY OutRoomGood, CreateRoomGood DEF KickPlayer

\* The seat search of _MoveRoomProc, with the room it falls back to.
LEMMA MoveIntoGood ==
    ASSUME NEW w, Good(w), NEW r \in Room, NEW p \in Player
    PROVE  Good(MoveInto(w, r, p))
<1> DEFINE i == CHOOSE i \in Slots : /\ w.slot[r][i] = NoPlayer
                                     /\ \A j \in 0 .. (i - 1) : w.slot[r][j] # NoPlayer
           u == [w EXCEPT !.slot[r][i] = p]
<1>1. w.slot[r] \in Seats
  BY DEF Good, WorldType
<1>2. ASSUME ~ \A x \in Slots : w.slot[r][x] # NoPlayer PROVE Good(u)
  <2>1. Slots = {0, 1}
    BY DEF Slots, MAX_PLAYER
  <2>2. \E x \in Slots : /\ w.slot[r][x] = NoPlayer
                        /\ \A j \in 0 .. (x - 1) : w.slot[r][j] # NoPlayer
    BY <1>2, <2>1
  <2>3. i \in Slots
    BY <2>2
  <2> HIDE DEF i
  <2>4. [w.slot[r] EXCEPT ![i] = p] \in Seats
    BY <1>1, <2>3, SeatsTyped
  <2> QED BY <2>4, SlotGood
<1>3. MoveInto(w, r, p) \in {w, CreateRoom(w, p)} \cup
        (IF \A x \in Slots : w.slot[r][x] # NoPlayer THEN {} ELSE {u})
  BY DEF MoveInto
<1> HIDE DEF u
<1> QED BY <1>2, <1>3, CreateRoomGood

\* Emptying the seat of a lost player keeps the lists in agreement.
LEMMA EvictGood ==
    ASSUME NEW w, Good(w), NEW r \in Room, NEW i \in Slots
    PROVE  Good(Evict(w, r, i)) /\ SameRooms(Evict(w, r, i), w)
<1> DEFINE v == RemovePlayer(w, w.slot[r][i])
           u == [v EXCEPT !.slot[r][i] = NoPlayer]
<1>1. Good(v) /\ SameRooms(v, w)
  BY RemovePlayerGood
<1>2. Evict(w, r, i) \in {w, u}
  BY DEF Evict
<1> HIDE DEF v
<1>3. v.slot[r] \in Seats
  BY <1>1 DEF Good, WorldType
<1>4. [v.slot[r] EXCEPT ![i] = NoPlayer] \in Seats
  BY <1>3, SeatsTyped
<1>5. Good(u) /\ SameRooms(u, v)
  BY <1>1, <1>4, SlotGood
<1> HIDE DEF u
<1> QED BY <1>1, <1>2, <1>5 DEF SameRooms

\* Giving the master its seat back keeps the lists in agreement.
LEMMA RemasterGood ==
    ASSUME NEW w, Good(w), NEW r \in Room, NEW seats
    PROVE  Good(Remaster(w, r, seats))
  BY SeatsTyped, SlotGood DEF Good, WorldType, Remaster

\* How many seats of a room are taken.
LEMMA CountPlayers ==
    ASSUME NEW w, NEW r
    PROVE  GetPlayerCount(w, r) = (IF w.slot[r][0] # NoPlayer THEN 1 ELSE 0)
                                  + (IF w.slot[r][1] # NoPlayer THEN 1 ELSE 0)
<1> DEFINE S == {i \in Slots : w.slot[r][i] # NoPlayer}
<1>1. Slots = {0, 1}
  BY DEF Slots, MAX_PLAYER
<1>2. S = (IF w.slot[r][0] # NoPlayer THEN {0} ELSE {}) \cup (IF w.slot[r][1] # NoPlayer THEN {1} ELSE {})
  BY <1>1
<1>3. Cardinality({}) = 0 /\ Cardinality({0}) = 1 /\ Cardinality({1}) = 1 /\ Cardinality({0} \cup {1}) = 2
  <2>1. Cardinality({}) = 0
    BY FS_EmptySet
  <2>2. IsFiniteSet({0}) /\ Cardinality({0}) = 1 /\ Cardinality({1}) = 1
    BY FS_Singleton
  <2>3. Cardinality({0} \cup {1}) = Cardinality({0}) + 1
    BY <2>2, FS_AddElement
  <2> QED BY <2>1, <2>2, <2>3
<1>4. GetPlayerCount(w, r) = Cardinality(S)
  BY DEF GetPlayerCount
<1> HIDE DEF S
<1> QED BY <1>2, <1>3, <1>4

\* Merging two matched rooms changes seats only.
LEMMA MergedGood ==
    ASSUME NEW w, Good(w), NEW i \in Elems(w.rooms), NEW j \in Elems(w.rooms),
           i # j, Matches(w, i, j)
    PROVE  Good(Merged(w, i, j)) /\ Merged(w, i, j).rooms = w.rooms
<1> DEFINE u == Merged(w, i, j)
           k == CHOOSE x \in Slots : w.slot[i][x] = NoPlayer /\ \A y \in 0 .. (x - 1) : w.slot[i][y] # NoPlayer
           p == IF w.slot[j][0] # NoPlayer THEN w.slot[j][0] ELSE w.slot[j][1]
<1>1. Slots = {0, 1}
  BY DEF Slots, MAX_PLAYER
<1>2. i \in Room /\ j \in Room /\ w.slot[i] \in Seats /\ w.slot[j] \in Seats
  BY ElemsTyped DEF Good, WorldType
<1>3. CASE GetPlayerCount(w, j) = MAX_PLAYER
  BY <1>3, <1>2, SlotGood DEF Merged, SameRooms
<1>4. CASE GetPlayerCount(w, j) # MAX_PLAYER
  <2>1. u = [w EXCEPT !.slot[i] = [w.slot[i] EXCEPT ![k] = p]]
    BY <1>4 DEF Merged
  <2>2. w.slot[i][0] = NoPlayer \/ w.slot[i][1] = NoPlayer
    BY CountPlayers DEF Matches, MAX_PLAYER
  <2>3. \E x \in Slots : w.slot[i][x] = NoPlayer /\ \A y \in 0 .. (x - 1) : w.slot[i][y] # NoPlayer
    BY <1>1, <2>2
  <2>4. k \in Slots
    BY <2>3
  <2>5. p \in Player \cup {NoPlayer}
    BY <1>1, <1>2, SeatsTyped
  <2> HIDE DEF k, p
  <2>6. [w.slot[i] EXCEPT ![k] = p] \in Seats
    BY <1>2, <2>4, <2>5, SeatsTyped
  <2> QED BY <1>2, <2>1, <2>6, SlotGood DEF SameRooms
<1> QED BY <1>3, <1>4

\* A match deletes one of its rooms and moves the other to the game rooms.
LEMMA StartGameGood ==
    ASSUME NEW w, Good(w), NEW i \in Elems(w.rooms), NEW j \in Elems(w.rooms), Matches(w, i, j)
    PROVE  Good(StartGame(w, i, j))
<1> DEFINE u == Merged(w, i, j)
           v == IF i = j THEN w ELSE DeleteRoom(u, j)
<1>1. StartGame(w, i, j) = ChangeRoomState(v, i, "GAME")
  BY DEF StartGame
<1>2. Good(v) /\ i \in Elems(v.rooms)
  <2>1. CASE i = j
    BY <2>1
  <2>2. CASE i # j
    <3>1. Good(u) /\ u.rooms = w.rooms
      BY <2>2, MergedGood
    <3>2. j \in Room
      BY ElemsTyped DEF Good, WorldType
    <3> HIDE DEF u
    <3>3. Good(DeleteRoom(u, j)) /\ Elems(DeleteRoom(u, j).rooms) = Elems(u.rooms) \ {j}
      BY <3>1, <3>2, DeleteRoomGood
    <3> QED BY <2>2, <3>1, <3>3
  <2> QED BY <2>1, <2>2
<1> HIDE DEF v
<1> QED BY <1>1, <1>2, ChangeRoomStateGood DEF RoomState

\* The rooms of a match are waiting rooms.
LEMMA MatchingListed ==
    ASSUME NEW w, Good(w), NEW m \in Matching(w)
    PROVE  m[1] \in Elems(w.rooms) /\ m[2] \in Elems(w.rooms) /\ Matches(w, m[1], m[2])
  BY DEF Matching, Good, ListsAgree, InState

\* Writing the state of one player.
LEMMA PlayerStateGood ==
    ASSUME NEW w, Good(w), NEW p \in Player, NEW st \in EGameState
    PROVE  /\ Good([w EXCEPT !.info[p].state = st])
           /\ SameRooms([w EXCEPT !.info[p].state = st], w)
<1> DEFINE in == [w.info EXCEPT ![p].state = st]
<1>1. in \in [Player -> CPlayer]
  BY DEF Good, WorldType, CPlayer
<1>2. [w EXCEPT !.info[p].state = st] = [w EXCEPT !.info = in]
  OBVIOUS
<1> HIDE DEF in
<1> QED BY <1>1, <1>2, InfoGood

(***************************************************************************)
(* Every step of the specification.                                        *)
(***************************************************************************)
\* TypeOK and RoomListsOK are inductive with the rooms of the list distinct: a room
\* listed twice would stay listed when DeleteRoom erases it once.
IInv == TypeOK /\ RoomListsOK /\ Distinct(rooms)

\* The invariant says that the current world is good.
LEMMA WorldGood ==
    ASSUME IInv
    PROVE  /\ Good(World)
           /\ recv \in [Socket -> BOOLEAN]
           /\ client \in [Socket -> SteamID \cup {NoID}]
           /\ pc \in {"run", "update", "crashed"}
<1>1. World \in WorldType
  BY DEF IInv, TypeOK, World, WorldType, RoomState, SockState
<1>2. ListsAgree(World)
  BY DEF IInv, RoomListsOK, World, ListsAgree, InState, ListedRooms
<1> QED BY <1>1, <1>2 DEF Good, IInv, TypeOK

\* A step that commits a good world preserves the invariant.
LEMMA CommitGood ==
    ASSUME NEW w, Good(w), Commit(w),
           recv' \in [Socket -> BOOLEAN],
           client' \in [Socket -> SteamID \cup {NoID}],
           pc' \in {"run", "update", "crashed"}
    PROVE  IInv'
<1>1. w \in WorldType /\ ListsAgree(w)
  BY DEF Good
<1>2. TypeOK'
  BY <1>1 DEF Commit, WorldType, TypeOK, RoomState, SockState
<1>3. RoomListsOK' /\ Distinct(rooms)'
  BY <1>1 DEF Commit, ListsAgree, InState, RoomListsOK, ListedRooms, Distinct, Elems
<1> QED BY <1>2, <1>3 DEF IInv

\* A handler that ends in a good world preserves the invariant.
LEMMA ReplyGood ==
    ASSUME IInv, NEW w, Good(w), Reply(w)
    PROVE  IInv'
  BY WorldGood, CommitGood DEF Reply

\* A server that has just started is good,
LEMMA FreshGood == Good(Fresh)
<1>1. Blank \in CPlayer /\ NoSeats \in Seats
  BY DEF Blank, CPlayer, EGameState, NoSeats, Seats
<1>2. Fresh \in WorldType
  BY <1>1 DEF Fresh, WorldType, RoomState, SockState
<1>3. ListsAgree(Fresh)
  BY DEF Fresh, ListsAgree, InState, Distinct, Elems
<1> QED BY <1>2, <1>3 DEF Good

\* and so is one that is to be restarted.
LEMMA CrashGood ==
    ASSUME Crash
    PROVE  IInv'
  BY FreshGood, CommitGood DEF Crash

\* The player of a request is a listed player.
LEMMA MeTyped ==
    ASSUME IInv, NEW s
    PROVE  Me(s) # NoPlayer => Me(s) \in Player
  BY WorldGood, GetPlayerListed DEF Me

\* Identifying a connection, with or without absorbing an older player.
LEMMA IdentifiedGood ==
    ASSUME IInv, NEW id \in SteamID \cup {NoID}, NEW me \in Player
    PROVE  Good(Identified(id, me).world) /\ Identified(id, me).player \in Player
<1> DEFINE old == GetPlayerById(World, id)
           absorbs == old # NoPlayer /\ info[old].socket # info[me].socket
           who == IF absorbs THEN old ELSE me
           w == IF absorbs THEN AbsorbPlayer(World, me, old) ELSE World
           u == [w EXCEPT !.info[who].steamID = id]
<1>1. Identified(id, me) = [world |-> u, player |-> who]
  BY DEF Identified
<1>2. Good(World) /\ (old # NoPlayer => old \in Player)
  BY WorldGood, GetPlayerListed
<1> HIDE DEF old
<1>3. who \in Player
  BY <1>2
<1>4. Good(w)
  BY <1>2, AbsorbPlayerGood
<1> HIDE DEF w, who
<1>5. [w.info EXCEPT ![who].steamID = id] \in [Player -> CPlayer]
  BY <1>4 DEF Good, WorldType, CPlayer
<1>6. Good(u)
  BY <1>4, <1>5, InfoGood
<1> QED BY <1>1, <1>3, <1>6

\* A new connection.
LEMMA ConnectStep ==
    ASSUME IInv, NEW s \in Socket, NEW id \in SteamID, Connect(s, id)
    PROVE  IInv'
<1> DEFINE u == [World EXCEPT !.sock[s] = "open"]
<1>1. Good(World) /\ World \in WorldType /\ ListsAgree(World)
  BY WorldGood DEF Good
<1>2. u \in WorldType /\ SameRooms(u, World)
  BY <1>1 DEF WorldType, SockState, SameRooms
<1>3. Good(u)
  BY <1>1, <1>2, SameRoomsGood
<1>4. PICK p \in pool : Commit(CreateRoom(CreatePlayer(u, p, s), p))
  BY DEF Connect
<1>5. p \in Player
  BY DEF IInv, TypeOK
<1> HIDE DEF u
<1>6. Good(CreatePlayer(u, p, s))
  BY <1>3, <1>5, CreatePlayerGood
<1>7. Good(CreateRoom(CreatePlayer(u, p, s), p))
  BY <1>5, <1>6, CreateRoomGood
<1>8. /\ recv' \in [Socket -> BOOLEAN]
      /\ client' \in [Socket -> SteamID \cup {NoID}]
      /\ pc' \in {"run", "update", "crashed"}
  BY WorldGood DEF Connect
<1> QED BY <1>4, <1>7, <1>8, CommitGood

\* The completions of the worker threads.
LEMMA SocketSteps ==
    ASSUME IInv, NEW s \in Socket
    PROVE  /\ RecvFails(s) => IInv'
           /\ CloseDone(s) => IInv'
<1>1. Good(World) /\ World \in WorldType /\ ListsAgree(World) /\ World.inbox = inbox
  BY WorldGood DEF Good, World
<1>2. ASSUME RecvFails(s) PROVE IInv'
  BY <1>1, CloseGood, <1>2, WorldGood, CommitGood DEF RecvFails
<1>3. ASSUME CloseDone(s) PROVE IInv'
  <2> DEFINE u == [World EXCEPT !.sock[s] = "free", !.inbox = Append(World.inbox, s)]
  <2>1. Append(World.inbox, s) \in Seq(Socket \cup {NoSocket})
    BY <1>1 DEF WorldType
  <2>2. u \in WorldType /\ SameRooms(u, World)
    BY <1>1, <2>1 DEF WorldType, SockState, SameRooms
  <2>3. Good(u)
    BY <1>1, <2>2, SameRoomsGood
  <2>4. Commit(u)
    BY <1>3 DEF CloseDone
  <2> HIDE DEF u
  <2> QED BY <1>3, <2>3, <2>4, WorldGood, CommitGood DEF CloseDone
<1> QED BY <1>2, <1>3

\* A CLOSE message.
LEMMA OnCloseMessageStep ==
    ASSUME IInv, OnCloseMessage
    PROVE  IInv'
<1> DEFINE p == Me(Head(inbox))
           w == [World EXCEPT !.inbox = Tail(World.inbox)]
<1>1. Good(World) /\ World \in WorldType /\ ListsAgree(World) /\ World.inbox = inbox
  BY WorldGood DEF Good, World
<1>2. Tail(World.inbox) \in Seq(Socket \cup {NoSocket})
  BY <1>1 DEF WorldType, OnCloseMessage
<1>3. w \in WorldType /\ SameRooms(w, World)
  BY <1>1, <1>2 DEF WorldType, SameRooms
<1>4. Good(w)
  BY <1>1, <1>3, SameRoomsGood
<1>5. Reply(IF p = NoPlayer THEN w ELSE DisconnectRoom(w, p))
  BY DEF OnCloseMessage
<1>6. p # NoPlayer => p \in Player
  BY MeTyped
<1> HIDE DEF w, p
<1>7. Good(IF p = NoPlayer THEN w ELSE DisconnectRoom(w, p))
  BY <1>4, <1>6, DisconnectRoomGood
<1> QED BY <1>5, <1>7, ReplyGood

\* The requests of the lobby.
LEMMA PartySteps ==
    ASSUME IInv, NEW s \in Socket
    PROVE  /\ AnswerId(s) => IInv'
           /\ \A id \in SteamID : InviteFriendAnswer(s, id) => IInv'
           /\ SetPartyKing(s) => IInv'
           /\ FriendKickRequest(s) => IInv'
           /\ \A isOn \in BOOLEAN : MatchRequest(s, isOn) => IInv'
<1> DEFINE me == Me(s)
           r == GetRoom(World, me)
<1>1. Good(World) /\ (me # NoPlayer => me \in Player)
  BY WorldGood, MeTyped
<1>2. r # NoRoom => /\ r \in Elems(World.rooms) /\ r \in Room
                    /\ World.slot[r] \in Seats /\ World.slot[r] = slot[r]
  BY <1>1, GetRoomListed DEF World, Good, WorldType
<1> HIDE DEF me, r
<1>3. ASSUME AnswerId(s) PROVE IInv'
  BY <1>3, WorldGood, <1>1, IdentifiedGood, ReplyGood DEF AnswerId, Receives, me
<1>4. ASSUME NEW id \in SteamID, InviteFriendAnswer(s, id) PROVE IInv'
  <2> DEFINE q == GetRoom(World, GetPlayerById(World, id))
  <2>1. /\ me # NoPlayer
        /\ \/ Crash
           \/ q # NoRoom /\ Reply(MoveInto(OutRoom(World, me), q, me))
    BY <1>4 DEF InviteFriendAnswer, Receives, me
  <2>2. q # NoRoom => q \in Room
    BY <1>1, GetRoomListed
  <2> HIDE DEF q
  <2>3. Good(OutRoom(World, me))
    BY <1>1, OutRoomGood
  <2>4. CASE Crash
    BY <2>4, CrashGood
  <2>5. CASE q # NoRoom /\ Reply(MoveInto(OutRoom(World, me), q, me))
    BY <1>1, <2>1, <2>2, <2>3, <2>5, MoveIntoGood, ReplyGood
  <2> QED BY <2>1, <2>4, <2>5
<1>5. ASSUME SetPartyKing(s) PROVE IInv'
  <2>1. PICK i \in Slots \ {0} :
            /\ r # NoRoom /\ me # NoPlayer /\ slot[r][i] # NoPlayer
            /\ Reply([World EXCEPT !.slot[r] = [slot[r] EXCEPT ![0] = slot[r][i], ![i] = me]])
    BY <1>5 DEF SetPartyKing, Receives, me, r
  <2>2. [slot[r] EXCEPT ![0] = slot[r][i], ![i] = me] \in Seats
    BY <1>1, <1>2, <2>1 DEF Seats
  <2>3. Good([World EXCEPT !.slot[r] = [slot[r] EXCEPT ![0] = slot[r][i], ![i] = me]])
    BY <1>1, <1>2, <2>1, <2>2, SlotGood
  <2> QED BY <2>1, <2>3, ReplyGood
<1>6. ASSUME FriendKickRequest(s) PROVE IInv'
  <2>1. PICK i \in Slots : /\ r # NoRoom /\ slot[r][i] # NoPlayer
                           /\ Reply(KickPlayer(World, slot[r][i]))
    BY <1>6 DEF FriendKickRequest, r, me
  <2>2. slot[r][i] \in Player
    BY <1>2, <2>1, SeatsTyped
  <2> QED BY <1>1, <2>1, <2>2, KickPlayerGood, ReplyGood
<1>7. ASSUME NEW isOn \in BOOLEAN, MatchRequest(s, isOn) PROVE IInv'
  <2> DEFINE st == IF isOn THEN "READY" ELSE "LOBBY"
             u == [World EXCEPT !.info[me].state = st]
  <2>1. /\ r # NoRoom /\ me # NoPlayer
        /\ Reply(CheckAndRestateRoom(u, r))
    BY <1>7 DEF MatchRequest, Receives, me, r
  <2>2. st \in EGameState
    BY DEF EGameState
  <2> HIDE DEF st
  <2>3. Good(u) /\ u.rooms = World.rooms
    BY <1>1, <2>1, <2>2, PlayerStateGood DEF SameRooms
  <2> HIDE DEF u
  <2>4. Good(CheckAndRestateRoom(u, r))
    BY <1>2, <2>1, <2>3, CheckAndRestateRoomGood
  <2> QED BY <2>1, <2>4, ReplyGood
<1> QED BY <1>3, <1>4, <1>5, <1>6, <1>7 DEF me, r

\* The debug requests.
LEMMA DebugSteps ==
    ASSUME IInv, NEW s \in Socket
    PROVE  /\ Debug_RoomStart(s) => IInv'
           /\ Debug_GameStart(s) => IInv'
<1> DEFINE me == Me(s)
           r == GetRoom(World, me)
           Joined(q) == JoinRoom(OutRoom(World, me), q, me).world
<1>1. Good(World) /\ (me # NoPlayer => me \in Player)
  BY WorldGood, MeTyped
<1>2. r # NoRoom => r \in Elems(World.rooms)
  BY <1>1, GetRoomListed
<1> HIDE DEF me, r
<1>3. ASSUME NEW q \in Room, me \in Player PROVE Good(Joined(q))
  BY <1>1, OutRoomGood, <1>3, JoinRoomGood
<1> HIDE DEF Joined
<1>4. ASSUME Debug_RoomStart(s) PROVE IInv'
  <2> DEFINE target == FirstIn(rooms, Open(World, Room, me), NoRoom)
  <2>1. me # NoPlayer /\ target # NoRoom /\ Reply(Joined(target))
    BY <1>4 DEF Debug_RoomStart, Receives, me, Joined
  <2>2. target \in Open(World, Room, me)
    BY <2>1, FirstInElems
  <2>3. target \in Room
    BY <2>2 DEF Open
  <2> HIDE DEF target
  <2> QED BY <1>1, <1>3, <2>1, <2>3, ReplyGood
<1>5. ASSUME Debug_GameStart(s) PROVE IInv'
  <2> DEFINE u(q) == [Joined(q) EXCEPT !.info[me].state = "GAME"]
             targets == Open(World, gameRooms, me)
  <2>1. /\ me # NoPlayer /\ r # NoRoom
        /\ \/ \E q \in targets : Reply(u(q))
           \/ Reply(ChangeRoomState(World, r, "GAME"))
    BY <1>5 DEF Debug_GameStart, Receives, me, r, Joined
  <2>2. targets \subseteq Room
    BY DEF Open, IInv, TypeOK
  <2> HIDE DEF targets
  <2>3. CASE \E q \in targets : Reply(u(q))
    <3>1. PICK q \in targets : Reply(u(q))
      BY <2>3
    <3>2. Good(Joined(q))
      BY <1>1, <1>3, <2>1, <2>2
    <3>3. Good(u(q))
      BY <1>1, <2>1, <3>2, PlayerStateGood DEF EGameState
    <3> HIDE DEF u
    <3> QED BY <3>1, <3>3, ReplyGood
  <2>4. CASE Reply(ChangeRoomState(World, r, "GAME"))
    BY <1>1, <1>2, <2>1, ChangeRoomStateGood, <2>4, ReplyGood DEF RoomState
  <2> QED BY <2>1, <2>3, <2>4
<1> QED BY <1>4, <1>5

\* The end of a game.
LEMMA EndGameStep ==
    ASSUME IInv, NEW s \in Socket, InGame_EndGame(s)
    PROVE  IInv'
<1> DEFINE r == GetGameRoom(World, Me(s))
           u == Evict(World, r, 0)
           v == Evict(u, r, 1)
<1>1. r # NoRoom /\ Reply(ChangeRoomState(v, r, "LOBBY"))
  BY DEF InGame_EndGame
<1>2. Good(World)
  BY WorldGood
<1>3. r \in Elems(World.rooms) /\ r \in Room
  BY <1>1, <1>2, GetRoomListed
<1> HIDE DEF r
<1>4. 0 \in Slots /\ 1 \in Slots
  BY DEF Slots, MAX_PLAYER
<1>5. Good(u) /\ u.rooms = World.rooms
  BY <1>2, <1>3, <1>4, EvictGood DEF SameRooms
<1> HIDE DEF u
<1>6. Good(v) /\ v.rooms = World.rooms
  BY <1>3, <1>4, <1>5, EvictGood DEF SameRooms
<1> HIDE DEF v
<1>7. Good(ChangeRoomState(v, r, "LOBBY"))
  BY <1>3, <1>6, ChangeRoomStateGood DEF RoomState
<1> QED BY <1>1, <1>7, ReplyGood

\* A client that comes back to a restarted server.
LEMMA ReconnectServerStep ==
    ASSUME IInv, NEW s \in Socket, NEW seats, NEW isGameRoom,
           InGame_ReconnectServer(s, seats, isGameRoom)
    PROVE  IInv'
<1> DEFINE id == client[s]
           me == Me(s)
           w1 == Identified(id, me).world
           who == Identified(id, me).player
           r1 == GetGameRoom(w1, who)
           r2 == OldRoom(w1, id, seats)
           w2 == OutRoom(w1, who)
           r3 == NewRoom(w2)
           w3 == CreateRoom(w2, who)
           w4 == IF isGameRoom THEN ChangeRoomState(w3, r3, "GAME") ELSE w3
           w5 == JoinRoom(w2, r2, who).world
<1>1. /\ me # NoPlayer
      /\ \/ r1 # NoRoom /\ Reply(Remaster(w1, r1, seats))
         \/ r2 # NoRoom /\ Reply(Remaster(w5, r2, seats))
         \/ FreeRooms(w2) # {} /\ Reply(Remaster(w4, r3, seats))
  BY DEF InGame_ReconnectServer, Receives
<1>2. me # NoPlayer => me \in Player
  BY MeTyped
<1> HIDE DEF me
<1>3. id \in SteamID \cup {NoID}
  BY WorldGood
<1> HIDE DEF id
<1>4. Good(w1) /\ who \in Player
  BY <1>1, <1>2, <1>3, IdentifiedGood
<1> HIDE DEF w1, who
<1>5. r1 # NoRoom => r1 \in Room
  BY <1>4, GetRoomListed
<1>6. r2 # NoRoom => r2 \in Room
  BY <1>4, GetRoomListed DEF OldRoom
<1>7. Good(w2)
  BY <1>4, OutRoomGood
<1> HIDE DEF r1, r2, w2
<1>8. CASE r1 # NoRoom /\ Reply(Remaster(w1, r1, seats))
  BY <1>4, <1>5, <1>8, RemasterGood, ReplyGood
<1>9. CASE r2 # NoRoom /\ Reply(Remaster(w5, r2, seats))
  <2>1. Good(w5)
    BY <1>4, <1>6, <1>7, <1>9, JoinRoomGood
  <2> HIDE DEF w5
  <2>2. Good(Remaster(w5, r2, seats))
    BY <1>6, <1>9, <2>1, RemasterGood
  <2> QED BY <1>9, <2>2, ReplyGood
<1>10. CASE FreeRooms(w2) # {} /\ Reply(Remaster(w4, r3, seats))
  <2>1. Good(w3) /\ r3 \in Elems(w3.rooms)
    BY <1>4, <1>7, <1>10, CreateRoomGood
  <2>2. r3 \in Room
    BY <2>1, GetRoomListed
  <2> HIDE DEF w3, r3
  <2>3. Good(ChangeRoomState(w3, r3, "GAME"))
    BY <2>1, ChangeRoomStateGood DEF RoomState
  <2>4. Good(w4)
    BY <2>1, <2>3
  <2> HIDE DEF w4
  <2>5. Good(Remaster(w4, r3, seats))
    BY <2>2, <2>4, RemasterGood
  <2> QED BY <1>10, <2>5, ReplyGood
<1> QED BY <1>1, <1>8, <1>9, <1>10

\* The periodic update and the restart.
LEMMA UpdateSteps ==
    ASSUME IInv
    PROVE  /\ \A p \in Player : UpdatePing(p) => IInv'
           /\ UpdateMatch => IInv'
           /\ UpdateCleanup => IInv'
           /\ UpdateEnd => IInv'
           /\ Restart => IInv'
<1>1. Good(World)
  BY WorldGood
<1>2. ASSUME NEW p \in Player, UpdatePing(p) PROVE IInv'
  BY <1>1, CloseGood, <1>2, ReplyGood DEF IInv, TypeOK, CPlayer, UpdatePing
<1>3. ASSUME UpdateMatch PROVE IInv'
  <2>1. PICK m \in Matching(World) : Commit(StartGame(World, m[1], m[2]))
    BY <1>3 DEF UpdateMatch
  <2>2. Good(StartGame(World, m[1], m[2]))
    BY <1>1, MatchingListed, StartGameGood
  <2> QED BY <1>3, <2>1, <2>2, WorldGood, CommitGood DEF UpdateMatch
<1>4. ASSUME UpdateCleanup PROVE IInv'
  <2> DEFINE r == FirstIn(rooms, Deserted(World), NoRoom)
  <2>1. /\ r # NoRoom
        /\ \/ Commit(DropRoom(World, r)) /\ pc' = "update" /\ UNCHANGED <<recv, client>>
           \/ Crash
    BY <1>4 DEF UpdateCleanup
  <2>2. r \in Deserted(World)
    BY <2>1, FirstInElems
  <2>3. r \in Room
    BY <1>1, <2>2, ElemsTyped DEF Deserted, Good, WorldType
  <2> HIDE DEF r
  <2>4. Good(DropRoom(World, r))
    BY <1>1, <2>3, DropRoomGood
  <2>5. CASE Crash
    BY <2>5, CrashGood
  <2>6. CASE Commit(DropRoom(World, r)) /\ pc' = "update" /\ UNCHANGED <<recv, client>>
    BY <2>4, <2>6, WorldGood, CommitGood
  <2> QED BY <2>1, <2>5, <2>6
<1>5. ASSUME UNCHANGED <<data, recv, client>>, pc' = "run" PROVE IInv'
  BY <1>5, <1>1, WorldGood, CommitGood DEF data, Commit, World
<1>6. UpdateEnd => IInv'
  BY <1>5 DEF UpdateEnd
<1>7. Restart => IInv'
  BY <1>5 DEF Restart
<1> QED BY <1>2, <1>3, <1>4, <1>6, <1>7

\* The invariant holds at the start,
LEMMA InitGood == Init => IInv
<1> SUFFICES ASSUME Init PROVE IInv
  OBVIOUS
<1>1. Fresh \in WorldType /\ ListsAgree(Fresh)
  BY FreshGood DEF Good
<1>2. TypeOK
  BY <1>1 DEF Init, TypeOK, WorldType, RoomState, SockState
<1>3. RoomListsOK /\ Distinct(rooms)
  BY <1>1 DEF Init, ListsAgree, InState, RoomListsOK, ListedRooms
<1> QED BY <1>2, <1>3 DEF IInv

\* and every step preserves it.
LEMMA NextGood == IInv /\ [Next]_vars => IInv'
<1> SUFFICES ASSUME IInv, [Next]_vars PROVE IInv'
  OBVIOUS
<1>1. CASE UNCHANGED vars
  BY <1>1, WorldGood, CommitGood DEF vars, Commit, World
<1>2. CASE Next
  BY <1>2, ConnectStep, SocketSteps, OnCloseMessageStep, PartySteps, DebugSteps, EndGameStep,
     ReconnectServerStep, UpdateSteps DEF Next
<1> QED BY <1>1, <1>2

\* The inductive invariant holds in every reachable state.
THEOREM Inductive == Spec => []IInv
  BY InitGood, NextGood, PTL DEF Spec

\* The types of the C++ declarations hold for any numbers of players, rooms, sockets and
\* clients, whatever of the requests happen and whether sockets are reused or not.
THEOREM TypeCorrect == Spec => []TypeOK
<1>1. IInv => TypeOK
  BY DEF IInv
<1> QED BY <1>1, Inductive, PTL

\* matchRooms and gameRooms are exactly the rooms of the list whose state is READY
\* and GAME, after any sequence of requests, closes, timeouts and matches.
THEOREM RoomListsCorrect == Spec => []RoomListsOK
<1>1. IInv => RoomListsOK
  BY DEF IInv
<1> QED BY <1>1, Inductive, PTL

-----------------------------------------------------------------------------
(***************************************************************************)
(* A room that waits for a match is never empty.  Above it is shown which  *)
(* rooms wait; here every operation is followed to see what it does to the *)
(* seats of those rooms.                                                   *)
(***************************************************************************)
Nonempty(w, r) == \E i \in Slots : w.slot[r][i] # NoPlayer
NoEmptyMatch(w) == \A r \in w.matchRooms : Nonempty(w, r)

\* The rooms that wait in v, r left out, waited in w with the same players.
KeptBut(v, w, r) == \A q \in v.matchRooms \ {r} : q \in w.matchRooms /\ v.slot[q] = w.slot[q]
Kept(v, w) == \A q \in v.matchRooms : q \in w.matchRooms /\ v.slot[q] = w.slot[q]

\* What to show of an operation: other waiting rooms keep their seats.
LEMMA KeptNoEmpty ==
    ASSUME NEW w, NEW v, NoEmptyMatch(w),
           Kept(v, w) \/ \E r : KeptBut(v, w, r) /\ Nonempty(v, r)
    PROVE  NoEmptyMatch(v)
  BY DEF Kept, KeptBut, NoEmptyMatch, Nonempty

\* The player count of a room is positive when a seat is taken.
LEMMA CountNonempty ==
    ASSUME NEW w, NEW r
    PROVE  GetPlayerCount(w, r) \in Nat /\ (GetPlayerCount(w, r) > 0 <=> Nonempty(w, r))
  BY CountPlayers DEF Nonempty, Slots, MAX_PLAYER

\* A room with a connected player is not empty.
LEMMA ConnectedNonempty ==
    ASSUME NEW w, NEW r, GetNotLostedPlayerCount(w, r) # 0
    PROVE  Nonempty(w, r)
  BY FS_EmptySet DEF GetNotLostedPlayerCount, NotLost, Nonempty

(***************************************************************************)
(* What the basic operations do to the waiting rooms.                      *)
(***************************************************************************)
LEMMA CloseKept ==
    ASSUME NEW w, Good(w), NEW s
    PROVE  Kept(Close(w, s), w)
  BY DEF Kept, Close, Good, WorldType

\* RemovePlayer changes no seat,
LEMMA RemovePlayerKept ==
    ASSUME NEW w, Good(w), NEW p
    PROVE  Kept(RemovePlayer(w, p), w)
  BY DEF Kept, RemovePlayer, Good, WorldType

\* nor does writing the fields of players.
LEMMA InfoKept ==
    ASSUME NEW w, Good(w), NEW in
    PROVE  Kept([w EXCEPT !.info = in], w)
  BY DEF Kept, Good, WorldType

\* Writing the seats of one room changes no other.
LEMMA SlotKept ==
    ASSUME NEW w, Good(w), NEW r, NEW seats
    PROVE  /\ KeptBut([w EXCEPT !.slot[r] = seats], w, r)
           /\ r \in Room => [w EXCEPT !.slot[r] = seats].slot[r] = seats
           /\ [w EXCEPT !.slot[r] = seats].matchRooms = w.matchRooms
  BY DEF KeptBut, Good, WorldType

\* A deleted room waits no more, the others keep their seats.
LEMMA DeleteRoomKept ==
    ASSUME NEW w, Good(w), NEW r
    PROVE  Kept(DeleteRoom(w, r), w) /\ r \notin DeleteRoom(w, r).matchRooms
  BY DEF Kept, DeleteRoom, Good, WorldType

\* A new room does not wait.
LEMMA CreateRoomKept ==
    ASSUME NEW w, Good(w), NEW p
    PROVE  Kept(CreateRoom(w, p), w)
<1> DEFINE r == NewRoom(w)
<1>1. CASE FreeRooms(w) = {}
  BY <1>1 DEF CreateRoom, Kept
<1>2. CASE FreeRooms(w) # {}
  <2>1. r \in Room /\ r \notin Elems(w.rooms)
    BY <1>2 DEF NewRoom, FreeRooms
  <2>2. r \notin w.matchRooms
    BY <2>1 DEF Good, ListsAgree, InState
  <2>3. CreateRoom(w, p) = [w EXCEPT !.rooms = Append(w.rooms, r),
                                     !.slot[r] = [NoSeats EXCEPT ![0] = p],
                                     !.state[r] = "LOBBY"]
    BY <1>2 DEF CreateRoom
  <2> HIDE DEF r
  <2> QED BY <2>1, <2>2, <2>3 DEF Kept, Good, WorldType
<1> QED BY <1>1, <1>2

\* The seats stay; only the room itself may start to wait, and only to be READY.
LEMMA ChangeRoomStateKept ==
    ASSUME NEW w, Good(w), NEW r, NEW st
    PROVE  /\ ChangeRoomState(w, r, st).slot = w.slot
           /\ KeptBut(ChangeRoomState(w, r, st), w, r)
           /\ st # "READY" => /\ Kept(ChangeRoomState(w, r, st), w)
                              /\ r \notin ChangeRoomState(w, r, st).matchRooms
<1> DEFINE v == ChangeRoomState(w, r, st)
<1>1. CASE w.state[r] = st
  BY <1>1 DEF ChangeRoomState, Kept, KeptBut, Good, ListsAgree, InState
<1>2. CASE w.state[r] # st
  <2> DEFINE mr == CASE st = "READY" -> w.matchRooms \cup {r}
                     [] st = "GAME"  -> w.matchRooms \ {r}
                     [] OTHER -> IF w.state[r] = "READY" THEN w.matchRooms \ {r} ELSE w.matchRooms
             gr == CASE st = "GAME" -> w.gameRooms \cup {r}
                     [] OTHER -> IF st = "LOBBY" /\ w.state[r] = "GAME" THEN w.gameRooms \ {r} ELSE w.gameRooms
             u == [w EXCEPT !.matchRooms = mr, !.gameRooms = gr]
  <2>1. v = SetState(u, r, st)
    BY <1>2 DEF ChangeRoomState
  <2>2. mr \subseteq w.matchRooms \cup {r} /\ (st # "READY" => mr \subseteq w.matchRooms /\ r \notin mr)
    BY DEF Good, ListsAgree, InState
  <2> HIDE DEF mr, gr
  <2>3. u.slot = w.slot /\ u.matchRooms = mr
    BY DEF Good, WorldType
  <2>4. SetState(u, r, st).slot = u.slot /\ SetState(u, r, st).matchRooms = u.matchRooms
    BY DEF SetState, Good, WorldType
  <2> HIDE DEF u, v
  <2> QED BY <2>1, <2>2, <2>3, <2>4 DEF Kept, KeptBut, v
<1> QED BY <1>1, <1>2

\* CheckAndRestateRoom changes no seat and may make its own room wait.
LEMMA CheckAndRestateRoomKept ==
    ASSUME NEW w, Good(w), NEW r
    PROVE  /\ CheckAndRestateRoom(w, r).slot = w.slot
           /\ KeptBut(CheckAndRestateRoom(w, r), w, r)
  BY ChangeRoomStateKept DEF CheckAndRestateRoom, KeptBut

(***************************************************************************)
(* The operations that the handlers are made of.                           *)
(***************************************************************************)
\* A room that loses its last player is deleted before anybody looks at it.
LEMMA LeaveRoomNoEmpty ==
    ASSUME NEW w, Good(w), NoEmptyMatch(w), NEW p
    PROVE  NoEmptyMatch(LeaveRoom(w, p))
<1> DEFINE r == GetRoom(w, p)
           u == [w EXCEPT !.slot[r] = Without(w.slot[r], p)]
           v == CheckAndRestateRoom(u, r)
<1>1. CASE r = NoRoom
  BY <1>1 DEF LeaveRoom
<1>2. CASE r # NoRoom
  <2>1. r \in Elems(w.rooms) /\ r \in Room
    BY <1>2, GetRoomListed
  <2>2. LeaveRoom(w, p) = IF GetPlayerCount(w, r) = 1 THEN DeleteRoom(w, r)
                          ELSE IF GetPlayerCount(v, r) = 0 THEN DeleteRoom(v, r) ELSE v
    BY <1>2 DEF LeaveRoom
  <2> HIDE DEF r
  <2>3. w.slot[r] \in Seats
    BY <2>1 DEF Good, WorldType
  <2>4. Good(u) /\ u.rooms = w.rooms
    BY <2>1, <2>3, SeatsTyped, SlotGood DEF SameRooms
  <2>5. KeptBut(u, w, r)
    BY SlotKept
  <2> HIDE DEF u
  <2>6. Good(v) /\ KeptBut(v, u, r)
    BY <2>1, <2>4, CheckAndRestateRoomGood, CheckAndRestateRoomKept
  <2> HIDE DEF v
  <2>7. KeptBut(v, w, r)
    BY <2>5, <2>6 DEF KeptBut
  <2>8. Kept(DeleteRoom(v, r), w)
    BY <2>6, <2>7, DeleteRoomKept DEF Kept, KeptBut
  <2>9. GetPlayerCount(v, r) # 0 => Nonempty(v, r)
    BY CountNonempty
  <2> QED BY <2>2, <2>7, <2>8, <2>9, DeleteRoomKept, KeptNoEmpty
<1> QED BY <1>1, <1>2

\* OutRoom leaves no empty room waiting: it deletes the one it empties.
LEMMA OutRoomNoEmpty ==
    ASSUME NEW w, Good(w), NoEmptyMatch(w), NEW p
    PROVE  Good(OutRoom(w, p)) /\ NoEmptyMatch(OutRoom(w, p))
  BY LeaveRoomGood, LeaveRoomNoEmpty, OutRoomGood DEF OutRoom

\* KickPlayer is OutRoom and CreateRoom.
LEMMA KickPlayerNoEmpty ==
    ASSUME NEW w, Good(w), NoEmptyMatch(w), NEW p \in Player
    PROVE  NoEmptyMatch(KickPlayer(w, p))
  BY OutRoomNoEmpty, CreateRoomKept, KeptNoEmpty DEF KickPlayer

\* AbsorbPlayer changes seats only through OutRoom.
LEMMA AbsorbPlayerNoEmpty ==
    ASSUME NEW w, Good(w), NoEmptyMatch(w), NEW p \in Player, NEW q \in Player
    PROVE  NoEmptyMatch(AbsorbPlayer(w, p, q))
<1> DEFINE w1 == OutRoom(w, p)
           w2 == IF w1.info[q].socket # NoSocket THEN Close(w1, w1.info[q].socket) ELSE w1
           st == IF GetGameRoom(w2, q) # NoRoom THEN "GAME" ELSE "LOBBY"
           in == [w2.info EXCEPT ![q].state = st, ![q].socket = w2.info[p].socket,
                                 ![p].socket = NoSocket]
           w3 == [w2 EXCEPT !.info = in]
           w4 == RemovePlayer(w3, p)
           w5 == [w4 EXCEPT !.players = Append(w4.players, q)]
<1>1. Good(w1) /\ NoEmptyMatch(w1)
  BY OutRoomNoEmpty
<1> HIDE DEF w1
<1>2. w1.info[q].socket \in Socket \cup {NoSocket}
  BY <1>1 DEF Good, WorldType, CPlayer
<1>3. Good(w2) /\ NoEmptyMatch(w2)
  BY <1>1, <1>2, CloseGood, CloseKept, KeptNoEmpty
<1> HIDE DEF w2
<1>4. st \in EGameState
  BY SMTT(60) DEF EGameState
<1>5. AbsorbPlayer(w, p, q) \in {w4, w5}
  <2>1. w3 = [w2 EXCEPT !.info[q].state = st, !.info[q].socket = w2.info[p].socket,
                        !.info[p].socket = NoSocket]
    BY <1>3 DEF Good, WorldType
  <2> QED BY <2>1 DEF AbsorbPlayer, Absorbed, w1, w2
<1> HIDE DEF st
<1>6. in \in [Player -> CPlayer]
  <2>1. w2.info \in [Player -> CPlayer]
    BY <1>3 DEF Good, WorldType
  <2> DEFINE in1 == [w2.info EXCEPT ![q].state = st]
             in2 == [in1 EXCEPT ![q].socket = w2.info[p].socket]
  <2>2. in1 \in [Player -> CPlayer]
    BY <1>4, <2>1 DEF CPlayer
  <2>3. w2.info[p].socket \in Socket \cup {NoSocket}
    BY <2>1 DEF CPlayer
  <2> HIDE DEF in1
  <2>4. in2 \in [Player -> CPlayer]
    BY <2>2, <2>3 DEF CPlayer
  <2> HIDE DEF in2
  <2>5. [in2 EXCEPT ![p].socket = NoSocket] \in [Player -> CPlayer]
    BY <2>4 DEF CPlayer
  <2> QED BY <2>5 DEF in2, in1
<1> HIDE DEF in
<1>7. Good(w3) /\ NoEmptyMatch(w3)
  BY <1>3, <1>6, InfoGood, InfoKept, KeptNoEmpty
<1> HIDE DEF w3
<1>8. Good(w4) /\ NoEmptyMatch(w4)
  BY <1>7, RemovePlayerGood, RemovePlayerKept, KeptNoEmpty
<1> HIDE DEF w4
<1>9. Kept(w5, w4)
  BY <1>8 DEF Good, WorldType, Kept
<1> QED BY <1>5, <1>8, <1>9, KeptNoEmpty

\* A taken seat more leaves no room empty.
LEMMA SeatTakenNoEmpty ==
    ASSUME NEW w, Good(w), NoEmptyMatch(w), NEW r \in Room, NEW i \in Slots, NEW p \in Player
    PROVE  NoEmptyMatch([w EXCEPT !.slot[r][i] = p])
<1> DEFINE seats == [w.slot[r] EXCEPT ![i] = p]
           v == [w EXCEPT !.slot[r] = seats]
<1>1. w.slot[r] \in Seats
  BY DEF Good, WorldType
<1>2. seats[i] # NoPlayer
  BY <1>1, NullAssumption DEF Seats
<1> HIDE DEF seats
<1>3. KeptBut(v, w, r) /\ v.slot[r] = seats
  BY SlotKept DEF Good, WorldType
<1> HIDE DEF v
<1>4. Nonempty(v, r)
  BY <1>2, <1>3 DEF Nonempty
<1>5. NoEmptyMatch(v)
  BY <1>3, <1>4, KeptNoEmpty
<1> QED BY <1>5 DEF v, seats

\* A room whose seats change places stays nonempty.
LEMMA SeatsSwappedNoEmpty ==
    ASSUME NEW w, Good(w), NoEmptyMatch(w), NEW r \in Room
    PROVE  NoEmptyMatch([w EXCEPT !.slot[r] = Swapped(w.slot[r])])
<1> DEFINE seats == Swapped(w.slot[r])
           v == [w EXCEPT !.slot[r] = seats]
<1> HIDE DEF seats
<1>1. KeptBut(v, w, r) /\ v.slot[r] = seats /\ v.matchRooms = w.matchRooms
  BY SlotKept DEF Good, WorldType
<1> HIDE DEF v
<1>2. Nonempty(w, r) => Nonempty(v, r)
  BY <1>1 DEF seats, Nonempty, Swapped, Slots, MAX_PLAYER
<1>3. NoEmptyMatch(v)
  BY <1>1, <1>2 DEF NoEmptyMatch, KeptBut, Nonempty
<1> QED BY <1>3 DEF v, seats

\* JoinRoom fills a seat or absorbs a player.
LEMMA JoinRoomNoEmpty ==
    ASSUME NEW w, Good(w), NoEmptyMatch(w), NEW r \in Room, NEW p \in Player
    PROVE  NoEmptyMatch(JoinRoom(w, r, p).world)
<1> DEFINE S == JoinSeats(w, r, p)
           i == CHOOSE i \in S : \A j \in S : i <= j
           q == w.slot[r][i]
<1>1. w.slot[r] \in Seats
  BY DEF Good, WorldType
<1>2. CASE S = {}
  BY <1>2 DEF JoinRoom
<1>3. CASE S # {}
  <2>1. S \in SUBSET {0, 1}
    BY DEF JoinSeats, Slots, MAX_PLAYER
  <2>2. \E x \in S : \A j \in S : x <= j
    BY <1>3, <2>1
  <2>3. i \in Slots
    BY <2>2 DEF JoinSeats
  <2>4. q \in Player \cup {NoPlayer}
    BY <1>1, <2>3, SeatsTyped
  <2>5. JoinRoom(w, r, p).world = IF q = NoPlayer THEN [w EXCEPT !.slot[r][i] = p]
                                  ELSE AbsorbPlayer(w, p, q)
    BY <1>3 DEF JoinRoom
  <2> HIDE DEF i, q
  <2>6. NoEmptyMatch([w EXCEPT !.slot[r][i] = p])
    BY <2>3, SeatTakenNoEmpty
  <2> QED BY <2>4, <2>5, <2>6, AbsorbPlayerNoEmpty
<1> QED BY <1>2, <1>3

\* _MoveRoomProc fills a seat or creates a room.
LEMMA MoveIntoNoEmpty ==
    ASSUME NEW w, Good(w), NoEmptyMatch(w), NEW r \in Room, NEW p \in Player
    PROVE  NoEmptyMatch(MoveInto(w, r, p))
<1> DEFINE i == CHOOSE i \in Slots : /\ w.slot[r][i] = NoPlayer
                                     /\ \A j \in 0 .. (i - 1) : w.slot[r][j] # NoPlayer
           u == [w EXCEPT !.slot[r][i] = p]
<1>1. ASSUME ~ \A x \in Slots : w.slot[r][x] # NoPlayer PROVE NoEmptyMatch(u)
  <2>1. Slots = {0, 1}
    BY DEF Slots, MAX_PLAYER
  <2>2. \E x \in Slots : /\ w.slot[r][x] = NoPlayer
                        /\ \A j \in 0 .. (x - 1) : w.slot[r][j] # NoPlayer
    BY <1>1, <2>1
  <2>3. i \in Slots
    BY <2>2
  <2> HIDE DEF i
  <2> QED BY <2>3, SeatTakenNoEmpty
<1>2. MoveInto(w, r, p) \in {w, CreateRoom(w, p)} \cup
        (IF \A x \in Slots : w.slot[r][x] # NoPlayer THEN {} ELSE {u})
  BY DEF MoveInto
<1>3. NoEmptyMatch(CreateRoom(w, p))
  BY CreateRoomKept, KeptNoEmpty
<1> HIDE DEF u
<1> QED BY <1>1, <1>2, <1>3

\* A room deleted with its players waits no more.
LEMMA DropRoomNoEmpty ==
    ASSUME NEW w, Good(w), NEW r \in Room, NoEmptyMatch(DeleteRoom(w, r))
    PROVE  NoEmptyMatch(DropRoom(w, r))
<1> DEFINE u == DeleteRoom(w, r)
           v == RemovePlayer(u, w.slot[r][0])
<1>1. Good(u)
  BY DeleteRoomGood
<1> HIDE DEF u
<1>2. Good(v) /\ NoEmptyMatch(v)
  BY <1>1, RemovePlayerGood, RemovePlayerKept, KeptNoEmpty DEF u
<1>3. DropRoom(w, r) = RemovePlayer(v, w.slot[r][1])
  BY DEF DropRoom, RemoveSeated, u
<1> HIDE DEF v
<1> QED BY <1>2, <1>3, RemovePlayerKept, KeptNoEmpty

\* DisconnectPlayer changes the seats of its room only.
LEMMA DisconnectPlayerKept ==
    ASSUME NEW w, Good(w), NEW r \in Elems(w.rooms), NEW p \in Player
    PROVE  KeptBut(DisconnectPlayer(w, r, p), w, r)
<1>1. r \in Room /\ w.slot[r] \in Seats /\ w.info \in [Player -> CPlayer]
  BY ElemsTyped DEF Good, WorldType
<1>2. CASE w.state[r] = "GAME"
  <2> DEFINE seats == IF w.slot[r][0] = p THEN Swapped(w.slot[r]) ELSE w.slot[r]
             u == [w EXCEPT !.slot[r] = seats]
             in == [u.info EXCEPT ![p].state = "ConnectionLost"]
  <2>1. seats \in Seats
    BY <1>1, SeatsTyped
  <2>2. DisconnectPlayer(w, r, p) = [u EXCEPT !.info = in]
    BY <1>2 DEF DisconnectPlayer
  <2> HIDE DEF seats
  <2>3. Good(u) /\ KeptBut(u, w, r)
    BY <1>1, <2>1, SlotGood, SlotKept
  <2> HIDE DEF u, in
  <2>4. Kept([u EXCEPT !.info = in], u)
    BY <2>3, InfoKept
  <2> QED BY <2>2, <2>3, <2>4 DEF Kept, KeptBut
<1>3. CASE w.state[r] # "GAME"
  <2> DEFINE seats == Without(Without(w.slot[r], p), p)
             u == [w EXCEPT !.slot[r] = seats]
  <2>1. seats \in Seats
    BY <1>1, SeatsTyped
  <2>2. DisconnectPlayer(w, r, p) = CheckAndRestateRoom(u, r)
    BY <1>3 DEF DisconnectPlayer
  <2> HIDE DEF seats
  <2>3. Good(u) /\ KeptBut(u, w, r)
    BY <1>1, <2>1, SlotGood, SlotKept
  <2> HIDE DEF u
  <2>4. KeptBut(CheckAndRestateRoom(u, r), u, r)
    BY <2>3, CheckAndRestateRoomKept
  <2> QED BY <2>2, <2>3, <2>4 DEF KeptBut
<1> QED BY <1>2, <1>3

\* DisconnectRoom: who counts more than one connected player closes up one seat.
LEMMA DisconnectRoomNoEmpty ==
    ASSUME NEW w, Good(w), NoEmptyMatch(w), NEW p \in Player
    PROVE  NoEmptyMatch(DisconnectRoom(w, p))
<1> DEFINE r == GetConnectedRoom(w, p)
           v == DisconnectPlayer(w, r, p)
<1>1. DisconnectRoom(w, p) =
        IF r = NoRoom THEN RemovePlayer(w, p)
        ELSE IF GetNotLostedPlayerCount(w, r) <= 1 THEN DropRoom(w, r)
        ELSE IF GetNotLostedPlayerCount(v, r) = 0 THEN DropRoom(v, r) ELSE v
  BY DEF DisconnectRoom
<1>2. r = NoRoom \/ (r \in Elems(w.rooms) /\ r \in Room)
  BY GetRoomListed
<1> HIDE DEF r
<1>3. CASE r = NoRoom
  BY <1>1, <1>3, RemovePlayerKept, KeptNoEmpty
<1>4. CASE r # NoRoom
  <2>1. Good(v) /\ KeptBut(v, w, r)
    BY <1>2, <1>4, DisconnectPlayerGood, DisconnectPlayerKept
  <2> HIDE DEF v
  <2>2. NoEmptyMatch(DropRoom(w, r))
    BY <1>2, <1>4, DeleteRoomKept, KeptNoEmpty, DropRoomNoEmpty
  <2>3. Kept(DeleteRoom(v, r), w)
    BY <2>1, DeleteRoomKept DEF Kept, KeptBut
  <2>4. NoEmptyMatch(DropRoom(v, r))
    BY <1>2, <1>4, <2>1, <2>3, KeptNoEmpty, DropRoomNoEmpty
  <2>5. GetNotLostedPlayerCount(v, r) # 0 => NoEmptyMatch(v)
    BY <2>1, ConnectedNonempty, KeptNoEmpty
  <2> QED BY <1>1, <1>4, <2>2, <2>4, <2>5
<1> QED BY <1>3, <1>4

\* CreatePlayer changes no seat.
LEMMA CreatePlayerKept ==
    ASSUME NEW w, Good(w), NEW p, NEW s
    PROVE  Kept(CreatePlayer(w, p, s), w)
  BY DEF Kept, CreatePlayer, Good, WorldType

\* Writing the state of a player changes no seat.
LEMMA PlayerStateKept ==
    ASSUME NEW w, Good(w), NEW p, NEW st
    PROVE  Kept([w EXCEPT !.info[p].state = st], w)
<1> DEFINE in == [w.info EXCEPT ![p].state = st]
<1>1. Kept([w EXCEPT !.info = in], w)
  BY InfoKept
<1> QED BY <1>1

\* Evict changes the seats of its room, which is in a game.
LEMMA EvictKept ==
    ASSUME NEW w, Good(w), NEW r \in Room, NEW i \in Slots
    PROVE  KeptBut(Evict(w, r, i), w, r)
<1> DEFINE v == RemovePlayer(w, w.slot[r][i])
           seats == [v.slot[r] EXCEPT ![i] = NoPlayer]
           u == [v EXCEPT !.slot[r] = seats]
<1>1. Good(v) /\ Kept(v, w)
  BY RemovePlayerGood, RemovePlayerKept
<1>2. Evict(w, r, i) \in {w, u}
  BY DEF Evict
<1> HIDE DEF v, seats
<1>3. KeptBut(u, v, r)
  BY <1>1, SlotKept
<1> HIDE DEF u
<1> QED BY <1>1, <1>2, <1>3 DEF Kept, KeptBut

\* Remaster swaps seats.
LEMMA RemasterNoEmpty ==
    ASSUME NEW w, Good(w), NoEmptyMatch(w), NEW r \in Room, NEW seats
    PROVE  NoEmptyMatch(Remaster(w, r, seats))
  BY SeatsSwappedNoEmpty DEF Remaster

\* A game room waits no more.
LEMMA StartGameNoEmpty ==
    ASSUME NEW w, Good(w), NoEmptyMatch(w),
           NEW i \in Elems(w.rooms), NEW j \in Elems(w.rooms), Matches(w, i, j)
    PROVE  NoEmptyMatch(StartGame(w, i, j))
<1> DEFINE u == Merged(w, i, j)
           v == IF i = j THEN w ELSE DeleteRoom(u, j)
           x == ChangeRoomState(v, i, "GAME")
<1>1. KeptBut(u, w, i)
  BY SlotKept DEF Merged
<1>2. Good(v) /\ KeptBut(v, w, i)
  <2>1. CASE i = j
    BY <2>1 DEF KeptBut
  <2>2. CASE i # j
    <3>1. Good(u) /\ j \in Room
      BY <2>2, MergedGood, ElemsTyped DEF Good, WorldType
    <3> HIDE DEF u
    <3>2. Good(DeleteRoom(u, j)) /\ Kept(DeleteRoom(u, j), u)
      BY <3>1, DeleteRoomGood, DeleteRoomKept
    <3> QED BY <1>1, <2>2, <3>2 DEF Kept, KeptBut
  <2> QED BY <2>1, <2>2
<1> HIDE DEF v
<1>3. Kept(x, v) /\ i \notin x.matchRooms
  BY <1>2, ChangeRoomStateKept
<1>4. StartGame(w, i, j) = x
  BY DEF StartGame, v
<1> HIDE DEF x
<1>5. Kept(x, w)
  BY <1>2, <1>3 DEF Kept, KeptBut
<1> QED BY <1>4, <1>5, KeptNoEmpty

(***************************************************************************)
(* Every step of the specification.                                        *)
(***************************************************************************)
\* WaitingRoomsNotEmpty in terms of the variables.
Waiting == \A r \in matchRooms : \E i \in Slots : slot[r][i] # NoPlayer

\* The invariant about the current world.
LEMMA WorldNoEmpty ==
    ASSUME Waiting
    PROVE  NoEmptyMatch(World)
  BY DEF Waiting, NoEmptyMatch, Nonempty, World

\* A step that commits such a world preserves the invariant.
LEMMA CommitNoEmpty ==
    ASSUME NEW w, NoEmptyMatch(w), Commit(w)
    PROVE  Waiting'
  BY DEF Waiting, NoEmptyMatch, Nonempty, Commit

\* After a crash no room waits.
LEMMA CrashNoEmpty ==
    ASSUME Crash
    PROVE  Waiting'
  BY DEF Crash, Commit, Fresh, Waiting

\* Identifying a connection.
LEMMA IdentifiedNoEmpty ==
    ASSUME IInv, Waiting, NEW id \in SteamID \cup {NoID}, NEW me \in Player
    PROVE  NoEmptyMatch(Identified(id, me).world)
<1> DEFINE old == GetPlayerById(World, id)
           absorbs == old # NoPlayer /\ info[old].socket # info[me].socket
           who == IF absorbs THEN old ELSE me
           w == IF absorbs THEN AbsorbPlayer(World, me, old) ELSE World
           in == [w.info EXCEPT ![who].steamID = id]
           u == [w EXCEPT !.info = in]
<1>1. Identified(id, me).world = u
  BY DEF Identified
<1>2. Good(World) /\ NoEmptyMatch(World) /\ (old # NoPlayer => old \in Player)
  BY WorldGood, WorldNoEmpty, GetPlayerListed
<1> HIDE DEF old
<1>3. Good(w) /\ NoEmptyMatch(w)
  BY <1>2, AbsorbPlayerGood, AbsorbPlayerNoEmpty
<1> HIDE DEF w, who, in
<1> QED BY <1>1, <1>3, InfoKept, KeptNoEmpty

\* Connections, and the completions of the worker threads.
LEMMA SocketStepsWaiting ==
    ASSUME IInv, Waiting, NEW s \in Socket
    PROVE  /\ \A id \in SteamID : Connect(s, id) => Waiting'
           /\ RecvFails(s) => Waiting'
           /\ CloseDone(s) => Waiting'
<1>1. Good(World) /\ World \in WorldType /\ ListsAgree(World) /\ NoEmptyMatch(World)
  BY WorldGood, WorldNoEmpty DEF Good
<1>2. ASSUME NEW id \in SteamID, Connect(s, id) PROVE Waiting'
  <2> DEFINE u == [World EXCEPT !.sock[s] = "open"]
  <2>1. u \in WorldType /\ SameRooms(u, World) /\ Kept(u, World)
    BY <1>1 DEF WorldType, SockState, SameRooms, Kept
  <2>2. Good(u) /\ NoEmptyMatch(u)
    BY <1>1, <2>1, SameRoomsGood, KeptNoEmpty
  <2>3. PICK p \in pool : Commit(CreateRoom(CreatePlayer(u, p, s), p))
    BY <1>2 DEF Connect
  <2>4. p \in Player
    BY DEF IInv, TypeOK
  <2> HIDE DEF u
  <2>5. Good(CreatePlayer(u, p, s)) /\ NoEmptyMatch(CreatePlayer(u, p, s))
    BY <2>2, <2>4, CreatePlayerGood, CreatePlayerKept, KeptNoEmpty
  <2>6. NoEmptyMatch(CreateRoom(CreatePlayer(u, p, s), p))
    BY <2>5, CreateRoomKept, KeptNoEmpty
  <2> QED BY <2>3, <2>6, CommitNoEmpty
<1>3. ASSUME RecvFails(s) PROVE Waiting'
  BY <1>1, CloseKept, KeptNoEmpty, <1>3, CommitNoEmpty DEF RecvFails
<1>4. ASSUME CloseDone(s) PROVE Waiting'
  BY <1>4 DEF CloseDone, Commit, World, Waiting
<1> QED BY <1>2, <1>3, <1>4

\* A CLOSE message.
LEMMA OnCloseMessageWaiting ==
    ASSUME IInv, Waiting, OnCloseMessage
    PROVE  Waiting'
<1> DEFINE p == Me(Head(inbox))
           w == [World EXCEPT !.inbox = Tail(World.inbox)]
<1>1. /\ Good(World) /\ World \in WorldType /\ ListsAgree(World) /\ NoEmptyMatch(World)
      /\ World.inbox = inbox
  BY WorldGood, WorldNoEmpty DEF Good, World
<1>2. Tail(World.inbox) \in Seq(Socket \cup {NoSocket})
  BY <1>1 DEF WorldType, OnCloseMessage
<1>3. w \in WorldType /\ SameRooms(w, World) /\ Kept(w, World)
  BY <1>1, <1>2 DEF WorldType, SameRooms, Kept
<1>4. Good(w) /\ NoEmptyMatch(w)
  BY <1>1, <1>3, SameRoomsGood, KeptNoEmpty
<1>5. Commit(IF p = NoPlayer THEN w ELSE DisconnectRoom(w, p))
  BY DEF OnCloseMessage, Reply
<1>6. p # NoPlayer => p \in Player
  BY MeTyped
<1> HIDE DEF w, p
<1>7. NoEmptyMatch(IF p = NoPlayer THEN w ELSE DisconnectRoom(w, p))
  BY <1>4, <1>6, DisconnectRoomNoEmpty
<1> QED BY <1>5, <1>7, CommitNoEmpty

\* The requests of the lobby.
LEMMA PartyStepsWaiting ==
    ASSUME IInv, Waiting, NEW s \in Socket
    PROVE  /\ AnswerId(s) => Waiting'
           /\ \A id \in SteamID : InviteFriendAnswer(s, id) => Waiting'
           /\ SetPartyKing(s) => Waiting'
           /\ FriendKickRequest(s) => Waiting'
           /\ \A isOn \in BOOLEAN : MatchRequest(s, isOn) => Waiting'
<1> DEFINE me == Me(s)
           r == GetRoom(World, me)
<1>1. Good(World) /\ NoEmptyMatch(World) /\ (me # NoPlayer => me \in Player)
  BY WorldGood, WorldNoEmpty, MeTyped
<1>2. World.slot = slot /\ World.matchRooms = matchRooms
  BY DEF World
<1>3. r # NoRoom => r \in Elems(World.rooms) /\ r \in Room /\ World.slot[r] \in Seats /\ Nonempty(World, r)
  <2>1. r # NoRoom => r \in Elems(World.rooms) /\ r \in Room
    BY <1>1, GetRoomListed
  <2>2. r # NoRoom => r \in RoomsOf(World, me)
    BY FirstInElems DEF GetRoom
  <2>3. r # NoRoom => Nonempty(World, r)
    BY <2>2 DEF RoomsOf, Members, Nonempty
  <2> QED BY <1>1, <2>1, <2>3 DEF Good, WorldType
<1> HIDE DEF me, r
<1>4. ASSUME AnswerId(s) PROVE Waiting'
  BY <1>4, WorldGood, <1>1, IdentifiedNoEmpty, CommitNoEmpty DEF AnswerId, Receives, Reply, me
<1>5. ASSUME NEW id \in SteamID, InviteFriendAnswer(s, id) PROVE Waiting'
  <2> DEFINE q == GetRoom(World, GetPlayerById(World, id))
  <2>1. /\ me # NoPlayer
        /\ \/ Crash
           \/ q # NoRoom /\ Commit(MoveInto(OutRoom(World, me), q, me))
    BY <1>5 DEF InviteFriendAnswer, Receives, Reply, me
  <2>2. q # NoRoom => q \in Room
    BY <1>1, GetRoomListed
  <2> HIDE DEF q
  <2>3. Good(OutRoom(World, me)) /\ NoEmptyMatch(OutRoom(World, me))
    BY <1>1, OutRoomNoEmpty
  <2>4. q # NoRoom => NoEmptyMatch(MoveInto(OutRoom(World, me), q, me))
    BY <1>1, <2>1, <2>2, <2>3, MoveIntoNoEmpty
  <2> QED BY <2>1, <2>4, CommitNoEmpty, CrashNoEmpty
<1>6. ASSUME SetPartyKing(s) PROVE Waiting'
  <2>1. PICK i \in Slots \ {0} :
            /\ r # NoRoom /\ me # NoPlayer /\ slot[r][i] # NoPlayer
            /\ Commit([World EXCEPT !.slot[r] = [slot[r] EXCEPT ![0] = slot[r][i], ![i] = me]])
    BY <1>6 DEF SetPartyKing, Receives, Reply, me, r
  <2> DEFINE seats == [slot[r] EXCEPT ![0] = slot[r][i], ![i] = me]
             w == [World EXCEPT !.slot[r] = seats]
  <2>2. seats[i] # NoPlayer /\ i \in Slots
    BY <1>2, <1>3, <2>1 DEF Seats
  <2> HIDE DEF seats
  <2>3. KeptBut(w, World, r)
    BY <1>1, SlotKept
  <2>4. w.slot[r] = seats
    BY <1>1, <1>3, <2>1 DEF Good, WorldType
  <2>5. Commit(w)
    BY <2>1 DEF seats
  <2> HIDE DEF w
  <2>6. NoEmptyMatch(w)
    BY <1>1, <2>2, <2>3, <2>4, KeptNoEmpty DEF Nonempty
  <2> QED BY <2>5, <2>6, CommitNoEmpty
<1>7. ASSUME FriendKickRequest(s) PROVE Waiting'
  <2>1. PICK i \in Slots : /\ r # NoRoom /\ slot[r][i] # NoPlayer
                           /\ Commit(KickPlayer(World, slot[r][i]))
    BY <1>7 DEF FriendKickRequest, Reply, r, me
  <2>2. slot[r][i] \in Player
    BY <1>2, <1>3, <2>1, SeatsTyped
  <2> QED BY <1>1, <2>1, <2>2, KickPlayerNoEmpty, CommitNoEmpty
<1>8. ASSUME NEW isOn \in BOOLEAN, MatchRequest(s, isOn) PROVE Waiting'
  <2> DEFINE st == IF isOn THEN "READY" ELSE "LOBBY"
             u == [World EXCEPT !.info[me].state = st]
             v == CheckAndRestateRoom(u, r)
  <2>1. r # NoRoom /\ me # NoPlayer /\ Commit(v)
    BY <1>8 DEF MatchRequest, Receives, Reply, me, r
  <2>2. st \in EGameState
    BY DEF EGameState
  <2> HIDE DEF st
  <2>3. Good(u) /\ NoEmptyMatch(u)
    BY <1>1, <2>1, <2>2, PlayerStateGood, PlayerStateKept, KeptNoEmpty
  <2>4. u.slot = World.slot
    BY <1>1 DEF Good, WorldType
  <2> HIDE DEF u
  <2>5. KeptBut(v, u, r) /\ v.slot = u.slot
    BY <2>3, CheckAndRestateRoomKept
  <2> HIDE DEF v
  <2>6. Nonempty(v, r)
    BY <1>3, <2>1, <2>4, <2>5 DEF Nonempty
  <2> QED BY <2>1, <2>3, <2>5, <2>6, KeptNoEmpty, CommitNoEmpty
<1> QED BY <1>4, <1>5, <1>6, <1>7, <1>8 DEF me, r

\* The debug requests.
LEMMA DebugStepsWaiting ==
    ASSUME IInv, Waiting, NEW s \in Socket
    PROVE  /\ Debug_RoomStart(s) => Waiting'
           /\ Debug_GameStart(s) => Waiting'
<1> DEFINE me == Me(s)
           r == GetRoom(World, me)
           Joined(q) == JoinRoom(OutRoom(World, me), q, me).world
<1>1. Good(World) /\ NoEmptyMatch(World) /\ (me # NoPlayer => me \in Player)
  BY WorldGood, WorldNoEmpty, MeTyped
<1> HIDE DEF me, r
<1>2. ASSUME NEW q \in Room, me \in Player PROVE Good(Joined(q)) /\ NoEmptyMatch(Joined(q))
  BY <1>1, OutRoomNoEmpty, <1>2, JoinRoomGood, JoinRoomNoEmpty
<1> HIDE DEF Joined
<1>3. ASSUME Debug_RoomStart(s) PROVE Waiting'
  <2> DEFINE target == FirstIn(rooms, Open(World, Room, me), NoRoom)
  <2>1. me # NoPlayer /\ target # NoRoom /\ Commit(Joined(target))
    BY <1>3 DEF Debug_RoomStart, Receives, Reply, me, Joined
  <2>2. target \in Open(World, Room, me)
    BY <2>1, FirstInElems
  <2>3. target \in Room
    BY <2>2 DEF Open
  <2> HIDE DEF target
  <2> QED BY <1>1, <1>2, <2>1, <2>3, CommitNoEmpty
<1>4. ASSUME Debug_GameStart(s) PROVE Waiting'
  <2> DEFINE u(q) == [Joined(q) EXCEPT !.info[me].state = "GAME"]
             targets == Open(World, gameRooms, me)
  <2>1. /\ me # NoPlayer
        /\ \/ \E q \in targets : Commit(u(q))
           \/ Commit(ChangeRoomState(World, r, "GAME"))
    BY <1>4 DEF Debug_GameStart, Receives, Reply, me, r, Joined
  <2>2. targets \subseteq Room
    BY DEF Open, IInv, TypeOK
  <2> HIDE DEF targets
  <2>3. ASSUME NEW q \in targets, Commit(u(q)) PROVE Waiting'
    <3>1. Good(Joined(q)) /\ NoEmptyMatch(Joined(q))
      BY <1>1, <1>2, <2>1, <2>2
    <3>2. NoEmptyMatch(u(q))
      BY <3>1, PlayerStateKept, KeptNoEmpty
    <3> HIDE DEF u
    <3> QED BY <2>3, <3>2, CommitNoEmpty
  <2>4. NoEmptyMatch(ChangeRoomState(World, r, "GAME"))
    BY <1>1, ChangeRoomStateKept, KeptNoEmpty
  <2> QED BY <2>1, <2>3, <2>4, CommitNoEmpty
<1> QED BY <1>3, <1>4

\* The end of a game.
LEMMA EndGameWaiting ==
    ASSUME IInv, Waiting, NEW s \in Socket, InGame_EndGame(s)
    PROVE  Waiting'
<1> DEFINE r == GetGameRoom(World, Me(s))
           u == Evict(World, r, 0)
           v == Evict(u, r, 1)
           x == ChangeRoomState(v, r, "LOBBY")
<1>1. r # NoRoom /\ Commit(x)
  BY DEF InGame_EndGame, Reply
<1>2. Good(World) /\ NoEmptyMatch(World)
  BY WorldGood, WorldNoEmpty
<1>3. r \in Room
  BY <1>1, <1>2, GetRoomListed
<1> HIDE DEF r
<1>4. 0 \in Slots /\ 1 \in Slots
  BY DEF Slots, MAX_PLAYER
<1>5. Good(u) /\ KeptBut(u, World, r)
  BY <1>2, <1>3, <1>4, EvictGood, EvictKept
<1> HIDE DEF u
<1>6. Good(v) /\ KeptBut(v, u, r)
  BY <1>3, <1>4, <1>5, EvictGood, EvictKept
<1> HIDE DEF v
<1>7. Kept(x, v) /\ r \notin x.matchRooms
  BY <1>6, ChangeRoomStateKept
<1> HIDE DEF x
<1>8. Kept(x, World)
  BY <1>5, <1>6, <1>7 DEF Kept, KeptBut
<1> QED BY <1>1, <1>2, <1>8, KeptNoEmpty, CommitNoEmpty

\* A client that comes back to a restarted server.
LEMMA ReconnectServerWaiting ==
    ASSUME IInv, Waiting, NEW s \in Socket, NEW seats, NEW isGameRoom,
           InGame_ReconnectServer(s, seats, isGameRoom)
    PROVE  Waiting'
<1> DEFINE id == client[s]
           me == Me(s)
           w1 == Identified(id, me).world
           who == Identified(id, me).player
           r1 == GetGameRoom(w1, who)
           r2 == OldRoom(w1, id, seats)
           w2 == OutRoom(w1, who)
           r3 == NewRoom(w2)
           w3 == CreateRoom(w2, who)
           w4 == IF isGameRoom THEN ChangeRoomState(w3, r3, "GAME") ELSE w3
           w5 == JoinRoom(w2, r2, who).world
<1>1. /\ me # NoPlayer
      /\ \/ r1 # NoRoom /\ Commit(Remaster(w1, r1, seats))
         \/ r2 # NoRoom /\ Commit(Remaster(w5, r2, seats))
         \/ FreeRooms(w2) # {} /\ Commit(Remaster(w4, r3, seats))
  BY DEF InGame_ReconnectServer, Receives, Reply
<1>2. me # NoPlayer => me \in Player
  BY MeTyped
<1> HIDE DEF me
<1>3. id \in SteamID \cup {NoID}
  BY WorldGood
<1> HIDE DEF id
<1>4. Good(w1) /\ NoEmptyMatch(w1) /\ who \in Player
  BY <1>1, <1>2, <1>3, IdentifiedGood, IdentifiedNoEmpty
<1> HIDE DEF w1, who
<1>5. r1 # NoRoom => r1 \in Room
  BY <1>4, GetRoomListed
<1>6. r2 # NoRoom => r2 \in Room
  BY <1>4, GetRoomListed DEF OldRoom
<1>7. Good(w2) /\ NoEmptyMatch(w2)
  BY <1>4, OutRoomNoEmpty
<1> HIDE DEF r1, r2, w2
<1>8. r1 # NoRoom => NoEmptyMatch(Remaster(w1, r1, seats))
  BY <1>4, <1>5, RemasterNoEmpty
<1>9. ASSUME r2 # NoRoom PROVE NoEmptyMatch(Remaster(w5, r2, seats))
  <2>1. Good(w5) /\ NoEmptyMatch(w5)
    BY <1>4, <1>6, <1>7, <1>9, JoinRoomGood, JoinRoomNoEmpty
  <2> HIDE DEF w5
  <2> QED BY <1>6, <1>9, <2>1, RemasterNoEmpty
<1>10. ASSUME FreeRooms(w2) # {} PROVE NoEmptyMatch(Remaster(w4, r3, seats))
  <2>1. Good(w3) /\ r3 \in Elems(w3.rooms)
    BY <1>4, <1>7, <1>10, CreateRoomGood
  <2>2. NoEmptyMatch(w3)
    BY <1>7, CreateRoomKept, KeptNoEmpty
  <2>3. r3 \in Room
    BY <2>1, GetRoomListed
  <2> HIDE DEF w3, r3
  <2>4. Good(ChangeRoomState(w3, r3, "GAME")) /\ NoEmptyMatch(ChangeRoomState(w3, r3, "GAME"))
    BY <2>1, <2>2, ChangeRoomStateGood, ChangeRoomStateKept, KeptNoEmpty DEF RoomState
  <2>5. Good(w4) /\ NoEmptyMatch(w4)
    BY <2>1, <2>2, <2>4
  <2> HIDE DEF w4
  <2> QED BY <2>3, <2>5, RemasterNoEmpty
<1> QED BY <1>1, <1>8, <1>9, <1>10, CommitNoEmpty

\* The periodic update and the restart.
LEMMA UpdateStepsWaiting ==
    ASSUME IInv, Waiting
    PROVE  /\ \A p \in Player : UpdatePing(p) => Waiting'
           /\ UpdateMatch => Waiting'
           /\ UpdateCleanup => Waiting'
           /\ UpdateEnd => Waiting'
           /\ Restart => Waiting'
<1>1. Good(World) /\ NoEmptyMatch(World)
  BY WorldGood, WorldNoEmpty
<1>2. ASSUME NEW p \in Player, UpdatePing(p) PROVE Waiting'
  BY <1>1, CloseKept, KeptNoEmpty, <1>2, CommitNoEmpty DEF UpdatePing, Reply
<1>3. ASSUME UpdateMatch PROVE Waiting'
  <2>1. PICK m \in Matching(World) : Commit(StartGame(World, m[1], m[2]))
    BY <1>3 DEF UpdateMatch
  <2>2. NoEmptyMatch(StartGame(World, m[1], m[2]))
    BY <1>1, MatchingListed, StartGameNoEmpty
  <2> QED BY <2>1, <2>2, CommitNoEmpty
<1>4. ASSUME UpdateCleanup PROVE Waiting'
  <2> DEFINE r == FirstIn(rooms, Deserted(World), NoRoom)
  <2>1. r # NoRoom /\ (Commit(DropRoom(World, r)) \/ Crash)
    BY <1>4 DEF UpdateCleanup
  <2>2. r \in Deserted(World)
    BY <2>1, FirstInElems
  <2>3. r \in Room
    BY <1>1, <2>2, ElemsTyped DEF Deserted, Good, WorldType
  <2> HIDE DEF r
  <2>4. NoEmptyMatch(DropRoom(World, r))
    BY <1>1, <2>3, DeleteRoomKept, KeptNoEmpty, DropRoomNoEmpty
  <2> QED BY <2>1, <2>4, CommitNoEmpty, CrashNoEmpty
<1>5. UpdateEnd => Waiting'
  BY DEF UpdateEnd, data, Waiting
<1>6. Restart => Waiting'
  BY DEF Restart, data, Waiting
<1> QED BY <1>2, <1>3, <1>4, <1>5, <1>6

\* The invariant holds at the start,
LEMMA InitWaiting == Init => Waiting
  BY DEF Init, Fresh, Waiting

\* and every step preserves it.
LEMMA NextWaiting == IInv /\ Waiting /\ [Next]_vars => Waiting'
<1> SUFFICES ASSUME IInv, Waiting, [Next]_vars PROVE Waiting'
  OBVIOUS
<1>1. CASE UNCHANGED vars
  BY <1>1 DEF vars, Waiting
<1>2. CASE Next
  BY <1>2, SocketStepsWaiting, OnCloseMessageWaiting, PartyStepsWaiting, DebugStepsWaiting,
     EndGameWaiting, ReconnectServerWaiting, UpdateStepsWaiting DEF Next
<1> QED BY <1>1, <1>2

\* A room in matchRooms always has a player, even when recycled sockets and duplicate
\* closes have broken other invariants: so the combinations of rooms that TryMatching can
\* find for MAX_PLAYER = 2 are those of Matches.
THEOREM WaitingRoomsCorrect == Spec => []WaitingRoomsNotEmpty
<1>1. Spec => []Waiting
  BY InitWaiting, NextWaiting, Inductive, PTL DEF Spec
<1>2. Waiting => WaitingRoomsNotEmpty
  BY WorldNoEmpty, CountNonempty DEF NoEmptyMatch, WaitingRoomsNotEmpty, World
<1> QED BY <1>1, <1>2, PTL

(***************************************************************************)
(* What the logic thread keeps about players, sockets and seats fits       *)
(* together, for any constants, as long as a socket is not reused while a  *)
(* player holds it and the ping timeout does not close a socket twice.     *)
(*                                                                         *)
(* The invariant is Sound(World, recv).  Beside what is to be shown it     *)
(* says which CLOSE messages can still come for the socket of a player     *)
(* (Served): at most one while the player is connected, none once it is    *)
(* lost.  A second one would remove a player whose seat is kept.           *)
(***************************************************************************)
Lost(w, p) == w.info[p].state = "ConnectionLost"
Once(seq, s) == \A i, j \in DOMAIN seq : seq[i] = s /\ seq[j] = s => i = j

\* No CLOSE of s is waiting, and nothing is left that would post one.
Quiet(w, rc, s) == w.sock[s] = "free" /\ ~rc[s] /\ s \notin Elems(w.inbox)

\* The life of a socket posts one CLOSE, when it ends.
Served(w, rc, s) ==
    /\ w.sock[s] = "open" => s \notin Elems(w.inbox)
    /\ w.sock[s] = "closing" => ~rc[s] /\ s \notin Elems(w.inbox)
    /\ w.sock[s] = "free" => ~rc[s] /\ Once(w.inbox, s)

\* PlayersOK of a world.
Pooled(w) == w.pool = Player \ Elems(w.players) /\ Distinct(w.players)

\* One player per socket and per steam ID; a lost one hears of its socket no more.
Connected(w, rc) ==
    /\ \A p \in Elems(w.players) :
         /\ w.info[p].socket \in Socket
         /\ Served(w, rc, w.info[p].socket)
         /\ Lost(w, p) => Quiet(w, rc, w.info[p].socket)
    /\ \A p, q \in Elems(w.players) : w.info[p].socket = w.info[q].socket => p = q
    /\ \A p, q \in Elems(w.players) :
         w.info[p].steamID = w.info[q].steamID /\ w.info[p].steamID # NoID => p = q

\* SeatsOK and NoEmptyRoom of a world.
Seated(w) ==
    /\ \A r \in Elems(w.rooms), i \in Slots : w.slot[r][i] \in Elems(w.players) \cup {NoPlayer}
    /\ \A r, q \in Elems(w.rooms), i, j \in Slots :
         w.slot[r][i] = w.slot[q][j] /\ w.slot[r][i] # NoPlayer => r = q /\ i = j
    /\ \A r \in Elems(w.rooms) : Nonempty(w, r)

Sound(w, rc) == Good(w) /\ Pooled(w) /\ Connected(w, rc) /\ Seated(w)

\* No listed room has p in a seat.
Absent(w, p) == \A r \in Elems(w.rooms), i \in Slots : w.slot[r][i] # p

\* From w to v nobody joins or leaves the player manager, and nobody is lost.
SamePeople(v, w) ==
    /\ v.players = w.players
    /\ v.pool = w.pool
    /\ v.sock = w.sock
    /\ v.inbox = w.inbox
    /\ \A p \in Player : /\ v.info[p].socket = w.info[p].socket
                         /\ v.info[p].steamID = w.info[p].steamID
                         /\ Lost(v, p) => Lost(w, p)

LEMMA TwoSlots == Slots = {0, 1}
  BY DEF Slots, MAX_PLAYER

\* What a sound world says about the players and the seats it lists.
LEMMA SoundTyped ==
    ASSUME NEW w, NEW rc, Sound(w, rc)
    PROVE  /\ w \in WorldType /\ ListsAgree(w)
           /\ Elems(w.players) \subseteq Player /\ NoPlayer \notin Elems(w.players)
           /\ Elems(w.rooms) \subseteq Room /\ NoRoom \notin Elems(w.rooms)
           /\ \A r \in Room : w.slot[r] \in Seats
           /\ w.info \in [Player -> CPlayer]
  BY ElemsTyped, NullAssumption DEF Sound, Good, WorldType

\* The people of a room operation are those it found.
LEMMA SamePeopleConnected ==
    ASSUME NEW w, NEW rc, NEW v, Pooled(w), Connected(w, rc), SamePeople(v, w),
           Elems(w.players) \subseteq Player
    PROVE  Pooled(v) /\ Connected(v, rc)
  BY DEF Pooled, Connected, SamePeople, Served, Quiet

LEMMA SamePeopleTransitive ==
    ASSUME NEW u, NEW v, NEW w, SamePeople(u, v), SamePeople(v, w)
    PROVE  SamePeople(u, w)
  BY DEF SamePeople

\* Writing seats concerns no people and one room.
LEMMA SlotFields ==
    ASSUME NEW w, Good(w), NEW r \in Room, NEW seats \in Seats
    PROVE  /\ Good([w EXCEPT !.slot[r] = seats])
           /\ SamePeople([w EXCEPT !.slot[r] = seats], w)
           /\ [w EXCEPT !.slot[r] = seats].rooms = w.rooms
           /\ [w EXCEPT !.slot[r] = seats].state = w.state
           /\ [w EXCEPT !.slot[r] = seats].info = w.info
           /\ [w EXCEPT !.slot[r] = seats].slot = [w.slot EXCEPT ![r] = seats]
<1> DEFINE v == [w EXCEPT !.slot[r] = seats]
<1>1. Good(v)
  BY SlotGood
<1>2. /\ v.players = w.players /\ v.pool = w.pool /\ v.info = w.info /\ v.rooms = w.rooms
      /\ v.sock = w.sock /\ v.inbox = w.inbox /\ v.state = w.state
      /\ v.slot = [w.slot EXCEPT ![r] = seats]
  BY DEF Good, WorldType
<1> HIDE DEF v
<1>3. SamePeople(v, w)
  BY <1>2 DEF SamePeople, Lost
<1> QED BY <1>1, <1>2, <1>3 DEF v

(***************************************************************************)
(* The search loops find the first match if there is one.                  *)
(***************************************************************************)
LEMMA LeastNumber ==
    ASSUME NEW T, T \subseteq Nat, T # {}
    PROVE  \E x \in T : \A y \in T : x <= y
<1> DEFINE R == OpToRel(<, Nat)
<1>1. IsWellFoundedOn(R, Nat)
  BY NatLessThanWellFounded
<1>2. \A x, y \in Nat : y < x => <<y, x>> \in R
  BY DEF OpToRel
<1> HIDE DEF R
<1>3. PICK x \in T : \A y \in T : ~ (<<y, x>> \in R)
  BY <1>1, WFMin
<1>4. \A y \in T : ~ (y < x)
  BY <1>2, <1>3
<1> QED BY <1>3, <1>4

LEMMA FirstInFound ==
    ASSUME NEW T, NEW seq \in Seq(T), NEW S, NEW none, Elems(seq) \cap S # {}
    PROVE  FirstIn(seq, S, none) \in Elems(seq) \cap S
<1> DEFINE J == {i \in DOMAIN seq : seq[i] \in S}
           I == {i \in DOMAIN seq : seq[i] \in S /\ \A j \in 1 .. (i - 1) : seq[j] \notin S}
<1>1. DOMAIN seq = 1 .. Len(seq) /\ Len(seq) \in Nat
  BY LenProperties
<1>2. J \subseteq Nat /\ J # {}
  BY <1>1 DEF Elems
<1>3. PICK k \in J : \A j \in J : k <= j
  BY <1>2, LeastNumber
<1>4. k \in I
  BY <1>1, <1>3
<1>5. (CHOOSE i \in I : TRUE) \in I
  BY <1>4
<1>6. FirstIn(seq, S, none) = seq[CHOOSE i \in I : TRUE]
  BY <1>4 DEF FirstIn
<1> QED BY <1>5, <1>6 DEF Elems

(***************************************************************************)
(* Operations on rooms.                                                    *)
(***************************************************************************)
\* Seats are written soundly when they hold who was in the room or in no room, in one
\* seat each, and somebody.
LEMMA SeatsWritten ==
    ASSUME NEW w, NEW rc, Sound(w, rc), NEW r \in Elems(w.rooms), NEW seats \in Seats,
           \A i \in Slots : \/ seats[i] = NoPlayer
                            \/ \E j \in Slots : seats[i] = w.slot[r][j]
                            \/ seats[i] \in Elems(w.players) /\ Absent(w, seats[i]),
           \A i, j \in Slots : seats[i] = seats[j] /\ seats[i] # NoPlayer => i = j,
           \E i \in Slots : seats[i] # NoPlayer
    PROVE  Sound([w EXCEPT !.slot[r] = seats], rc)
<1> DEFINE v == [w EXCEPT !.slot[r] = seats]
<1>1. /\ r \in Room /\ Elems(w.players) \subseteq Player /\ Elems(w.rooms) \subseteq Room
      /\ w \in WorldType
  BY SoundTyped
<1>2. /\ Good(v) /\ SamePeople(v, w) /\ v.rooms = w.rooms
      /\ v.slot = [w.slot EXCEPT ![r] = seats]
  BY <1>1, SlotFields DEF Sound
<1> HIDE DEF v
<1>3. v.slot[r] = seats /\ \A q \in Elems(w.rooms) \ {r} : v.slot[q] = w.slot[q]
  BY <1>1, <1>2 DEF WorldType
<1>4. Pooled(v) /\ Connected(v, rc)
  BY <1>1, <1>2, SamePeopleConnected DEF Sound
<1>5. v.players = w.players
  BY <1>2 DEF SamePeople
<1>6. Seated(w)
  BY DEF Sound
<1>7. \A q \in Elems(v.rooms), i \in Slots : v.slot[q][i] \in Elems(v.players) \cup {NoPlayer}
  BY <1>2, <1>3, <1>5, <1>6 DEF Seated
<1>8. \A q, x \in Elems(v.rooms), i, j \in Slots :
         v.slot[q][i] = v.slot[x][j] /\ v.slot[q][i] # NoPlayer => q = x /\ i = j
  <2> SUFFICES ASSUME NEW q \in Elems(w.rooms), NEW x \in Elems(w.rooms), NEW i \in Slots, NEW j \in Slots,
                      v.slot[q][i] = v.slot[x][j], v.slot[q][i] # NoPlayer
               PROVE  q = x /\ i = j
    BY <1>2
  <2>1. ASSUME NEW y \in Elems(w.rooms) \ {r}, NEW k \in Slots, NEW n \in Slots,
               seats[k] = w.slot[y][n], seats[k] # NoPlayer
        PROVE  FALSE
    BY <1>6, <2>1 DEF Seated, Absent
  <2>2. CASE q = r /\ x = r
    BY <1>3, <2>2
  <2>3. CASE q = r /\ x # r
    BY <1>3, <2>1, <2>3
  <2>4. CASE q # r /\ x = r
    BY <1>3, <2>1, <2>4
  <2>5. CASE q # r /\ x # r
    BY <1>3, <1>6, <2>5 DEF Seated
  <2> QED BY <2>2, <2>3, <2>4, <2>5
<1>9. \A q \in Elems(v.rooms) : Nonempty(v, q)
  BY <1>2, <1>3, <1>6 DEF Seated, Nonempty
<1> QED BY <1>2, <1>4, <1>7, <1>8, <1>9 DEF Sound, Seated, v

\* A world with the rooms and seats of a sound one, and its people.
LEMMA SameSeatsSound ==
    ASSUME NEW w, NEW rc, Sound(w, rc), NEW v, Good(v), SamePeople(v, w),
           Elems(v.rooms) \subseteq Elems(w.rooms),
           \A r \in Elems(v.rooms) : v.slot[r] = w.slot[r]
    PROVE  Sound(v, rc)
  BY SoundTyped, SamePeopleConnected DEF Sound, SamePeople, Seated, Nonempty

\* A deleted room takes its seats with it; who sat there sits nowhere.
LEMMA DeleteRoomSound ==
    ASSUME NEW w, NEW rc, Sound(w, rc), NEW r \in Elems(w.rooms)
    PROVE  /\ Sound(DeleteRoom(w, r), rc)
           /\ SamePeople(DeleteRoom(w, r), w)
           /\ DeleteRoom(w, r).info = w.info
           /\ Elems(DeleteRoom(w, r).rooms) = Elems(w.rooms) \ {r}
           /\ \A q \in Elems(w.rooms) \ {r} : /\ DeleteRoom(w, r).slot[q] = w.slot[q]
                                              /\ DeleteRoom(w, r).state[q] = w.state[q]
           /\ \A i \in Slots : w.slot[r][i] # NoPlayer => Absent(DeleteRoom(w, r), w.slot[r][i])
<1> DEFINE v == DeleteRoom(w, r)
<1>1. r \in Room /\ w \in WorldType /\ Good(w) /\ Elems(w.rooms) \subseteq Room
  BY SoundTyped DEF Sound
<1>2. Good(v) /\ Elems(v.rooms) = Elems(w.rooms) \ {r}
  BY <1>1, DeleteRoomGood
<1>3. /\ v.players = w.players /\ v.pool = w.pool /\ v.info = w.info
      /\ v.sock = w.sock /\ v.inbox = w.inbox
      /\ v.slot = [w.slot EXCEPT ![r] = NoSeats]
      /\ v.state = [w.state EXCEPT ![r] = "LOBBY"]
  BY <1>1 DEF DeleteRoom, WorldType
<1> HIDE DEF v
<1>4. SamePeople(v, w)
  BY <1>3 DEF SamePeople, Lost
<1>5. \A q \in Elems(w.rooms) \ {r} : v.slot[q] = w.slot[q] /\ v.state[q] = w.state[q]
  BY <1>1, <1>3 DEF WorldType
<1>6. Sound(v, rc)
  BY <1>2, <1>4, <1>5, SameSeatsSound
<1>7. \A i \in Slots : w.slot[r][i] # NoPlayer => Absent(v, w.slot[r][i])
  BY <1>2, <1>5 DEF Sound, Seated, Absent
<1> QED BY <1>2, <1>3, <1>4, <1>5, <1>6, <1>7 DEF v

\* A new room is given to a player that is in no other.
LEMMA CreateRoomSound ==
    ASSUME NEW w, NEW rc, Sound(w, rc), NEW p \in Elems(w.players), Absent(w, p)
    PROVE  /\ Sound(CreateRoom(w, p), rc)
           /\ SamePeople(CreateRoom(w, p), w)
           /\ Elems(w.rooms) \subseteq Elems(CreateRoom(w, p).rooms)
<1> DEFINE v == CreateRoom(w, p)
           r == NewRoom(w)
           seats == [NoSeats EXCEPT ![0] = p]
<1>1. w \in WorldType /\ Good(w) /\ p \in Player /\ p # NoPlayer /\ Elems(w.rooms) \subseteq Room
  BY SoundTyped DEF Sound
<1>2. CASE FreeRooms(w) = {}
  BY <1>2 DEF CreateRoom, SamePeople
<1>3. CASE FreeRooms(w) # {}
  <2>1. r \in Room /\ r \notin Elems(w.rooms)
    BY <1>3 DEF NewRoom, FreeRooms
  <2>2. v = [w EXCEPT !.rooms = Append(w.rooms, r), !.slot[r] = seats, !.state[r] = "LOBBY"]
    BY <1>3 DEF CreateRoom
  <2>3. Good(v) /\ Elems(w.rooms) \subseteq Elems(v.rooms)
    BY <1>1, CreateRoomGood
  <2> HIDE DEF r
  <2>4. Elems(Append(w.rooms, r)) = Elems(w.rooms) \cup {r}
    BY <1>1, <2>1, AppendElems DEF WorldType
  <2>5. seats[0] = p /\ \A i \in Slots : i # 0 => seats[i] = NoPlayer
    BY TwoSlots DEF NoSeats
  <2> HIDE DEF seats, v
  <2>6. /\ v.players = w.players /\ v.pool = w.pool /\ v.info = w.info
        /\ v.sock = w.sock /\ v.inbox = w.inbox
        /\ v.rooms = Append(w.rooms, r)
        /\ v.slot = [w.slot EXCEPT ![r] = seats]
    BY <1>1, <2>2 DEF WorldType
  <2>7. SamePeople(v, w)
    BY <2>6 DEF SamePeople, Lost
  <2>8. Pooled(v) /\ Connected(v, rc)
    BY <2>7, SoundTyped, SamePeopleConnected DEF Sound
  <2>9. v.slot[r] = seats /\ \A q \in Elems(w.rooms) : v.slot[q] = w.slot[q]
    BY <1>1, <2>1, <2>6 DEF WorldType
  <2>10. Seated(w)
    BY DEF Sound
  <2>11. \A q \in Elems(v.rooms), i \in Slots : v.slot[q][i] \in Elems(v.players) \cup {NoPlayer}
    BY <2>4, <2>5, <2>6, <2>9, <2>10 DEF Seated
  <2>12. \A q, x \in Elems(v.rooms), i, j \in Slots :
            v.slot[q][i] = v.slot[x][j] /\ v.slot[q][i] # NoPlayer => q = x /\ i = j
    BY <1>1, <2>4, <2>5, <2>6, <2>9, <2>10 DEF Seated, Absent
  <2>13. \A q \in Elems(v.rooms) : Nonempty(v, q)
    BY <1>1, <2>5, <2>9, TwoSlots, <2>4, <2>6, <2>10 DEF Nonempty, Seated
  <2> QED BY <2>3, <2>7, <2>8, <2>11, <2>12, <2>13 DEF Sound, Seated, v
<1> QED BY <1>2, <1>3

\* The state of a room is news for its players, and none of them is lost by it.
LEMMA ChangeRoomStateSound ==
    ASSUME NEW w, NEW rc, Sound(w, rc), NEW r \in Elems(w.rooms), NEW st \in RoomState,
           w.state[r] = "GAME" => st # "READY"
    PROVE  /\ Sound(ChangeRoomState(w, r, st), rc)
           /\ SamePeople(ChangeRoomState(w, r, st), w)
           /\ ChangeRoomState(w, r, st).rooms = w.rooms
           /\ ChangeRoomState(w, r, st).slot = w.slot
<1> DEFINE v == ChangeRoomState(w, r, st)
<1>1. Good(w) /\ w \in WorldType
  BY SoundTyped DEF Sound
<1>2. Good(v) /\ v.rooms = w.rooms /\ v.slot = w.slot
  BY <1>1, ChangeRoomStateGood
<1>3. SamePeople(v, w)
  <2>1. CASE w.state[r] = st
    BY <2>1 DEF ChangeRoomState, SamePeople
  <2>2. CASE w.state[r] # st
    <3> DEFINE mr == CASE st = "READY" -> w.matchRooms \cup {r}
                       [] st = "GAME"  -> w.matchRooms \ {r}
                       [] OTHER -> IF w.state[r] = "READY" THEN w.matchRooms \ {r} ELSE w.matchRooms
               gr == CASE st = "GAME" -> w.gameRooms \cup {r}
                       [] OTHER -> IF st = "LOBBY" /\ w.state[r] = "GAME" THEN w.gameRooms \ {r} ELSE w.gameRooms
               u == [w EXCEPT !.matchRooms = mr, !.gameRooms = gr]
               in == [p \in Player |-> IF p \in Members(u, r) THEN [u.info[p] EXCEPT !.state = st] ELSE u.info[p]]
    <3>1. v = SetState(u, r, st)
      BY <2>2 DEF ChangeRoomState
    <3> HIDE DEF mr, gr
    <3>2. SetState(u, r, st) = [u EXCEPT !.state[r] = st, !.info = in]
      BY DEF SetState
    <3>3. /\ u.players = w.players /\ u.pool = w.pool /\ u.info = w.info
          /\ u.sock = w.sock /\ u.inbox = w.inbox
      BY <1>1 DEF WorldType
    <3>4. LET x == [u EXCEPT !.state[r] = st, !.info = in]
          IN  /\ x.players = u.players /\ x.pool = u.pool /\ x.info = in
              /\ x.sock = u.sock /\ x.inbox = u.inbox
      BY <1>1 DEF WorldType
    <3>5. u.info \in [Player -> CPlayer]
      BY <1>1, <3>3 DEF WorldType
    <3> HIDE DEF u
    <3>6. \A p \in Player : /\ in[p].socket = u.info[p].socket
                            /\ in[p].steamID = u.info[p].steamID
                            /\ in[p].state \in {u.info[p].state, st}
      BY <3>5 DEF CPlayer
    <3> HIDE DEF in
    <3>7. st # "ConnectionLost"
      BY DEF RoomState
    <3> QED BY <3>1, <3>2, <3>3, <3>4, <3>6, <3>7 DEF SamePeople, Lost
  <2> QED BY <2>1, <2>2
<1> HIDE DEF v
<1>4. Sound(v, rc)
  BY <1>2, <1>3, SameSeatsSound
<1> QED BY <1>2, <1>3, <1>4 DEF v

LEMMA CheckAndRestateRoomSound ==
    ASSUME NEW w, NEW rc, Sound(w, rc), NEW r \in Elems(w.rooms)
    PROVE  /\ Sound(CheckAndRestateRoom(w, r), rc)
           /\ SamePeople(CheckAndRestateRoom(w, r), w)
           /\ CheckAndRestateRoom(w, r).rooms = w.rooms
           /\ CheckAndRestateRoom(w, r).slot = w.slot
  BY ChangeRoomStateSound DEF SamePeople, CheckAndRestateRoom, RoomState

\* A room is found for p exactly when a listed one has it in a seat.
LEMMA GetRoomSeats ==
    ASSUME NEW w, Good(w), NEW p \in Player
    PROVE  /\ GetRoom(w, p) = NoRoom => Absent(w, p)
           /\ GetRoom(w, p) # NoRoom => /\ GetRoom(w, p) \in Elems(w.rooms)
                                        /\ \E i \in Slots : w.slot[GetRoom(w, p)][i] = p
           /\ Absent(w, p) => GetRoom(w, p) = NoRoom
<1> DEFINE r == GetRoom(w, p)
<1>1. w.rooms \in Seq(Room) /\ Elems(w.rooms) \subseteq Room /\ NoRoom \notin Elems(w.rooms)
  BY GetRoomListed DEF Good, WorldType
<1>2. r = FirstIn(w.rooms, RoomsOf(w, p), NoRoom)
  BY NullAssumption DEF GetRoom
<1>3. \A q \in Room : q \in RoomsOf(w, p) <=> \E i \in Slots : w.slot[q][i] = p
  BY NullAssumption DEF RoomsOf, Members
<1>4. r = NoRoom \/ (r \in Elems(w.rooms) /\ r \in RoomsOf(w, p))
  BY <1>2, FirstInElems
<1>5. ASSUME ~Absent(w, p) PROVE r # NoRoom
  BY <1>1, <1>3, <1>5, <1>2, FirstInFound DEF Absent
<1> HIDE DEF r
<1>6. r # NoRoom => r \in Elems(w.rooms) /\ \E i \in Slots : w.slot[r][i] = p
  BY <1>1, <1>3, <1>4
<1>7. Absent(w, p) => r = NoRoom
  BY <1>6 DEF Absent
<1> QED BY <1>5, <1>6, <1>7 DEF r

\* In a sound world p sits in one seat of one room.
LEMMA SoundSeat ==
    ASSUME NEW w, NEW rc, Sound(w, rc), NEW p \in Elems(w.players),
           NEW r \in Elems(w.rooms), NEW i \in Slots, w.slot[r][i] = p
    PROVE  /\ GetRoom(w, p) = r
           /\ \A j \in Slots : w.slot[r][j] = p => j = i
           /\ \A q \in Elems(w.rooms) \ {r}, j \in Slots : w.slot[q][j] # p
  BY SoundTyped, GetRoomSeats DEF Sound, Absent, Seated

\* What closing up a seat leaves: the other one moved to the front.
LEMMA WithoutSeat ==
    ASSUME NEW seats \in Seats, NEW p, NEW i \in Slots, seats[i] = p, p # NoPlayer,
           \A j \in Slots : seats[j] = p => j = i
    PROVE  /\ Without(seats, p)[0] = seats[1 - i]
           /\ Without(seats, p)[1] = NoPlayer
           /\ Without(Without(seats, p), p) = Without(seats, p)
<1> DEFINE S == Without(seats, p)
<1>1. SeatOf(seats, p) = i
  BY TwoSlots DEF SeatOf
<1>2. S = Pulled(seats, i)
  BY <1>1 DEF Without
<1>3. S[0] = seats[1 - i] /\ S[1] = NoPlayer
  BY <1>2, TwoSlots DEF Pulled, MAX_PLAYER
<1>4. ~ \E j \in Slots : S[j] = p
  BY <1>3, TwoSlots
<1> HIDE DEF S
<1>5. Without(S, p) = S
  BY <1>4 DEF Without
<1> QED BY <1>3, <1>5 DEF S

\* Where the players of a sound world are after p has left its room: p nowhere, every
\* other one where it was, in a room that is still listed.
Left(v, w, p) ==
    /\ Absent(v, p)
    /\ Elems(v.rooms) \subseteq Elems(w.rooms)
    /\ \A r \in Elems(v.rooms), i \in Slots :
         v.slot[r][i] = NoPlayer \/ \E j \in Slots : v.slot[r][i] = w.slot[r][j]
    /\ \A r \in Elems(w.rooms), i \in Slots :
         w.slot[r][i] \notin {p, NoPlayer} =>
             r \in Elems(v.rooms) /\ \E j \in Slots : v.slot[r][j] = w.slot[r][i]

LEMMA LeaveRoomSound ==
    ASSUME NEW w, NEW rc, Sound(w, rc), NEW p \in Elems(w.players)
    PROVE  /\ Sound(LeaveRoom(w, p), rc)
           /\ SamePeople(LeaveRoom(w, p), w)
           /\ Left(LeaveRoom(w, p), w, p)
<1> DEFINE r == GetRoom(w, p)
           S == Without(w.slot[r], p)
           u == [w EXCEPT !.slot[r] = S]
           v == CheckAndRestateRoom(u, r)
<1>1. p \in Player /\ p # NoPlayer /\ w \in WorldType /\ Good(w) /\ Elems(w.rooms) \subseteq Room
  BY SoundTyped DEF Sound
<1>2. CASE r = NoRoom
  BY <1>1, <1>2, GetRoomSeats DEF LeaveRoom, SamePeople, Left
<1>3. CASE r # NoRoom
  <2>1. LeaveRoom(w, p) = IF GetPlayerCount(w, r) = 1 THEN DeleteRoom(w, r)
                          ELSE IF GetPlayerCount(v, r) = 0 THEN DeleteRoom(v, r) ELSE v
    BY <1>3 DEF LeaveRoom
  <2>2. r \in Elems(w.rooms) /\ r \in Room /\ \E i \in Slots : w.slot[r][i] = p
    BY <1>1, <1>3, GetRoomSeats
  <2> HIDE DEF r
  <2>3. PICK i \in Slots : w.slot[r][i] = p
    BY <2>2
  <2>4. /\ \A j \in Slots : w.slot[r][j] = p => j = i
        /\ \A q \in Elems(w.rooms) \ {r}, j \in Slots : w.slot[q][j] # p
    BY <2>2, <2>3, SoundSeat
  <2>5. w.slot[r] \in Seats
    BY <1>1, <2>2 DEF WorldType
  <2>6. S[0] = w.slot[r][1 - i] /\ S[1] = NoPlayer /\ S \in Seats
    BY <1>1, <2>3, <2>4, <2>5, WithoutSeat, SeatsTyped
  <2>7. GetPlayerCount(w, r) = IF w.slot[r][1 - i] = NoPlayer THEN 1 ELSE 2
    BY <1>1, <2>3, CountPlayers, TwoSlots
  <2>8. 1 - i \in Slots /\ 1 - i # i /\ \A j \in Slots : j = i \/ j = 1 - i
    BY TwoSlots
  <2>9. CASE w.slot[r][1 - i] = NoPlayer
    <3> DEFINE x == DeleteRoom(w, r)
    <3>1. LeaveRoom(w, p) = x
      BY <2>1, <2>7, <2>9
    <3>2. /\ Sound(x, rc) /\ SamePeople(x, w) /\ Elems(x.rooms) = Elems(w.rooms) \ {r}
          /\ \A q \in Elems(w.rooms) \ {r} : x.slot[q] = w.slot[q]
      BY <2>2, DeleteRoomSound
    <3> HIDE DEF x
    <3>3. Left(x, w, p)
      BY <2>3, <2>4, <2>8, <2>9, <3>2 DEF Left, Absent
    <3> QED BY <3>1, <3>2, <3>3
  <2>10. CASE w.slot[r][1 - i] # NoPlayer
    <3> HIDE DEF S
    <3>1. Sound(u, rc)
      BY <2>6, <2>8, TwoSlots, <2>10, <2>2, SeatsWritten
    <3>2. /\ SamePeople(u, w) /\ u.rooms = w.rooms
          /\ u.slot = [w.slot EXCEPT ![r] = S]
      BY <1>1, <2>2, <2>6, SlotFields
    <3> HIDE DEF u
    <3>3. Sound(v, rc) /\ SamePeople(v, u) /\ v.rooms = u.rooms /\ v.slot = u.slot
      BY <2>2, <3>1, <3>2, CheckAndRestateRoomSound
    <3> HIDE DEF v
    <3>4. v.slot[r] = S /\ \A q \in Elems(w.rooms) \ {r} : v.slot[q] = w.slot[q]
      BY <1>1, <2>2, <3>2, <3>3 DEF WorldType
    <3>5. GetPlayerCount(v, r) # 0
      BY <2>6, <2>10, <3>4, CountPlayers
    <3>6. LeaveRoom(w, p) = v
      BY <2>1, <2>7, <2>10, <3>5
    <3>7. Absent(v, p)
      BY <1>1, <2>4, <2>6, <2>8, <3>2, <3>3, <3>4, TwoSlots DEF Absent
    <3>8. \A q \in Elems(v.rooms), j \in Slots :
            v.slot[q][j] = NoPlayer \/ \E k \in Slots : v.slot[q][j] = w.slot[q][k]
      BY <2>6, <2>8, <3>2, <3>3, <3>4, TwoSlots
    <3>9. \A q \in Elems(w.rooms), j \in Slots :
            w.slot[q][j] \notin {p, NoPlayer} =>
              q \in Elems(v.rooms) /\ \E k \in Slots : v.slot[q][k] = w.slot[q][j]
      <4> SUFFICES ASSUME NEW q \in Elems(w.rooms), NEW j \in Slots, w.slot[q][j] \notin {p, NoPlayer}
                   PROVE  q \in Elems(v.rooms) /\ \E k \in Slots : v.slot[q][k] = w.slot[q][j]
        OBVIOUS
      <4>1. CASE q = r
        BY <2>3, <2>8, <4>1, <2>6, <3>4, <3>2, <3>3, TwoSlots
      <4>2. CASE q # r
        BY <3>2, <3>3, <3>4, <4>2
      <4> QED BY <4>1, <4>2
    <3> QED BY <3>2, <3>3, <3>6, <3>7, <3>8, <3>9, SamePeopleTransitive DEF Left
  <2> QED BY <2>9, <2>10
<1> QED BY <1>2, <1>3

\* OutRoom is LeaveRoom: there is no second room to leave.
LEMMA OutRoomSound ==
    ASSUME NEW w, NEW rc, Sound(w, rc), NEW p \in Elems(w.players)
    PROVE  /\ OutRoom(w, p) = LeaveRoom(w, p)
           /\ Sound(OutRoom(w, p), rc)
           /\ SamePeople(OutRoom(w, p), w)
           /\ Left(OutRoom(w, p), w, p)
<1> DEFINE v == LeaveRoom(w, p)
<1>1. Sound(v, rc) /\ SamePeople(v, w) /\ Left(v, w, p)
  BY LeaveRoomSound
<1> HIDE DEF v
<1>2. p \in Player
  BY SoundTyped
<1>3. GetRoom(v, p) = NoRoom
  BY <1>1, <1>2, GetRoomSeats DEF Sound, Left
<1>4. LeaveRoom(v, p) = v
  BY <1>3 DEF LeaveRoom
<1> QED BY <1>1, <1>4 DEF OutRoom, v

(***************************************************************************)
(* Operations on players.                                                  *)
(***************************************************************************)
\* A player is gone soundly when it is in no seat any more, and no room lost its last.
LEMMA PlayerGone ==
    ASSUME NEW w, NEW rc, Sound(w, rc), NEW p \in Elems(w.players), NEW v, Good(v),
           v.players = Erase(w.players, p), v.pool = w.pool \cup {p},
           \A q \in Player \ {p} : v.info[q] = w.info[q],
           v.sock = w.sock, v.inbox = w.inbox, v.rooms = w.rooms,
           \A r \in Elems(w.rooms), i \in Slots : v.slot[r][i] \in {w.slot[r][i], NoPlayer} \ {p},
           \A r \in Elems(w.rooms) : Nonempty(v, r)
    PROVE  Sound(v, rc) /\ Elems(v.players) = Elems(w.players) \ {p}
<1>1. Elems(w.players) \subseteq Player /\ w.players \in Seq(Player)
  BY SoundTyped DEF WorldType
<1>2. Elems(v.players) = Elems(w.players) \ {p} /\ Distinct(v.players)
  BY <1>1, EraseElems DEF Sound, Pooled
<1>3. Pooled(v)
  BY <1>1, <1>2 DEF Sound, Pooled
<1>4. \A q \in Elems(v.players) : q \in Elems(w.players) /\ v.info[q] = w.info[q]
  BY <1>1, <1>2
<1>5. Connected(v, rc)
  BY <1>4 DEF Sound, Connected, Served, Quiet, Lost
<1>6. Seated(v)
  BY <1>2 DEF Sound, Seated
<1> QED BY <1>2, <1>3, <1>5, <1>6 DEF Sound

\* RemovePlayer, of a player that sits nowhere or is not listed.
LEMMA RemovePlayerSound ==
    ASSUME NEW w, NEW rc, Sound(w, rc), NEW p, Absent(w, p)
    PROVE  /\ Sound(RemovePlayer(w, p), rc)
           /\ SameRooms(RemovePlayer(w, p), w)
           /\ RemovePlayer(w, p).slot = w.slot
           /\ Elems(RemovePlayer(w, p).players) = Elems(w.players) \ {p}
           /\ RemovePlayer(w, p).sock = w.sock /\ RemovePlayer(w, p).inbox = w.inbox
           /\ \A q \in Player \ {p} : RemovePlayer(w, p).info[q] = w.info[q]
<1> DEFINE v == RemovePlayer(w, p)
<1>1. Good(w) /\ w \in WorldType /\ Elems(w.players) \subseteq Player
  BY SoundTyped DEF Sound
<1>2. CASE p \notin Elems(w.players)
  BY <1>2 DEF RemovePlayer, SameRooms
<1>3. CASE p \in Elems(w.players)
  <2>1. Good(v) /\ SameRooms(v, w)
    BY <1>1, RemovePlayerGood
  <2>2. v = [w EXCEPT !.players = Erase(w.players, p),
                      !.pool = w.pool \cup {p},
                      !.info[p] = IF \E r \in Elems(w.rooms) : p \in Members(w, r) THEN w.info[p] ELSE Blank]
    BY <1>3 DEF RemovePlayer
  <2> HIDE DEF v
  <2>3. /\ v.players = Erase(w.players, p) /\ v.pool = w.pool \cup {p}
        /\ v.sock = w.sock /\ v.inbox = w.inbox /\ v.rooms = w.rooms /\ v.slot = w.slot
        /\ \A q \in Player \ {p} : v.info[q] = w.info[q]
    BY <1>1, <2>2 DEF WorldType
  <2>4. /\ \A r \in Elems(w.rooms), i \in Slots : v.slot[r][i] \in {w.slot[r][i], NoPlayer} \ {p}
        /\ \A r \in Elems(w.rooms) : Nonempty(v, r)
    BY <2>3 DEF Absent, Sound, Seated, Nonempty
  <2>5. Sound(v, rc) /\ Elems(v.players) = Elems(w.players) \ {p}
    BY <1>3, <2>1, <2>3, <2>4, PlayerGone
  <2> QED BY <2>1, <2>3, <2>5 DEF v
<1> QED BY <1>2, <1>3

\* A room deleted with its players.
LEMMA DropRoomSound ==
    ASSUME NEW w, NEW rc, Sound(w, rc), NEW r \in Elems(w.rooms)
    PROVE  Sound(DropRoom(w, r), rc)
<1> DEFINE u == DeleteRoom(w, r)
           v == RemovePlayer(u, w.slot[r][0])
<1>1. /\ Sound(u, rc)
      /\ \A i \in Slots : w.slot[r][i] # NoPlayer => Absent(u, w.slot[r][i])
  BY DeleteRoomSound
<1>2. DropRoom(w, r) = RemovePlayer(v, w.slot[r][1])
  BY DEF DropRoom, RemoveSeated
<1> HIDE DEF u
<1>3. \A x : Sound(x, rc) => RemovePlayer(x, NoPlayer) = x
  BY SoundTyped DEF RemovePlayer
<1>4. Sound(v, rc) /\ v.slot = u.slot /\ v.rooms = u.rooms
  BY <1>1, <1>3, TwoSlots, RemovePlayerSound DEF SameRooms
<1> HIDE DEF v
<1>5. w.slot[r][1] # NoPlayer => Absent(v, w.slot[r][1])
  BY <1>1, <1>4, TwoSlots DEF Absent
<1> QED BY <1>2, <1>3, <1>4, <1>5, RemovePlayerSound

\* EndGame empties the seat of a lost player and removes it; someone else is in the room.
LEMMA EvictSound ==
    ASSUME NEW w, NEW rc, Sound(w, rc), NEW r \in Elems(w.rooms), NEW i \in Slots,
           NEW j \in Slots, w.slot[r][j] # NoPlayer, ~Lost(w, w.slot[r][j])
    PROVE  /\ Sound(Evict(w, r, i), rc)
           /\ Evict(w, r, i).rooms = w.rooms
           /\ Evict(w, r, i).slot[r][j] = w.slot[r][j]
           /\ Evict(w, r, i).info[w.slot[r][j]] = w.info[w.slot[r][j]]
<1> DEFINE p == w.slot[r][i]
           x == RemovePlayer(w, p)
           v == [x EXCEPT !.slot[r][i] = NoPlayer]
<1>1. Good(w) /\ w \in WorldType /\ Elems(w.players) \subseteq Player /\ r \in Room /\ w.slot[r] \in Seats
  BY SoundTyped DEF Sound
<1>2. CASE p = NoPlayer \/ ~Lost(w, p)
  BY <1>2 DEF Evict, Lost
<1>3. CASE p # NoPlayer /\ Lost(w, p)
  <2>1. Evict(w, r, i) = v /\ j # i
    BY <1>3 DEF Evict, Lost
  <2>2. Good(v) /\ SameRooms(v, w)
    BY <1>1, EvictGood, <2>1
  <2>3. p \in Elems(w.players)
    BY <1>3 DEF Sound, Seated
  <2> HIDE DEF p
  <2>4. x = [w EXCEPT !.players = Erase(w.players, p),
                      !.pool = w.pool \cup {p},
                      !.info[p] = IF \E q \in Elems(w.rooms) : p \in Members(w, q) THEN w.info[p] ELSE Blank]
    BY <2>3 DEF RemovePlayer
  <2> HIDE DEF x
  <2>5. /\ x.players = Erase(w.players, p) /\ x.pool = w.pool \cup {p}
        /\ x.sock = w.sock /\ x.inbox = w.inbox /\ x.rooms = w.rooms /\ x.slot = w.slot
        /\ \A q \in Player \ {p} : x.info[q] = w.info[q]
    BY <1>1, <2>4 DEF WorldType
  <2>6. /\ v.players = x.players /\ v.pool = x.pool /\ v.sock = x.sock /\ v.inbox = x.inbox
        /\ v.rooms = x.rooms /\ v.info = x.info
        /\ v.slot = [w.slot EXCEPT ![r] = [w.slot[r] EXCEPT ![i] = NoPlayer]]
    BY <1>1, RemovePlayerGood, <2>5 DEF x, Good, WorldType
  <2> HIDE DEF v
  <2>7. /\ v.slot[r][i] = NoPlayer
        /\ \A k \in Slots \ {i} : v.slot[r][k] = w.slot[r][k]
        /\ \A q \in Elems(w.rooms) \ {r} : v.slot[q] = w.slot[q]
    BY <1>1, <2>6, SoundTyped DEF WorldType, Seats
  <2>8. /\ \A k \in Slots : w.slot[r][k] = p => k = i
        /\ \A q \in Elems(w.rooms) \ {r}, k \in Slots : w.slot[q][k] # p
    BY <2>3, SoundSeat DEF p
  <2>9. p # NoPlayer
    BY <2>3, SoundTyped
  <2>10. \A q \in Elems(w.rooms), k \in Slots : v.slot[q][k] \in {w.slot[q][k], NoPlayer} \ {p}
    BY <2>7, <2>8, <2>9
  <2>11. \A q \in Elems(w.rooms) : Nonempty(v, q)
    BY <2>1, <2>7 DEF Sound, Seated, Nonempty
  <2>12. Sound(v, rc)
    <3>1. /\ v.players = Erase(w.players, p) /\ v.pool = w.pool \cup {p}
          /\ v.sock = w.sock /\ v.inbox = w.inbox /\ v.rooms = w.rooms
          /\ \A q \in Player \ {p} : v.info[q] = w.info[q]
      BY <2>5, <2>6
    <3>2. Good(v)
      BY <2>2
    <3> QED BY <2>3, <2>10, <2>11, <3>1, <3>2, PlayerGone
  <2>13. v.slot[r][j] = w.slot[r][j] /\ w.slot[r][j] \in Player \ {p}
    BY <1>1, SeatsTyped, <2>1, <2>7, <2>8
  <2> QED BY <2>1, <2>2, <2>5, <2>6, <2>12, <2>13 DEF SameRooms
<1> QED BY <1>2, <1>3

\* A list keeps one occurrence of y when another value is appended.
LEMMA AppendOnce ==
    ASSUME NEW T, NEW seq \in Seq(T), NEW x \in T, NEW y, y # x
    PROVE  /\ y \in Elems(Append(seq, x)) <=> y \in Elems(seq)
           /\ Once(seq, y) => Once(Append(seq, x), y)
  BY AppendElems, AppendProperties, LenProperties DEF Once

\* Closing a socket concerns no other socket.
LEMMA CloseFields ==
    ASSUME NEW w, Good(w), NEW s \in Socket
    PROVE  /\ Good(Close(w, s)) /\ SameRooms(Close(w, s), w)
           /\ Close(w, s).players = w.players /\ Close(w, s).pool = w.pool
           /\ Close(w, s).info = w.info /\ Close(w, s).slot = w.slot
           /\ \A x \in Socket \ {s} :
                /\ Close(w, s).sock[x] = w.sock[x]
                /\ x \in Elems(Close(w, s).inbox) <=> x \in Elems(w.inbox)
                /\ Once(w.inbox, x) => Once(Close(w, s).inbox, x)
           /\ w.sock[s] = "open" => /\ Close(w, s).sock = [w.sock EXCEPT ![s] = "closing"]
                                    /\ Close(w, s).inbox = w.inbox
<1> DEFINE v == Close(w, s)
<1>1. Good(v) /\ SameRooms(v, w)
  BY CloseGood
<1>2. w \in WorldType /\ w.inbox \in Seq(Socket \cup {NoSocket})
  BY DEF Good, WorldType
<1>3. v.players = w.players /\ v.pool = w.pool /\ v.info = w.info /\ v.slot = w.slot
  BY <1>2 DEF Close, WorldType
<1>4. CASE w.sock[s] = "open"
  <2>1. v.inbox = w.inbox /\ v.sock = [w.sock EXCEPT ![s] = "closing"]
    BY <1>2, <1>4 DEF Close, WorldType
  <2> HIDE DEF v
  <2>2. \A x \in Socket \ {s} : v.sock[x] = w.sock[x]
    BY <1>2, <2>1 DEF WorldType
  <2> QED BY <1>1, <1>3, <2>1, <2>2 DEF v
<1>5. CASE w.sock[s] # "open"
  <2>1. v.inbox = Append(w.inbox, s) /\ v.sock = w.sock
    BY <1>2, <1>5 DEF Close, WorldType
  <2> HIDE DEF v
  <2>2. \A x \in Socket \ {s} :
          /\ v.sock[x] = w.sock[x]
          /\ x \in Elems(v.inbox) <=> x \in Elems(w.inbox)
          /\ Once(w.inbox, x) => Once(v.inbox, x)
    BY <1>2, <2>1, AppendOnce
  <2> QED BY <1>1, <1>3, <1>5, <2>2 DEF v
<1> QED BY <1>4, <1>5

\* AbsorbPlayer: q goes on with the socket of p, and nothing is left of p.
LEMMA AbsorbPlayerSound ==
    ASSUME NEW w, NEW rc, Sound(w, rc),
           NEW p \in Elems(w.players), NEW q \in Elems(w.players), p # q
    PROVE  LET v == AbsorbPlayer(w, p, q)
               u == OutRoom(w, p)
           IN  /\ Sound(v, rc)
               /\ Elems(v.players) = Elems(w.players) \ {p}
               /\ v.rooms = u.rooms /\ v.slot = u.slot /\ v.state = u.state
               /\ \A x \in Player \ {p, q} : v.info[x] = u.info[x]
               /\ v.info[q].steamID = w.info[q].steamID
               /\ v.info[q].socket = w.info[p].socket
               /\ v.info[q].state = IF GetGameRoom(u, q) # NoRoom THEN "GAME" ELSE "LOBBY"
<1> DEFINE u == OutRoom(w, p)
           s == w.info[q].socket
           w2 == Close(u, s)
           st == IF GetGameRoom(w2, q) # NoRoom THEN "GAME" ELSE "LOBBY"
           w3 == [w2 EXCEPT !.info[q].state = st,
                            !.info[q].socket = w2.info[p].socket,
                            !.info[p].socket = NoSocket]
           w4 == RemovePlayer(w3, p)
           v == AbsorbPlayer(w, p, q)
<1>1. p \in Player /\ q \in Player /\ p # NoPlayer /\ q # NoPlayer
  BY SoundTyped
<1>2. Sound(u, rc) /\ SamePeople(u, w) /\ Absent(u, p)
  BY OutRoomSound DEF Left
<1> HIDE DEF u
<1>3. u.players = w.players /\ u.info[q].socket = s /\ u.info[p].socket = w.info[p].socket
  BY <1>1, <1>2 DEF SamePeople
<1>4. s \in Socket /\ w.info[p].socket \in Socket /\ w.info[p].socket # s
  BY DEF Sound, Connected
<1>5. s # NoSocket
  BY <1>4, NullAssumption
<1> HIDE DEF s
<1>6. /\ Good(w2) /\ SameRooms(w2, u)
      /\ w2.players = u.players /\ w2.pool = u.pool /\ w2.info = u.info /\ w2.slot = u.slot
      /\ \A x \in Socket \ {s} : /\ w2.sock[x] = u.sock[x]
                                 /\ x \in Elems(w2.inbox) <=> x \in Elems(u.inbox)
                                 /\ Once(u.inbox, x) => Once(w2.inbox, x)
  BY <1>2, <1>4, CloseFields DEF Sound
<1>7. v = IF GetPlayerById(w4, w4.info[q].steamID) = NoPlayer
          THEN [w4 EXCEPT !.players = Append(w4.players, q)] ELSE w4
  BY <1>3, <1>5 DEF AbsorbPlayer, Absorbed, u
<1>8. st = IF GetGameRoom(u, q) # NoRoom THEN "GAME" ELSE "LOBBY"
  BY <1>6 DEF GetGameRoom, GetRoom, RoomsOf, Members, SameRooms
<1> HIDE DEF w2, st
<1>9. st \in {"GAME", "LOBBY"} /\ st \in EGameState
  BY <1>8 DEF EGameState
<1>10. w2 \in WorldType /\ w2.info \in [Player -> CPlayer]
  BY <1>6 DEF Good, WorldType
<1> DEFINE in == [w2.info EXCEPT ![q].state = st,
                                 ![q].socket = w2.info[p].socket,
                                 ![p].socket = NoSocket]
<1>11. w3 = [w2 EXCEPT !.info = in]
  <2>1. w3 = Moved(w2, p, q, st, w2.info[p].socket) /\ in = MovedInfo(w2.info, p, q, st, w2.info[p].socket)
    BY DEF Moved, MovedInfo
  <2> HIDE DEF in, w3
  <2> QED BY <1>10, <2>1, InfoWritten
<1>12. in \in [Player -> CPlayer]
  BY <1>1, <1>9, <1>10, InfoMoved
<1>13. /\ in[q].steamID = w.info[q].steamID /\ in[q].socket = w.info[p].socket /\ in[q].state = st
       /\ \A x \in Player \ {p, q} : in[x] = u.info[x]
  <2> DEFINE in1 == [w2.info EXCEPT ![q].state = st]
             in2 == [in1 EXCEPT ![q].socket = w2.info[p].socket]
  <2>1. /\ in1 \in [Player -> CPlayer] /\ in1[q].steamID = w2.info[q].steamID /\ in1[q].state = st
        /\ \A x \in Player \ {q} : in1[x] = w2.info[x]
    BY <1>1, <1>9, <1>10 DEF CPlayer
  <2> HIDE DEF in1
  <2>2. /\ in2 \in [Player -> CPlayer]
        /\ in2[q].steamID = in1[q].steamID /\ in2[q].state = in1[q].state
        /\ in2[q].socket = w2.info[p].socket
        /\ \A x \in Player \ {q} : in2[x] = in1[x]
    BY <1>1, <1>10, <2>1 DEF CPlayer
  <2> HIDE DEF in2
  <2>3. \A x \in Player \ {p} : in[x] = in2[x]
    BY <1>1, <2>2 DEF in2, in1
  <2> HIDE DEF in
  <2> QED BY <1>1, <1>2, <1>3, <1>6, <2>1, <2>2, <2>3 DEF SamePeople
<1> HIDE DEF in, w3
<1>14. Good(w3) /\ SameRooms(w3, w2)
  BY <1>6, <1>11, <1>12, InfoGood
<1>15. /\ w3.players = u.players /\ w3.pool = u.pool /\ w3.info = in /\ w3.slot = u.slot
       /\ w3.rooms = u.rooms /\ w3.state = u.state
       /\ w3.sock = w2.sock /\ w3.inbox = w2.inbox
  BY <1>10, <1>11, <1>6, <1>14 DEF WorldType, SameRooms
<1>16. w3 \in WorldType
  BY <1>14 DEF Good
<1>17. Good(w4) /\ SameRooms(w4, w3)
  BY <1>14, RemovePlayerGood
<1>18. /\ w4.players = Erase(u.players, p) /\ w4.pool = u.pool \cup {p}
       /\ w4.sock = w2.sock /\ w4.inbox = w2.inbox /\ w4.slot = u.slot
       /\ w4.rooms = u.rooms /\ w4.state = u.state
       /\ \A x \in Player \ {p} : w4.info[x] = in[x]
  <2>1. w4 = [w3 EXCEPT !.players = Erase(w3.players, p),
                        !.pool = w3.pool \cup {p},
                        !.info[p] = IF \E r \in Elems(w3.rooms) : p \in Members(w3, r)
                                    THEN w3.info[p] ELSE Blank]
    BY <1>3, <1>15 DEF RemovePlayer
  <2> HIDE DEF w4
  <2> QED BY <1>15, <1>16, <2>1 DEF WorldType
<1> HIDE DEF w4
<1>19. Elems(w4.players) = Elems(u.players) \ {p} /\ Distinct(w4.players)
  BY <1>2, SoundTyped, <1>18, EraseElems DEF Sound, Pooled, WorldType
<1>20. v = w4
  <2>1. q \in Elems(w4.players) /\ w4.players \in Seq(Player)
    BY <1>3, <1>17, <1>19 DEF Good, WorldType
  <2>2. q \in {x \in Player : w4.info[x].steamID = w4.info[q].steamID}
    BY <1>1
  <2>3. GetPlayerById(w4, w4.info[q].steamID) \in Elems(w4.players)
    BY <2>1, <2>2, FirstInFound DEF GetPlayerById
  <2>4. NoPlayer \notin Elems(w4.players)
    BY <1>17, GetPlayerListed
  <2> QED BY <1>7, <2>3, <2>4
<1> HIDE DEF v
<1>21. Pooled(w4)
  BY <1>2, <1>18, <1>19, SoundTyped DEF Sound, Pooled
<1>22. Connected(w4, rc)
  <2>1. Connected(u, rc) /\ Elems(u.players) \subseteq Player
    BY <1>2, SoundTyped DEF Sound
  <2>2. /\ \A x \in Elems(w4.players) \ {q} : x \in Elems(u.players) /\ x \in Player \ {p, q} /\ w4.info[x] = u.info[x]
        /\ w4.info[q].steamID = u.info[q].steamID /\ w4.info[q].socket = u.info[p].socket
        /\ w4.info[q].state = st
        /\ q \in Elems(u.players) /\ p \in Elems(u.players)
    BY <1>1, <1>2, <1>3, <1>13, <1>18, <1>19, <2>1 DEF SamePeople
  <2>3. \A x \in Elems(u.players) \ {q} :
           /\ u.info[x].socket \in Socket \ {s}
           /\ Served(w4, rc, u.info[x].socket)
           /\ Quiet(u, rc, u.info[x].socket) => Quiet(w4, rc, u.info[x].socket)
    <3> SUFFICES ASSUME NEW x \in Elems(u.players) \ {q}
                 PROVE  /\ u.info[x].socket \in Socket \ {s}
                        /\ Served(w4, rc, u.info[x].socket)
                        /\ Quiet(u, rc, u.info[x].socket) => Quiet(w4, rc, u.info[x].socket)
      OBVIOUS
    <3>1. u.info[x].socket \in Socket \ {s} /\ Served(u, rc, u.info[x].socket)
      BY <1>3, <2>1, <2>2 DEF Connected
    <3> QED BY <1>6, <1>18, <3>1 DEF Served, Quiet
  <2>4. \A x \in Elems(w4.players) :
          /\ w4.info[x].socket \in Socket
          /\ Served(w4, rc, w4.info[x].socket)
          /\ Lost(w4, x) => Quiet(w4, rc, w4.info[x].socket)
    <3> SUFFICES ASSUME NEW x \in Elems(w4.players)
                 PROVE  /\ w4.info[x].socket \in Socket
                        /\ Served(w4, rc, w4.info[x].socket)
                        /\ Lost(w4, x) => Quiet(w4, rc, w4.info[x].socket)
      OBVIOUS
    <3>1. CASE x = q
      BY <1>9, <2>2, <3>1, <2>3 DEF Lost
    <3>2. CASE x # q
      BY <2>2, <3>2, <2>1, <2>3 DEF Connected, Lost
    <3> QED BY <3>1, <3>2
  <2>5. \A x, y \in Elems(w4.players) : w4.info[x].socket = w4.info[y].socket => x = y
    BY <2>1, <2>2 DEF Connected
  <2>6. \A x, y \in Elems(w4.players) :
           w4.info[x].steamID = w4.info[y].steamID /\ w4.info[x].steamID # NoID => x = y
    BY <2>1, <2>2 DEF Connected
  <2> QED BY <2>4, <2>5, <2>6 DEF Connected
<1>23. Seated(w4)
  BY <1>2, <1>18, <1>19 DEF Sound, Seated, Absent, Nonempty
<1>24. Sound(v, rc)
  BY <1>17, <1>20, <1>21, <1>22, <1>23 DEF Sound
<1>25. Elems(v.players) = Elems(w.players) \ {p}
  BY <1>3, <1>19, <1>20
<1>26. /\ v.info[q].steamID = w.info[q].steamID /\ v.info[q].socket = w.info[p].socket
       /\ v.info[q].state = IF GetGameRoom(u, q) # NoRoom THEN "GAME" ELSE "LOBBY"
  BY <1>1, <1>8, <1>13, <1>18, <1>20
<1>27. \A x \in Player \ {p, q} : v.info[x] = u.info[x]
  BY <1>13, <1>18, <1>20
<1> QED BY <1>18, <1>20, <1>24, <1>25, <1>26, <1>27 DEF v, u

\* A player that is connected no more is lost.
LEMMA LosePlayerSound ==
    ASSUME NEW w, NEW rc, Sound(w, rc), NEW p \in Elems(w.players), Quiet(w, rc, w.info[p].socket)
    PROVE  /\ Sound([w EXCEPT !.info[p].state = "ConnectionLost"], rc)
           /\ [w EXCEPT !.info[p].state = "ConnectionLost"].rooms = w.rooms
           /\ [w EXCEPT !.info[p].state = "ConnectionLost"].slot = w.slot
           /\ [w EXCEPT !.info[p].state = "ConnectionLost"].info
                = [w.info EXCEPT ![p].state = "ConnectionLost"]
<1> DEFINE in == [w.info EXCEPT ![p].state = "ConnectionLost"]
           v == [w EXCEPT !.info = in]
<1>1. p \in Player /\ w \in WorldType /\ Good(w) /\ Elems(w.players) \subseteq Player
  BY SoundTyped DEF Sound
<1>2. w.info \in [Player -> CPlayer]
  BY <1>1 DEF WorldType
<1>3. in \in [Player -> CPlayer]
  BY <1>1, <1>2 DEF CPlayer, EGameState
<1>4. \A x \in Player : /\ in[x].socket = w.info[x].socket
                        /\ in[x].steamID = w.info[x].steamID
                        /\ x # p => in[x].state = w.info[x].state
  BY <1>1, <1>2 DEF CPlayer
<1> HIDE DEF in
<1>5. Good(v)
  BY <1>1, <1>3, InfoGood
<1>6. /\ v.players = w.players /\ v.pool = w.pool /\ v.info = in /\ v.rooms = w.rooms
      /\ v.slot = w.slot /\ v.sock = w.sock /\ v.inbox = w.inbox
  BY <1>1 DEF WorldType
<1> HIDE DEF v
<1>7. Pooled(v) /\ Seated(v)
  BY <1>6 DEF Sound, Pooled, Seated, Nonempty
<1>8. Connected(v, rc)
  BY <1>1, <1>4, <1>6 DEF Sound, Connected, Served, Quiet, Lost
<1> QED BY <1>5, <1>6, <1>7, <1>8 DEF Sound, v, in

\* The players of a room that change places.
LEMMA SwappedSound ==
    ASSUME NEW w, NEW rc, Sound(w, rc), NEW r \in Elems(w.rooms), NEW seats \in Seats,
           seats[0] = w.slot[r][1], seats[1] = w.slot[r][0]
    PROVE  Sound([w EXCEPT !.slot[r] = seats], rc)
<1>1. Seated(w)
  BY DEF Sound
<1>2. \A i \in Slots : seats[i] = NoPlayer \/ \E j \in Slots : seats[i] = w.slot[r][j]
  BY TwoSlots
<1>3. \A i, j \in Slots : seats[i] = seats[j] /\ seats[i] # NoPlayer => i = j
  BY <1>1, TwoSlots DEF Seated
<1>4. \E i \in Slots : seats[i] # NoPlayer
  BY <1>1, TwoSlots DEF Seated, Nonempty
<1> QED BY <1>2, <1>3, <1>4, SeatsWritten

\* A player that is in no room takes a free seat.
LEMMA SeatTakenSound ==
    ASSUME NEW w, NEW rc, Sound(w, rc), NEW r \in Elems(w.rooms), NEW i \in Slots,
           w.slot[r][i] = NoPlayer, NEW p \in Elems(w.players), Absent(w, p)
    PROVE  Sound([w EXCEPT !.slot[r][i] = p], rc) /\ [w EXCEPT !.slot[r][i] = p].rooms = w.rooms
<1> DEFINE seats == [w.slot[r] EXCEPT ![i] = p]
<1>1. w.slot[r] \in Seats /\ p \in Player /\ p # NoPlayer /\ w \in WorldType
  BY SoundTyped
<1>2. seats \in Seats
  BY <1>1, SeatsTyped
<1>3. seats[i] = p /\ \A j \in Slots \ {i} : seats[j] = w.slot[r][j]
  BY <1>1 DEF Seats
<1> HIDE DEF seats
<1>4. \A j \in Slots : \/ seats[j] = NoPlayer
                       \/ \E k \in Slots : seats[j] = w.slot[r][k]
                       \/ seats[j] \in Elems(w.players) /\ Absent(w, seats[j])
  BY <1>3
<1>5. \A j, k \in Slots : seats[j] = seats[k] /\ seats[j] # NoPlayer => j = k
  BY <1>3 DEF Sound, Seated, Absent
<1>6. Sound([w EXCEPT !.slot[r] = seats], rc)
  BY <1>1, <1>2, <1>3, <1>4, <1>5, SeatsWritten
<1>7. [w EXCEPT !.slot[r] = seats].rooms = w.rooms
  BY <1>1 DEF WorldType
<1> QED BY <1>6, <1>7 DEF seats

\* JoinRoom fills a seat, absorbs a player or does nothing.
LEMMA JoinRoomSound ==
    ASSUME NEW w, NEW rc, Sound(w, rc), NEW r \in Elems(w.rooms),
           NEW p \in Elems(w.players), Absent(w, p)
    PROVE  Sound(JoinRoom(w, r, p).world, rc) /\ JoinRoom(w, r, p).world.rooms = w.rooms
<1> DEFINE S == JoinSeats(w, r, p)
           i == CHOOSE i \in S : \A j \in S : i <= j
           q == w.slot[r][i]
<1>1. CASE S = {}
  BY <1>1 DEF JoinRoom
<1>2. CASE S # {}
  <2>1. S \in SUBSET {0, 1}
    BY TwoSlots DEF JoinSeats
  <2>2. \E x \in S : \A j \in S : x <= j
    BY <1>2, <2>1
  <2>3. i \in Slots
    BY <2>2 DEF JoinSeats
  <2>4. JoinRoom(w, r, p).world = IF q = NoPlayer THEN [w EXCEPT !.slot[r][i] = p]
                                  ELSE AbsorbPlayer(w, p, q)
    BY <1>2 DEF JoinRoom
  <2> HIDE DEF i, S
  <2>5. CASE q = NoPlayer
    BY <2>3, <2>4, <2>5, SeatTakenSound
  <2>6. CASE q # NoPlayer
    <3>1. q \in Elems(w.players) /\ q # p
      BY <2>3, <2>6 DEF Sound, Seated, Absent
    <3>2. p \in Player /\ Good(w)
      BY SoundTyped DEF Sound
    <3>3. OutRoom(w, p) = w
      BY <3>2, GetRoomSeats DEF OutRoom, LeaveRoom
    <3> HIDE DEF q
    <3>4. Sound(AbsorbPlayer(w, p, q), rc) /\ AbsorbPlayer(w, p, q).rooms = OutRoom(w, p).rooms
      BY <3>1, AbsorbPlayerSound
    <3> QED BY <2>4, <2>6, <3>3, <3>4
  <2> QED BY <2>5, <2>6
<1> QED BY <1>1, <1>2

\* _MoveRoomProc fills a seat, creates a room, or does nothing to a deleted room.
LEMMA MoveIntoSound ==
    ASSUME NEW w, NEW rc, Sound(w, rc), NEW r, NEW p \in Elems(w.players), Absent(w, p)
    PROVE  Sound(MoveInto(w, r, p), rc)
<1> DEFINE i == CHOOSE i \in Slots : /\ w.slot[r][i] = NoPlayer
                                     /\ \A j \in 0 .. (i - 1) : w.slot[r][j] # NoPlayer
<1>1. CASE r \notin Elems(w.rooms)
  BY <1>1 DEF MoveInto
<1>2. CASE \A x \in Slots : w.slot[r][x] # NoPlayer
  BY <1>2, CreateRoomSound DEF MoveInto
<1>3. CASE r \in Elems(w.rooms) /\ ~ \A x \in Slots : w.slot[r][x] # NoPlayer
  <2>1. \E x \in Slots : w.slot[r][x] = NoPlayer /\ \A j \in 0 .. (x - 1) : w.slot[r][j] # NoPlayer
    BY <1>3, TwoSlots
  <2>2. i \in Slots /\ w.slot[r][i] = NoPlayer
    BY <2>1
  <2>3. MoveInto(w, r, p) = [w EXCEPT !.slot[r][i] = p]
    BY <1>3 DEF MoveInto
  <2> HIDE DEF i
  <2> QED BY <1>3, <2>2, <2>3, SeatTakenSound
<1> QED BY <1>1, <1>2, <1>3

\* Remaster swaps the seats of a listed room or leaves them.
LEMMA RemasterSound ==
    ASSUME NEW w, NEW rc, Sound(w, rc), NEW r \in Elems(w.rooms), NEW seats
    PROVE  Sound(Remaster(w, r, seats), rc)
<1> DEFINE S == Swapped(w.slot[r])
<1>1. S \in Seats /\ S[0] = w.slot[r][1] /\ S[1] = w.slot[r][0]
  BY SoundTyped, SeatsTyped, TwoSlots DEF Swapped
<1> HIDE DEF S
<1>2. Sound([w EXCEPT !.slot[r] = S], rc)
  BY <1>1, SwappedSound
<1> QED BY <1>2 DEF Remaster, S

\* A seat in room i and the deletion of room j, in either order.
LEMMA SeatThenDelete ==
    ASSUME NEW w, w \in WorldType, NEW i \in Room, NEW j \in Room, i # j, NEW seats \in Seats
    PROVE  DeleteRoom([w EXCEPT !.slot[i] = seats], j) = [DeleteRoom(w, j) EXCEPT !.slot[i] = seats]
<1> DEFINE u == [w EXCEPT !.slot[i] = seats]
           v == DeleteRoom(w, j)
           f == [[w.slot EXCEPT ![i] = seats] EXCEPT ![j] = NoSeats]
           rs == Erase(w.rooms, j)
           st == [w.state EXCEPT ![j] = "LOBBY"]
           mr == w.matchRooms \ {j}
           gr == w.gameRooms \ {j}
<1>1. f = [[w.slot EXCEPT ![j] = NoSeats] EXCEPT ![i] = seats]
  BY DEF WorldType
<1>2. u = [w EXCEPT !.slot = [w.slot EXCEPT ![i] = seats]]
  OBVIOUS
<1>3. DeleteRoom(u, j) = [w EXCEPT !.rooms = rs, !.matchRooms = mr, !.gameRooms = gr,
                                   !.slot = f, !.state = st]
  <2> DEFINE g == [w.slot EXCEPT ![i] = seats]
  <2>1. /\ u.rooms = w.rooms /\ u.matchRooms = w.matchRooms /\ u.gameRooms = w.gameRooms
        /\ u.slot = g /\ u.state = w.state
    BY <1>2 DEF WorldType
  <2>2. DeleteRoom(u, j) = [u EXCEPT !.rooms = rs, !.matchRooms = mr, !.gameRooms = gr,
                                     !.slot = f, !.state = st]
    BY <2>1 DEF DeleteRoom
  <2>3. u = [w EXCEPT !.slot = g]
    BY <1>2
  <2> HIDE DEF u, f, g, rs, st, mr, gr
  <2> QED BY <2>2, <2>3 DEF WorldType
<1>4. v = [w EXCEPT !.rooms = rs, !.matchRooms = mr, !.gameRooms = gr,
                    !.slot = [w.slot EXCEPT ![j] = NoSeats], !.state = st]
  BY DEF DeleteRoom
<1>5. [v EXCEPT !.slot[i] = seats] = [w EXCEPT !.rooms = rs, !.matchRooms = mr, !.gameRooms = gr,
                                               !.slot = f, !.state = st]
  <2> DEFINE h == [w.slot EXCEPT ![j] = NoSeats]
  <2>1. v.slot = h
    BY <1>4 DEF WorldType
  <2>2. [v EXCEPT !.slot[i] = seats] = [v EXCEPT !.slot = f]
    BY <1>1, <2>1
  <2> HIDE DEF f, rs, st, mr, gr
  <2>3. v = [w EXCEPT !.rooms = rs, !.matchRooms = mr, !.gameRooms = gr, !.slot = h, !.state = st]
    BY <1>4
  <2> HIDE DEF v, h
  <2> QED BY <2>2, <2>3 DEF WorldType
<1> QED BY <1>3, <1>5

\* Of two different rooms that match each holds one player, and i has a free seat k.
LEMMA MatchedPair ==
    ASSUME NEW w, NEW rc, Sound(w, rc), NEW i \in Elems(w.rooms), NEW j \in Elems(w.rooms),
           i # j, Matches(w, i, j)
    PROVE  \E k \in Slots, n \in Slots :
             /\ w.slot[i][k] = NoPlayer /\ w.slot[i][1 - k] # NoPlayer
             /\ w.slot[j][n] # NoPlayer /\ w.slot[j][1 - n] = NoPlayer
             /\ Merged(w, i, j) = [w EXCEPT !.slot[i] = [w.slot[i] EXCEPT ![k] = w.slot[j][n]]]
<1> DEFINE k == CHOOSE x \in Slots : w.slot[i][x] = NoPlayer /\ \A y \in 0 .. (x - 1) : w.slot[i][y] # NoPlayer
           n == IF w.slot[j][0] # NoPlayer THEN 0 ELSE 1
<1>1. GetPlayerCount(w, i) > 0 /\ GetPlayerCount(w, j) > 0
  BY CountNonempty DEF Sound, Seated
<1>2. GetPlayerCount(w, i) = 1 /\ GetPlayerCount(w, j) = 1
  BY CountNonempty, <1>1 DEF Matches, MAX_PLAYER
<1>3. /\ w.slot[i][0] = NoPlayer <=> w.slot[i][1] # NoPlayer
      /\ w.slot[j][0] = NoPlayer <=> w.slot[j][1] # NoPlayer
  BY <1>2, CountPlayers
<1>4. \E x \in Slots : w.slot[i][x] = NoPlayer /\ \A y \in 0 .. (x - 1) : w.slot[i][y] # NoPlayer
  BY <1>3, TwoSlots
<1>5. k \in Slots /\ w.slot[i][k] = NoPlayer
  BY <1>4
<1>6. Merged(w, i, j) = [w EXCEPT !.slot[i] = [w.slot[i] EXCEPT ![k] = w.slot[j][n]]]
  <2> DEFINE p == IF w.slot[j][0] # NoPlayer THEN w.slot[j][0] ELSE w.slot[j][1]
  <2>1. Merged(w, i, j) = [w EXCEPT !.slot[i] = [w.slot[i] EXCEPT ![k] = p]]
    BY <1>2 DEF Merged, MAX_PLAYER
  <2>2. p = w.slot[j][n]
    OBVIOUS
  <2> HIDE DEF p, n, k
  <2> QED BY <2>1, <2>2
<1> HIDE DEF k
<1>7. w.slot[i][1 - k] # NoPlayer
  BY <1>3, <1>5, TwoSlots
<1>8. n \in Slots /\ w.slot[j][n] # NoPlayer /\ w.slot[j][1 - n] = NoPlayer
  BY <1>3, TwoSlots
<1> QED BY <1>5, <1>6, <1>7, <1>8

\* World v has the rooms i and j of w as one, full room, and the other rooms as they were.
OneRoom(v, w, i, j) ==
    /\ SamePeople(v, w) /\ v.info = w.info
    /\ i \in Elems(v.rooms) /\ Elems(v.rooms) = Elems(w.rooms) \ ({j} \ {i})
    /\ \A r \in Elems(v.rooms) : v.state[r] = w.state[r]
    /\ \A r \in Elems(v.rooms) \ {i} : v.slot[r] = w.slot[r]
    /\ \A n \in Slots : v.slot[i][n] # NoPlayer
    /\ Members(v, i) = Members(w, i) \cup Members(w, j)

\* A match: two single players in one room, or a full room, start their game.
LEMMA StartGameSound ==
    ASSUME NEW w, NEW rc, Sound(w, rc), NEW i \in Elems(w.rooms), NEW j \in Elems(w.rooms),
           Matches(w, i, j)
    PROVE  \E v : /\ StartGame(w, i, j) = ChangeRoomState(v, i, "GAME")
                  /\ Sound(v, rc) /\ OneRoom(v, w, i, j)
<1>1. /\ w \in WorldType /\ Good(w) /\ i \in Room /\ j \in Room
      /\ w.slot[i] \in Seats /\ w.slot[j] \in Seats /\ Elems(w.rooms) \subseteq Room
  BY SoundTyped DEF Sound
<1>2. CASE i = j
  BY <1>2, CountPlayers, TwoSlots DEF StartGame, Matches, MAX_PLAYER, SamePeople, OneRoom
<1>3. CASE i # j
  <2>1. PICK k \in Slots, n \in Slots :
             /\ w.slot[i][k] = NoPlayer /\ w.slot[i][1 - k] # NoPlayer
             /\ w.slot[j][n] # NoPlayer /\ w.slot[j][1 - n] = NoPlayer
             /\ Merged(w, i, j) = [w EXCEPT !.slot[i] = [w.slot[i] EXCEPT ![k] = w.slot[j][n]]]
    BY <1>3, MatchedPair
  <2> DEFINE p == w.slot[j][n]
             seats == [w.slot[i] EXCEPT ![k] = p]
             x == DeleteRoom(w, j)
             v == [x EXCEPT !.slot[i] = seats]
  <2>2. p \in Elems(w.players) /\ p # NoPlayer /\ p \in Player
    BY <2>1, SoundTyped DEF Sound, Seated
  <2>3. seats \in Seats /\ seats[k] = p /\ \A y \in Slots \ {k} : seats[y] = w.slot[i][y]
    <3> HIDE DEF p
    <3> QED BY <1>1, <2>2 DEF Seats
  <2>4. StartGame(w, i, j) = ChangeRoomState(v, i, "GAME")
    BY <1>1, <1>3, <2>1, <2>3, SeatThenDelete DEF StartGame
  <2>5. /\ Sound(x, rc) /\ SamePeople(x, w) /\ x.info = w.info
        /\ Elems(x.rooms) = Elems(w.rooms) \ {j}
        /\ \A q \in Elems(w.rooms) \ {j} : x.slot[q] = w.slot[q] /\ x.state[q] = w.state[q]
        /\ Absent(x, p)
    BY <2>1, DeleteRoomSound
  <2> HIDE DEF p, seats, x
  <2>6. i \in Elems(x.rooms) /\ x.slot[i] = w.slot[i] /\ x.players = w.players /\ Good(x)
    BY <1>3, <2>5 DEF SamePeople, Sound
  <2>7. k # 1 - k /\ 1 - k \in Slots /\ \A y \in Slots : y = k \/ y = 1 - k
    BY TwoSlots
  <2>8. Sound(v, rc)
    BY <2>2, <2>3, <2>5, <2>6, <2>7, SeatsWritten DEF Absent
  <2>9. /\ SamePeople(v, x) /\ v.rooms = x.rooms /\ v.info = x.info /\ v.state = x.state
        /\ v.slot = [x.slot EXCEPT ![i] = seats]
    BY <1>1, <2>3, <2>6, SlotFields
  <2> HIDE DEF v
  <2>10. v.slot[i] = seats /\ \A r \in Elems(v.rooms) \ {i} : v.slot[r] = w.slot[r]
    BY <2>6, <1>1, <2>5, <2>9 DEF Good, WorldType
  <2>11. \A y \in Slots : v.slot[i][y] # NoPlayer
    BY <2>1, <2>2, <2>3, <2>7, <2>10
  <2>12. Members(v, i) = Members(w, i) \cup Members(w, j)
    BY <2>2, <2>3, <2>7, <2>10, <2>11, <2>1, TwoSlots DEF Members, p
  <2>13. SamePeople(v, w)
    BY <2>5, <2>9, SamePeopleTransitive
  <2>14. \A r \in Elems(v.rooms) : v.state[r] = w.state[r]
    BY <2>5, <2>9
  <2>15. Elems(v.rooms) = Elems(w.rooms) \ ({j} \ {i}) /\ i \in Elems(v.rooms) /\ v.info = w.info
    BY <1>3, <2>5, <2>6, <2>9
  <2>16. OneRoom(v, w, i, j)
    BY <2>10, <2>11, <2>12, <2>13, <2>14, <2>15 DEF OneRoom
  <2> QED BY <2>4, <2>8, <2>16
<1> QED BY <1>2, <1>3

\* How many seats of a room hold a connected player.
LEMMA CountConnected ==
    ASSUME NEW w, NEW r
    PROVE  GetNotLostedPlayerCount(w, r) = (IF 0 \in NotLost(w, r) THEN 1 ELSE 0)
                                           + (IF 1 \in NotLost(w, r) THEN 1 ELSE 0)
<1> DEFINE S == NotLost(w, r)
<1>1. S = (IF 0 \in S THEN {0} ELSE {}) \cup (IF 1 \in S THEN {1} ELSE {})
  BY TwoSlots DEF NotLost
<1>2. Cardinality({}) = 0 /\ Cardinality({0}) = 1 /\ Cardinality({1}) = 1 /\ Cardinality({0} \cup {1}) = 2
  <2>1. Cardinality({}) = 0
    BY FS_EmptySet
  <2>2. IsFiniteSet({0}) /\ Cardinality({0}) = 1 /\ Cardinality({1}) = 1
    BY FS_Singleton
  <2>3. Cardinality({0} \cup {1}) = Cardinality({0}) + 1
    BY <2>2, FS_AddElement
  <2> QED BY <2>1, <2>2, <2>3
<1>3. GetNotLostedPlayerCount(w, r) = Cardinality(S)
  BY DEF GetNotLostedPlayerCount
<1> HIDE DEF S
<1> QED BY <1>1, <1>2, <1>3 DEF S

\* A new connection: its socket is new to the players, its player object to the rooms.
LEMMA NewPlayerSound ==
    ASSUME NEW w, NEW rc \in [Socket -> BOOLEAN], Sound(w, rc), NEW s \in Socket,
           w.sock[s] = "free", s \notin Elems(w.inbox),
           \A x \in Elems(w.players) : w.info[x].socket # s, NEW p \in w.pool
    PROVE  LET u == [w EXCEPT !.sock[s] = "open"]
           IN  Sound(CreateRoom(CreatePlayer(u, p, s), p), [rc EXCEPT ![s] = TRUE])
<1> DEFINE u == [w EXCEPT !.sock[s] = "open"]
           v == CreatePlayer(u, p, s)
           rd == [rc EXCEPT ![s] = TRUE]
<1>1. w \in WorldType /\ Good(w) /\ ListsAgree(w) /\ Elems(w.players) \subseteq Player
  BY SoundTyped DEF Sound
<1>2. p \in Player /\ p \notin Elems(w.players)
  BY <1>1 DEF Sound, Pooled
<1>3. u \in WorldType /\ SameRooms(u, w)
  BY <1>1 DEF WorldType, SockState, SameRooms
<1>4. Good(u)
  BY <1>1, <1>3, SameRoomsGood
<1>5. /\ u.players = w.players /\ u.pool = w.pool /\ u.info = w.info /\ u.slot = w.slot
      /\ u.sock = [w.sock EXCEPT ![s] = "open"] /\ u.inbox = w.inbox
  BY <1>1 DEF WorldType
<1> HIDE DEF u
<1>6. Good(v) /\ SameRooms(v, u)
  BY <1>2, <1>4, CreatePlayerGood
<1> DEFINE blank == [steamID |-> NoID, socket |-> s, state |-> "LOBBY"]
<1>7. /\ v.players = Append(w.players, p) /\ v.pool = w.pool \ {p}
      /\ v.info = [w.info EXCEPT ![p] = blank] /\ v.slot = w.slot
      /\ v.sock = [w.sock EXCEPT ![s] = "open"] /\ v.inbox = w.inbox
  <2>1. v = [u EXCEPT !.pool = u.pool \ {p}, !.players = Append(u.players, p),
                      !.info = [u.info EXCEPT ![p] = blank]]
    BY DEF CreatePlayer
  <2> HIDE DEF v, blank
  <2> QED BY <1>3, <1>5, <2>1 DEF WorldType
<1>8. v.rooms = w.rooms
  BY <1>3, <1>6 DEF SameRooms
<1> HIDE DEF v
<1>9. Elems(v.players) = Elems(w.players) \cup {p} /\ Distinct(v.players)
  BY <1>1, <1>2, <1>7, AppendElems DEF WorldType, Sound, Pooled
<1>10. /\ v.info[p] = blank
       /\ \A x \in Player \ {p} : v.info[x] = w.info[x]
       /\ v.sock[s] = "open"
       /\ \A x \in Socket \ {s} : v.sock[x] = w.sock[x] /\ rd[x] = rc[x]
  BY <1>1, <1>2, <1>7 DEF WorldType
<1> HIDE DEF rd
<1>11. Pooled(v)
  BY <1>7, <1>9 DEF Sound, Pooled
<1>12. Connected(v, rd)
  BY <1>1, <1>2, <1>7, <1>10, <1>9 DEF Sound, Connected, Served, Quiet, Lost
<1>13. Seated(v) /\ Absent(v, p)
  BY <1>2, <1>7, <1>8, NullAssumption, <1>9 DEF Sound, Absent, Seated, Nonempty
<1>14. Sound(v, rd)
  BY <1>6, <1>11, <1>12, <1>13 DEF Sound
<1>15. Sound(CreateRoom(v, p), rd)
  BY <1>9, <1>13, <1>14, CreateRoomSound
<1> QED BY <1>15 DEF v, u, rd

(***************************************************************************)
(* Disconnection.                                                          *)
(***************************************************************************)
\* A room in which two are connected has two connected players.
LEMMA TwoConnected ==
    ASSUME NEW w, NEW r, ~ GetNotLostedPlayerCount(w, r) <= 1
    PROVE  \A i \in Slots : w.slot[r][i] # NoPlayer /\ ~Lost(w, w.slot[r][i])
  BY CountConnected, TwoSlots DEF NotLost, Lost

\* DisconnectPlayer in a room where two are connected: the player is marked, or its seat closed up.
LEMMA DisconnectPlayerSound ==
    ASSUME NEW w, NEW rc, Sound(w, rc), NEW p \in Elems(w.players), NEW r \in Elems(w.rooms),
           NEW i \in Slots, w.slot[r][i] = p,
           ~ GetNotLostedPlayerCount(w, r) <= 1, Quiet(w, rc, w.info[p].socket)
    PROVE  Sound(DisconnectPlayer(w, r, p), rc) /\ DisconnectPlayer(w, r, p).rooms = w.rooms
<1>1. /\ p \in Player /\ p # NoPlayer /\ r \in Room /\ w.slot[r] \in Seats
      /\ Good(w) /\ w \in WorldType
  BY SoundTyped DEF Sound
<1>2. CASE w.state[r] = "GAME"
  <2> DEFINE seats == IF w.slot[r][0] = p THEN Swapped(w.slot[r]) ELSE w.slot[r]
             u == [w EXCEPT !.slot[r] = seats]
             in == [u.info EXCEPT ![p].state = "ConnectionLost"]
  <2>1. seats \in Seats
    BY <1>1, SeatsTyped
  <2>2. DisconnectPlayer(w, r, p) = [u EXCEPT !.info = in]
    BY <1>2 DEF DisconnectPlayer
  <2>3. Sound(u, rc)
    <3>1. CASE w.slot[r][0] = p
      <4> DEFINE S == Swapped(w.slot[r])
      <4>1. S \in Seats /\ S[0] = w.slot[r][1] /\ S[1] = w.slot[r][0]
        BY <1>1, SeatsTyped, TwoSlots DEF Swapped
      <4> HIDE DEF S
      <4>2. Sound([w EXCEPT !.slot[r] = S], rc)
        BY <4>1, SwappedSound
      <4> QED BY <3>1, <4>2 DEF S
    <3>2. CASE w.slot[r][0] # p
      BY <1>1, <3>2 DEF WorldType
    <3> QED BY <3>1, <3>2
  <2> HIDE DEF seats
  <2>4. SamePeople(u, w) /\ u.rooms = w.rooms
    BY <1>1, <2>1, SlotFields
  <2> HIDE DEF u
  <2>5. p \in Elems(u.players) /\ Quiet(u, rc, u.info[p].socket)
    BY <1>1, <2>4 DEF SamePeople, Quiet
  <2>6. Sound([u EXCEPT !.info[p].state = "ConnectionLost"], rc)
        /\ [u EXCEPT !.info[p].state = "ConnectionLost"].rooms = u.rooms
    BY <2>3, <2>5, LosePlayerSound
  <2> QED BY <2>2, <2>4, <2>6
<1>3. CASE w.state[r] # "GAME"
  <2> DEFINE seats == Without(Without(w.slot[r], p), p)
             u == [w EXCEPT !.slot[r] = seats]
  <2>1. seats \in Seats
    BY <1>1, SeatsTyped
  <2>2. DisconnectPlayer(w, r, p) = CheckAndRestateRoom(u, r)
    BY <1>3 DEF DisconnectPlayer
  <2>3. \A j \in Slots : w.slot[r][j] = p => j = i
    BY <1>1, SoundSeat
  <2>4. seats[0] = w.slot[r][1 - i] /\ seats[1] = NoPlayer
    BY <1>1, <2>3, WithoutSeat
  <2> HIDE DEF seats
  <2>5. w.slot[r][1 - i] # NoPlayer /\ 1 - i \in Slots
    BY TwoConnected, TwoSlots
  <2>6. Sound(u, rc)
    BY <2>4, <2>5, TwoSlots, <2>1, SeatsWritten
  <2>7. u.rooms = w.rooms
    BY <1>1, <2>1, SlotFields
  <2> HIDE DEF u
  <2> QED BY <2>2, <2>6, <2>7, CheckAndRestateRoomSound
<1> QED BY <1>2, <1>3

\* A CLOSE message for the player of a quiet socket.
LEMMA DisconnectRoomSound ==
    ASSUME NEW w, NEW rc, Sound(w, rc), NEW p \in Elems(w.players),
           ~Lost(w, p), Quiet(w, rc, w.info[p].socket)
    PROVE  Sound(DisconnectRoom(w, p), rc)
<1> DEFINE r == GetConnectedRoom(w, p)
           v == DisconnectPlayer(w, r, p)
<1>1. p \in Player /\ Good(w)
  BY SoundTyped DEF Sound
<1>2. r = GetRoom(w, p)
  BY DEF GetConnectedRoom, Lost
<1>3. DisconnectRoom(w, p) =
        IF r = NoRoom THEN RemovePlayer(w, p)
        ELSE IF GetNotLostedPlayerCount(w, r) <= 1 THEN DropRoom(w, r)
        ELSE IF GetNotLostedPlayerCount(v, r) = 0 THEN DropRoom(v, r) ELSE v
  BY DEF DisconnectRoom
<1>4. r = NoRoom => Absent(w, p)
  BY <1>1, <1>2, GetRoomSeats
<1>5. r # NoRoom => r \in Elems(w.rooms) /\ \E i \in Slots : w.slot[r][i] = p
  BY <1>1, <1>2, GetRoomSeats
<1> HIDE DEF r
<1>6. CASE r = NoRoom
  BY <1>3, <1>4, <1>6, RemovePlayerSound
<1>7. CASE r # NoRoom /\ GetNotLostedPlayerCount(w, r) <= 1
  BY <1>3, <1>5, <1>7, DropRoomSound
<1>8. CASE r # NoRoom /\ ~ GetNotLostedPlayerCount(w, r) <= 1
  <2>1. Sound(v, rc) /\ r \in Elems(v.rooms)
    BY <1>5, <1>8, DisconnectPlayerSound
  <2> HIDE DEF v
  <2> QED BY <1>3, <1>8, <2>1, DropRoomSound
<1> QED BY <1>6, <1>7, <1>8

(***************************************************************************)
(* The fields of players.                                                  *)
(***************************************************************************)
\* Writing the IDs and states of players makes none lost and gives no ID twice.
LEMMA InfoSound ==
    ASSUME NEW w, NEW rc, Sound(w, rc), NEW in \in [Player -> CPlayer],
           \A x \in Player : in[x].socket = w.info[x].socket,
           \A x \in Player : in[x].state = "ConnectionLost" => Lost(w, x),
           \A x, y \in Elems(w.players) : in[x].steamID = in[y].steamID /\ in[x].steamID # NoID => x = y
    PROVE  /\ Sound([w EXCEPT !.info = in], rc)
           /\ [w EXCEPT !.info = in].players = w.players
           /\ [w EXCEPT !.info = in].rooms = w.rooms
           /\ [w EXCEPT !.info = in].slot = w.slot
           /\ [w EXCEPT !.info = in].info = in
<1> DEFINE v == [w EXCEPT !.info = in]
<1>1. w \in WorldType /\ Good(w) /\ Elems(w.players) \subseteq Player
  BY SoundTyped DEF Sound
<1>2. Good(v)
  BY <1>1, InfoGood
<1>3. /\ v.players = w.players /\ v.pool = w.pool /\ v.info = in /\ v.rooms = w.rooms
      /\ v.slot = w.slot /\ v.sock = w.sock /\ v.inbox = w.inbox
  BY <1>1 DEF WorldType
<1> HIDE DEF v
<1>4. Pooled(v) /\ Seated(v)
  BY <1>3 DEF Sound, Pooled, Seated, Nonempty
<1>5. \A x \in Elems(v.players) :
        /\ v.info[x].socket \in Socket
        /\ Served(v, rc, v.info[x].socket)
        /\ Lost(v, x) => Quiet(v, rc, v.info[x].socket)
  BY <1>1, <1>3 DEF Sound, Connected, Served, Quiet, Lost
<1>6. \A x, y \in Elems(v.players) : v.info[x].socket = v.info[y].socket => x = y
  BY <1>1, <1>3 DEF Sound, Connected
<1>7. Connected(v, rc)
  BY <1>3, <1>5, <1>6 DEF Connected
<1> QED BY <1>2, <1>3, <1>4, <1>7 DEF Sound, v

\* Writing the state of one player, other than to lose it.
LEMMA PlayerStateSound ==
    ASSUME NEW w, NEW rc, Sound(w, rc), NEW p \in Player, NEW st \in EGameState \ {"ConnectionLost"}
    PROVE  /\ Sound([w EXCEPT !.info[p].state = st], rc)
           /\ [w EXCEPT !.info[p].state = st].rooms = w.rooms
           /\ [w EXCEPT !.info[p].state = st].slot = w.slot
<1> DEFINE in == [w.info EXCEPT ![p].state = st]
<1>1. w.info \in [Player -> CPlayer] /\ Elems(w.players) \subseteq Player
  BY SoundTyped
<1>2. in \in [Player -> CPlayer]
  BY <1>1 DEF CPlayer
<1>3. \A x \in Player : /\ in[x].socket = w.info[x].socket
                        /\ in[x].steamID = w.info[x].steamID
                        /\ in[x].state = "ConnectionLost" => Lost(w, x)
  BY <1>1 DEF CPlayer, Lost
<1>4. [w EXCEPT !.info[p].state = st] = [w EXCEPT !.info = in]
  OBVIOUS
<1> HIDE DEF in
<1>5. \A x, y \in Elems(w.players) : in[x].steamID = in[y].steamID /\ in[x].steamID # NoID => x = y
  BY <1>1, <1>3 DEF Sound, Connected
<1> QED BY <1>2, <1>3, <1>4, <1>5, InfoSound

\* A steam ID finds its player if it has one.
LEMMA FoundById ==
    ASSUME NEW w, NEW rc, Sound(w, rc), NEW id
    PROVE  /\ GetPlayerById(w, id) # NoPlayer =>
                GetPlayerById(w, id) \in Elems(w.players) /\ w.info[GetPlayerById(w, id)].steamID = id
           /\ id # NoID => \A x \in Elems(w.players) : w.info[x].steamID = id => x = GetPlayerById(w, id)
<1> DEFINE S == {x \in Player : w.info[x].steamID = id}
           old == GetPlayerById(w, id)
<1>1. old = FirstIn(w.players, S, NoPlayer)
  BY DEF GetPlayerById
<1>2. old = NoPlayer \/ (old \in Elems(w.players) /\ old \in S)
  BY <1>1, FirstInElems
<1>3. w.players \in Seq(Player) /\ Elems(w.players) \subseteq Player
  BY SoundTyped DEF WorldType
<1>4. \A x \in Elems(w.players) : w.info[x].steamID = id => old \in Elems(w.players) \cap S
  <2> SUFFICES ASSUME NEW x \in Elems(w.players), w.info[x].steamID = id
               PROVE  old \in Elems(w.players) \cap S
    OBVIOUS
  <2>1. Elems(w.players) \cap S # {}
    BY <1>3
  <2> HIDE DEF S
  <2> QED BY <1>1, <1>3, <2>1, FirstInFound
<1> QED BY <1>2, <1>4 DEF Sound, Connected

\* A socket finds its player if it has one.
LEMMA FoundBySocket ==
    ASSUME NEW w, NEW rc, Sound(w, rc), NEW s
    PROVE  GetPlayerBySocket(w, s) # NoPlayer =>
               /\ GetPlayerBySocket(w, s) \in Elems(w.players)
               /\ w.info[GetPlayerBySocket(w, s)].socket = s
<1> DEFINE S == {x \in Player : w.info[x].socket = s}
<1>1. GetPlayerBySocket(w, s) = FirstIn(w.players, S, NoPlayer)
  BY DEF GetPlayerBySocket
<1> DEFINE p == GetPlayerBySocket(w, s)
<1>2. p = NoPlayer \/ (p \in Elems(w.players) /\ p \in S)
  BY <1>1, FirstInElems
<1> QED BY <1>2

(***************************************************************************)
(* The life of a socket.                                                   *)
(***************************************************************************)
\* A failed receive closes a socket once: it was open if a player holds it.
LEMMA RecvFailsSound ==
    ASSUME NEW w, NEW rc \in [Socket -> BOOLEAN], Sound(w, rc), NEW s \in Socket, rc[s]
    PROVE  Sound(Close(w, s), [rc EXCEPT ![s] = FALSE])
<1> DEFINE v == Close(w, s)
           rd == [rc EXCEPT ![s] = FALSE]
<1>1. w \in WorldType /\ Good(w) /\ Elems(w.players) \subseteq Player
  BY SoundTyped DEF Sound
<1>2. /\ Good(v) /\ v.players = w.players /\ v.pool = w.pool /\ v.info = w.info /\ v.slot = w.slot
      /\ v.rooms = w.rooms
      /\ \A x \in Socket \ {s} : /\ v.sock[x] = w.sock[x]
                                 /\ x \in Elems(v.inbox) <=> x \in Elems(w.inbox)
                                 /\ Once(w.inbox, x) => Once(v.inbox, x)
      /\ w.sock[s] = "open" => v.sock = [w.sock EXCEPT ![s] = "closing"] /\ v.inbox = w.inbox
  BY <1>1, CloseFields DEF SameRooms
<1> HIDE DEF v
<1>3. rd[s] = FALSE /\ \A x \in Socket \ {s} : rd[x] = rc[x]
  OBVIOUS
<1> HIDE DEF rd
<1>4. Pooled(v) /\ Seated(v)
  BY <1>2 DEF Sound, Pooled, Seated, Nonempty
<1>5. \A x \in Elems(v.players) :
        /\ v.info[x].socket \in Socket
        /\ Served(v, rd, v.info[x].socket)
        /\ Lost(v, x) => Quiet(v, rd, v.info[x].socket)
  <2> SUFFICES ASSUME NEW x \in Elems(w.players)
               PROVE  /\ w.info[x].socket \in Socket
                      /\ Served(v, rd, w.info[x].socket)
                      /\ Lost(v, x) => Quiet(v, rd, w.info[x].socket)
    BY <1>2
  <2>1. /\ w.info[x].socket \in Socket /\ Served(w, rc, w.info[x].socket)
        /\ Lost(w, x) => Quiet(w, rc, w.info[x].socket)
    BY DEF Sound, Connected
  <2>2. Lost(v, x) <=> Lost(w, x)
    BY <1>2 DEF Lost
  <2>3. CASE w.info[x].socket # s
    BY <1>2, <1>3, <2>1, <2>2, <2>3 DEF Served, Quiet
  <2>4. CASE w.info[x].socket = s
    BY <1>1, <2>1, <2>4, <1>2, <1>3, <2>2 DEF WorldType, Served, Quiet, SockState
  <2> QED BY <2>3, <2>4
<1>6. Connected(v, rd)
  BY <1>2, <1>5 DEF Sound, Connected
<1> QED BY <1>2, <1>4, <1>6 DEF Sound, v, rd

\* The end of a close posts the only CLOSE that a player of this socket will see.
LEMMA CloseDoneSound ==
    ASSUME NEW w, NEW rc, Sound(w, rc), NEW s \in Socket, w.sock[s] = "closing"
    PROVE  Sound([w EXCEPT !.sock[s] = "free", !.inbox = Append(w.inbox, s)], rc)
<1> DEFINE v == [w EXCEPT !.sock[s] = "free", !.inbox = Append(w.inbox, s)]
<1>1. w \in WorldType /\ Good(w) /\ ListsAgree(w) /\ Elems(w.players) \subseteq Player
      /\ w.inbox \in Seq(Socket \cup {NoSocket})
  BY SoundTyped DEF Sound, WorldType
<1>2. Append(w.inbox, s) \in Seq(Socket \cup {NoSocket})
  BY <1>1
<1>3. v \in WorldType /\ SameRooms(v, w)
  BY <1>1, <1>2 DEF WorldType, SockState, SameRooms
<1>4. /\ v.players = w.players /\ v.pool = w.pool /\ v.info = w.info /\ v.slot = w.slot
      /\ v.rooms = w.rooms /\ v.inbox = Append(w.inbox, s) /\ v.sock = [w.sock EXCEPT ![s] = "free"]
  BY <1>1 DEF WorldType
<1>5. v.sock[s] = "free" /\ \A x \in Socket \ {s} : v.sock[x] = w.sock[x]
  BY <1>1, <1>4 DEF WorldType
<1> HIDE DEF v
<1>6. \A x \in Socket \ {s} : /\ x \in Elems(v.inbox) <=> x \in Elems(w.inbox)
                              /\ Once(w.inbox, x) => Once(v.inbox, x)
  BY <1>1, <1>4, AppendOnce
<1>7. Good(v)
  BY <1>1, <1>3, SameRoomsGood
<1>8. Pooled(v) /\ Seated(v)
  BY <1>4 DEF Sound, Pooled, Seated, Nonempty
<1>9. s \notin Elems(w.inbox) => Once(v.inbox, s)
  BY <1>1, <1>4, LenProperties, AppendProperties DEF Once, Elems
<1>10. \A x \in Elems(v.players) :
        /\ v.info[x].socket \in Socket
        /\ Served(v, rc, v.info[x].socket)
        /\ Lost(v, x) => Quiet(v, rc, v.info[x].socket)
  <2> SUFFICES ASSUME NEW x \in Elems(w.players)
               PROVE  /\ w.info[x].socket \in Socket
                      /\ Served(v, rc, w.info[x].socket)
                      /\ Lost(v, x) => Quiet(v, rc, w.info[x].socket)
    BY <1>4
  <2>1. /\ w.info[x].socket \in Socket /\ Served(w, rc, w.info[x].socket)
        /\ Lost(w, x) => Quiet(w, rc, w.info[x].socket)
    BY DEF Sound, Connected
  <2>2. Lost(v, x) <=> Lost(w, x)
    BY <1>4 DEF Lost
  <2>3. CASE w.info[x].socket # s
    BY <1>5, <1>6, <2>1, <2>2, <2>3 DEF Served, Quiet
  <2>4. CASE w.info[x].socket = s
    BY <1>5, <1>9, <2>1, <2>2, <2>4 DEF Served, Quiet
  <2> QED BY <2>3, <2>4
<1>11. Connected(v, rc)
  BY <1>4, <1>10 DEF Sound, Connected
<1> QED BY <1>7, <1>8, <1>11 DEF Sound, v

\* Who the first CLOSE of the queue is for was connected, and there is no second one.
LEMMA CloseTakenSound ==
    ASSUME NEW w, NEW rc, Sound(w, rc), w.inbox # << >>
    PROVE  LET v == [w EXCEPT !.inbox = Tail(w.inbox)]
           IN  /\ Sound(v, rc) /\ v.players = w.players /\ v.info = w.info
               /\ \A x \in Elems(w.players) :
                    w.info[x].socket = Head(w.inbox) => ~Lost(v, x) /\ Quiet(v, rc, v.info[x].socket)
<1> DEFINE v == [w EXCEPT !.inbox = Tail(w.inbox)]
           s == Head(w.inbox)
<1>1. w \in WorldType /\ Good(w) /\ ListsAgree(w) /\ Elems(w.players) \subseteq Player
      /\ w.inbox \in Seq(Socket \cup {NoSocket})
  BY SoundTyped DEF Sound, WorldType
<1>2. Tail(w.inbox) \in Seq(Socket \cup {NoSocket})
  BY <1>1
<1>3. v \in WorldType /\ SameRooms(v, w)
  BY <1>1, <1>2 DEF WorldType, SameRooms
<1>4. /\ v.players = w.players /\ v.pool = w.pool /\ v.info = w.info /\ v.slot = w.slot
      /\ v.rooms = w.rooms /\ v.inbox = Tail(w.inbox) /\ v.sock = w.sock
  BY <1>1 DEF WorldType
<1> HIDE DEF v
<1>5. Good(v)
  BY <1>1, <1>3, SameRoomsGood
<1>6. /\ Len(w.inbox) \in Nat \ {0} /\ DOMAIN w.inbox = 1 .. Len(w.inbox) /\ s = w.inbox[1]
      /\ DOMAIN v.inbox = 1 .. (Len(w.inbox) - 1)
      /\ \A i \in 1 .. (Len(w.inbox) - 1) : v.inbox[i] = w.inbox[i + 1]
  BY <1>1, <1>2, <1>4, LenProperties, HeadTailProperties
<1>7. Elems(v.inbox) \subseteq Elems(w.inbox) /\ s \in Elems(w.inbox)
  <2>1. \A i \in DOMAIN v.inbox : i + 1 \in DOMAIN w.inbox /\ v.inbox[i] = w.inbox[i + 1]
    BY <1>6
  <2>2. 1 \in DOMAIN w.inbox
    BY <1>6
  <2> HIDE DEF s
  <2> QED BY <1>6, <2>1, <2>2 DEF Elems
<1>8. \A x : Once(w.inbox, x) => Once(v.inbox, x)
  <2> SUFFICES ASSUME NEW x, Once(w.inbox, x), NEW i \in DOMAIN v.inbox, NEW j \in DOMAIN v.inbox,
                      v.inbox[i] = x, v.inbox[j] = x
               PROVE  i = j
    BY DEF Once
  <2>1. i + 1 \in DOMAIN w.inbox /\ j + 1 \in DOMAIN w.inbox /\ w.inbox[i + 1] = x /\ w.inbox[j + 1] = x
    <3>1. i \in 1 .. (Len(w.inbox) - 1) /\ j \in 1 .. (Len(w.inbox) - 1)
      BY <1>6
    <3>2. i + 1 \in 1 .. Len(w.inbox) /\ j + 1 \in 1 .. Len(w.inbox)
      BY <1>6, <3>1
    <3> QED BY <1>6, <3>1, <3>2
  <2>2. i + 1 = j + 1
    BY <2>1 DEF Once
  <2> QED BY <1>6, <2>2
<1>9. Once(w.inbox, s) => s \notin Elems(v.inbox)
  <2> SUFFICES ASSUME Once(w.inbox, s), NEW i \in DOMAIN v.inbox, v.inbox[i] = s PROVE FALSE
    BY DEF Elems
  <2>1. i + 1 \in DOMAIN w.inbox /\ w.inbox[i + 1] = s /\ 1 \in DOMAIN w.inbox /\ i + 1 # 1
    BY <1>6
  <2> QED BY <1>6, <2>1 DEF Once
<1>10. Pooled(v) /\ Seated(v)
  BY <1>4 DEF Sound, Pooled, Seated, Nonempty
<1>11. Connected(v, rc)
  BY <1>4, <1>7, <1>8 DEF Sound, Connected, Served, Quiet, Lost
<1>12. ASSUME NEW x \in Elems(w.players), w.info[x].socket = s
       PROVE  ~Lost(v, x) /\ Quiet(v, rc, v.info[x].socket)
  <2>1. s \in Socket /\ Served(w, rc, s) /\ (Lost(w, x) => Quiet(w, rc, s))
    BY <1>12 DEF Sound, Connected
  <2>2. w.sock[s] \in SockState
    BY <1>1, <2>1 DEF WorldType
  <2> HIDE DEF s
  <2>3. w.sock[s] = "free" /\ ~rc[s] /\ Once(w.inbox, s) /\ ~Lost(w, x)
    BY <1>7, <2>1, <2>2 DEF Served, Quiet, SockState
  <2> QED BY <1>4, <1>9, <1>12, <2>3 DEF Quiet, Lost
<1> QED BY <1>4, <1>5, <1>10, <1>11, <1>12 DEF Sound, v

(***************************************************************************)
(* The states of GameServer.                                               *)
(***************************************************************************)
\* The invariant: the types and lists of IInv, and a sound world.
Consistent == IInv /\ Sound(World, recv)

\* The steps that are excluded: a ping timeout closes the socket of a player again at
\* every update, and a socket is not recycled while a player holds it.
Exclusive == "Ping" \notin Events /\ Recycles = FALSE

LEMMA WorldFields ==
    /\ World.players = players /\ World.pool = pool /\ World.info = info /\ World.rooms = rooms
    /\ World.slot = slot /\ World.state = state /\ World.matchRooms = matchRooms
    /\ World.gameRooms = gameRooms /\ World.sock = sock /\ World.inbox = inbox
  BY DEF World

\* A step that commits a sound world keeps the state consistent.
LEMMA CommitSound ==
    ASSUME NEW w, Sound(w, recv'), Commit(w), IInv'
    PROVE  Consistent'
<1> DEFINE v == World'
<1>1. w \in WorldType
  BY DEF Sound, Good
<1>2. /\ v.players = w.players /\ v.pool = w.pool /\ v.info = w.info /\ v.rooms = w.rooms
      /\ v.slot = w.slot /\ v.state = w.state /\ v.matchRooms = w.matchRooms
      /\ v.gameRooms = w.gameRooms /\ v.sock = w.sock /\ v.inbox = w.inbox
  BY DEF Commit, World
<1>3. v = w
  BY <1>1 DEF Commit, World, WorldType
<1> HIDE DEF v
<1>4. Sound(v, recv')
  BY <1>3
<1> QED BY <1>4 DEF Consistent, v

LEMMA ReplySound ==
    ASSUME Consistent, NEW w, Sound(w, recv), Reply(w)
    PROVE  Consistent'
  BY ReplyGood, CommitSound DEF Consistent, Sound, Reply

\* A server that has just started serves nobody.
LEMMA FreshSound ==
    ASSUME NEW rc
    PROVE  Sound(Fresh, rc)
  BY FreshGood DEF Fresh, Elems, Distinct, Sound, Pooled, Connected, Seated

LEMMA CrashSound ==
    ASSUME Crash
    PROVE  Consistent'
  BY FreshSound, CrashGood, CommitSound DEF Crash

\* The player of a request is a listed, connected player.
LEMMA MeListed ==
    ASSUME Consistent, NEW s
    PROVE  Me(s) # NoPlayer => /\ Me(s) \in Elems(players) /\ Me(s) \in Player
                               /\ info[Me(s)].socket = s
                               /\ recv[s] => ~Lost(World, Me(s))
<1> SUFFICES ASSUME Me(s) # NoPlayer
             PROVE  /\ Me(s) \in Elems(players) /\ Me(s) \in Player
                    /\ info[Me(s)].socket = s
                    /\ recv[s] => ~Lost(World, Me(s))
  OBVIOUS
<1>1. Me(s) \in Elems(players) /\ info[Me(s)].socket = s
  BY WorldFields, FoundBySocket DEF Consistent, Me
<1>2. Elems(players) \subseteq Player
  BY WorldFields, SoundTyped DEF Consistent
<1>3. recv[s] => ~Lost(World, Me(s))
  BY <1>1, WorldFields DEF Consistent, Sound, Connected, Quiet
<1> QED BY <1>1, <1>2, <1>3

\* Identifying a connection gives one player the ID.
LEMMA IdentifiedSound ==
    ASSUME Consistent, NEW id \in SteamID \cup {NoID}, NEW me \in Elems(players)
    PROVE  /\ Sound(Identified(id, me).world, recv)
           /\ Identified(id, me).player \in Elems(Identified(id, me).world.players)
           /\ Identified(id, me).world.info[Identified(id, me).player].steamID = id
<1> DEFINE old == GetPlayerById(World, id)
           absorbs == old # NoPlayer /\ info[old].socket # info[me].socket
           who == IF absorbs THEN old ELSE me
           w == IF absorbs THEN AbsorbPlayer(World, me, old) ELSE World
           in == [w.info EXCEPT ![who].steamID = id]
           u == [w EXCEPT !.info = in]
<1>1. Identified(id, me) = [world |-> u, player |-> who]
  BY DEF Identified
<1>2. Sound(World, recv) /\ World.players = players /\ World.info = info
  BY WorldFields DEF Consistent
<1>3. old # NoPlayer => old \in Elems(players) /\ info[old].steamID = id
  BY <1>2, FoundById
<1>4. id # NoID => \A x \in Elems(players) : info[x].steamID = id => x = old
  BY <1>2, FoundById
<1> HIDE DEF old
<1>5. /\ Sound(w, recv) /\ who \in Elems(w.players)
      /\ id # NoID => \A x \in Elems(w.players) : w.info[x].steamID = id => x = who
  <2>1. CASE absorbs
    <3>1. old \in Elems(players) /\ old # me
      BY <1>3, <2>1
    <3>2. /\ Sound(AbsorbPlayer(World, me, old), recv)
          /\ Elems(AbsorbPlayer(World, me, old).players) = Elems(players) \ {me}
          /\ AbsorbPlayer(World, me, old).info[old].steamID = info[old].steamID
      BY <1>2, <3>1, AbsorbPlayerSound
    <3>3. who = old /\ w = AbsorbPlayer(World, me, old)
      BY <2>1
    <3> HIDE DEF who, w
    <3>4. w.info[who].steamID = id
      BY <1>3, <2>1, <3>2, <3>3
    <3>5. id # NoID => \A x \in Elems(w.players) : w.info[x].steamID = id => x = who
      BY <3>1, <3>2, <3>3, <3>4 DEF Sound, Connected
    <3> QED BY <3>1, <3>2, <3>3, <3>5
  <2>2. CASE ~absorbs
    BY <2>2, <1>2, <1>3, SoundTyped, <1>4 DEF Sound, Connected
  <2> QED BY <2>1, <2>2
<1> HIDE DEF w, who
<1>6. w.info \in [Player -> CPlayer] /\ who \in Player /\ Elems(w.players) \subseteq Player
  BY <1>5, SoundTyped
<1>7. in \in [Player -> CPlayer]
  BY <1>6 DEF CPlayer
<1>8. /\ \A x \in Player : in[x].socket = w.info[x].socket /\ in[x].state = w.info[x].state
      /\ \A x \in Player \ {who} : in[x] = w.info[x]
      /\ in[who].steamID = id
  BY <1>6 DEF CPlayer
<1> HIDE DEF in
<1>9. \A x, y \in Elems(w.players) : in[x].steamID = in[y].steamID /\ in[x].steamID # NoID => x = y
  <2> SUFFICES ASSUME NEW x \in Elems(w.players), NEW y \in Elems(w.players),
                      in[x].steamID = in[y].steamID, in[x].steamID # NoID
               PROVE  x = y
    OBVIOUS
  <2>1. CASE x = who
    BY <1>5, <1>6, <1>8, <2>1
  <2>2. CASE x # who /\ y = who
    BY <1>5, <1>6, <1>8, <2>2
  <2>3. CASE x # who /\ y # who
    BY <1>5, <1>6, <1>8, <2>3 DEF Sound, Connected
  <2> QED BY <2>1, <2>2, <2>3
<1>10. Sound(u, recv) /\ u.players = w.players /\ u.info = in
  BY <1>5, <1>7, <1>8, <1>9, InfoSound DEF Lost
<1> HIDE DEF u
<1> QED BY <1>1, <1>5, <1>8, <1>10

\* The completions of the worker threads.
LEMMA SocketStepsSound ==
    ASSUME Consistent, Exclusive, NEW s \in Socket
    PROVE  /\ \A id \in SteamID : Connect(s, id) => Consistent'
           /\ RecvFails(s) => Consistent'
           /\ CloseDone(s) => Consistent'
<1>1. IInv /\ Sound(World, recv) /\ recv \in [Socket -> BOOLEAN]
  BY WorldGood DEF Consistent
<1>2. ASSUME NEW id \in SteamID, Connect(s, id) PROVE Consistent'
  <2> DEFINE u == [World EXCEPT !.sock[s] = "open"]
  <2>1. PICK p \in pool : Commit(CreateRoom(CreatePlayer(u, p, s), p))
    BY <1>2 DEF Connect
  <2>2. /\ World.sock[s] = "free" /\ s \notin Elems(World.inbox) /\ p \in World.pool
        /\ \A x \in Elems(World.players) : World.info[x].socket # s
        /\ recv' = [recv EXCEPT ![s] = TRUE]
    BY <1>2, WorldFields DEF Connect, Exclusive
  <2>3. Sound(CreateRoom(CreatePlayer(u, p, s), p), recv')
    BY <1>1, <2>2, NewPlayerSound
  <2>4. IInv'
    BY <1>1, <1>2, ConnectStep
  <2> HIDE DEF u
  <2> QED BY <2>1, <2>3, <2>4, CommitSound
<1>3. ASSUME RecvFails(s) PROVE Consistent'
  BY <1>3, <1>1, RecvFailsSound, SocketSteps, CommitSound DEF RecvFails
<1>4. ASSUME CloseDone(s) PROVE Consistent'
  <2> DEFINE u == [World EXCEPT !.sock[s] = "free", !.inbox = Append(World.inbox, s)]
  <2>1. World.sock[s] = "closing" /\ recv' = recv /\ Commit(u)
    BY <1>4, WorldFields DEF CloseDone
  <2>2. Sound(u, recv')
    BY <1>1, <2>1, CloseDoneSound
  <2>3. IInv'
    BY <1>1, <1>4, SocketSteps
  <2> HIDE DEF u
  <2> QED BY <2>1, <2>2, <2>3, CommitSound
<1> QED BY <1>2, <1>3, <1>4

\* A CLOSE message.
LEMMA OnCloseMessageSound ==
    ASSUME Consistent, OnCloseMessage
    PROVE  Consistent'
<1> DEFINE p == Me(Head(inbox))
           w == [World EXCEPT !.inbox = Tail(World.inbox)]
           v == IF p = NoPlayer THEN w ELSE DisconnectRoom(w, p)
<1>1. Sound(World, recv) /\ World.inbox # << >> /\ World.inbox = inbox
  BY WorldFields DEF Consistent, OnCloseMessage
<1>2. Reply(v)
  BY WorldFields DEF OnCloseMessage
<1>3. /\ Sound(w, recv) /\ w.players = World.players
      /\ \A x \in Elems(World.players) :
           World.info[x].socket = Head(World.inbox) => ~Lost(w, x) /\ Quiet(w, recv, w.info[x].socket)
  BY <1>1, CloseTakenSound
<1>4. p # NoPlayer => p \in Elems(World.players) /\ World.info[p].socket = Head(World.inbox)
  BY <1>1, MeListed, WorldFields
<1> HIDE DEF w, p
<1>5. Sound(v, recv)
  BY <1>3, <1>4, DisconnectRoomSound
<1> HIDE DEF v
<1> QED BY <1>2, <1>5, ReplySound

\* The requests of the lobby.
LEMMA PartyStepsSound ==
    ASSUME Consistent, NEW s \in Socket
    PROVE  /\ AnswerId(s) => Consistent'
           /\ \A id \in SteamID : InviteFriendAnswer(s, id) => Consistent'
           /\ SetPartyKing(s) => Consistent'
           /\ FriendKickRequest(s) => Consistent'
           /\ \A isOn \in BOOLEAN : MatchRequest(s, isOn) => Consistent'
<1> DEFINE me == Me(s)
           r == GetRoom(World, me)
           w == OutRoom(World, me)
<1>1. /\ Sound(World, recv) /\ Good(World) /\ World.players = players /\ World.slot = slot
      /\ World.info = info /\ World \in WorldType
  BY WorldFields, SoundTyped DEF Consistent, Sound
<1>2. me # NoPlayer => me \in Elems(players) /\ me \in Player
  BY MeListed
<1>3. r # NoRoom => r \in Elems(World.rooms) /\ r \in Room /\ slot[r] \in Seats
  BY <1>1, GetRoomListed, SoundTyped
<1>4. me # NoPlayer => /\ Sound(w, recv) /\ w.players = players
                       /\ Absent(w, me)
  BY <1>1, <1>2, OutRoomSound DEF SamePeople, Left
<1> HIDE DEF me, r
<1>5. ASSUME AnswerId(s) PROVE Consistent'
  BY <1>5, WorldGood, <1>2, IdentifiedSound, ReplySound DEF AnswerId, Receives, me, Consistent
<1>6. ASSUME NEW id \in SteamID, InviteFriendAnswer(s, id) PROVE Consistent'
  <2> DEFINE q == GetRoom(World, GetPlayerById(World, id))
  <2>1. /\ me # NoPlayer
        /\ Crash \/ Reply(MoveInto(w, q, me))
    BY <1>6 DEF InviteFriendAnswer, Receives, me
  <2> HIDE DEF q
  <2>2. Sound(MoveInto(w, q, me), recv)
    BY <1>2, <1>4, <2>1, MoveIntoSound
  <2> HIDE DEF w
  <2> QED BY <2>1, <2>2, CrashSound, ReplySound
<1>7. ASSUME SetPartyKing(s) PROVE Consistent'
  <2> DEFINE seats(i) == [slot[r] EXCEPT ![0] = slot[r][i], ![i] = me]
  <2>1. PICK i \in Slots \ {0} :
            /\ r # NoRoom /\ me # NoPlayer /\ slot[r][0] = me
            /\ Reply([World EXCEPT !.slot[r] = seats(i)])
    BY <1>7 DEF SetPartyKing, Receives, me, r
  <2>2. i = 1
    BY TwoSlots
  <2>3. seats(1) \in Seats /\ seats(1)[0] = slot[r][1] /\ seats(1)[1] = slot[r][0]
    BY <1>2, <1>3, <2>1, TwoSlots DEF Seats
  <2> HIDE DEF seats
  <2>4. Sound([World EXCEPT !.slot[r] = seats(1)], recv)
    BY <1>1, <1>3, <2>1, <2>3, SwappedSound
  <2> QED BY <2>1, <2>2, <2>4, ReplySound
<1>8. ASSUME FriendKickRequest(s) PROVE Consistent'
  <2>1. PICK i \in Slots : /\ r # NoRoom /\ slot[r][i] # NoPlayer
                           /\ Reply(KickPlayer(World, slot[r][i]))
    BY <1>8 DEF FriendKickRequest, r, me
  <2> DEFINE p == slot[r][i]
             v == OutRoom(World, p)
  <2>2. p \in Elems(players)
    BY <1>1, <1>3, <2>1 DEF Sound, Seated
  <2>3. Sound(v, recv) /\ v.players = players /\ Absent(v, p)
    BY <1>1, <2>2, OutRoomSound DEF SamePeople, Left
  <2>4. KickPlayer(World, p) = CreateRoom(v, p)
    BY DEF KickPlayer
  <2> HIDE DEF p, v
  <2>5. Sound(CreateRoom(v, p), recv)
    BY <2>2, <2>3, CreateRoomSound
  <2> QED BY <2>1, <2>4, <2>5, ReplySound DEF p
<1>9. ASSUME NEW isOn \in BOOLEAN, MatchRequest(s, isOn) PROVE Consistent'
  <2> DEFINE st == IF isOn THEN "READY" ELSE "LOBBY"
             u == [World EXCEPT !.info[me].state = st]
  <2>1. /\ r # NoRoom /\ me # NoPlayer
        /\ Reply(CheckAndRestateRoom(u, r))
    BY <1>9 DEF MatchRequest, Receives, me, r
  <2>2. st \in EGameState \ {"ConnectionLost"}
    BY DEF EGameState
  <2> HIDE DEF st
  <2>3. Sound(u, recv) /\ u.rooms = World.rooms
    BY <1>1, <1>2, <2>1, <2>2, PlayerStateSound
  <2> HIDE DEF u
  <2>4. Sound(CheckAndRestateRoom(u, r), recv)
    BY <1>3, <2>1, <2>3, CheckAndRestateRoomSound
  <2> QED BY <2>1, <2>4, ReplySound
<1> QED BY <1>5, <1>6, <1>7, <1>8, <1>9 DEF me, r

\* A room with a player other than the one that leaves stays.
LEMMA StaysListed ==
    ASSUME NEW w, NEW rc, Sound(w, rc), NEW p \in Elems(w.players),
           NEW r \in Elems(w.rooms), \E i \in Slots : w.slot[r][i] \notin {p, NoPlayer}
    PROVE  r \in Elems(OutRoom(w, p).rooms)
  BY OutRoomSound DEF Left

\* The debug requests.
LEMMA DebugStepsSound ==
    ASSUME Consistent, NEW s \in Socket
    PROVE  /\ Debug_RoomStart(s) => Consistent'
           /\ Debug_GameStart(s) => Consistent'
<1> DEFINE me == Me(s)
           r == GetRoom(World, me)
           w == OutRoom(World, me)
           Joined(q) == JoinRoom(w, q, me).world
<1>1. /\ Sound(World, recv) /\ World.players = players /\ World.rooms = rooms
      /\ World.slot = slot /\ World.gameRooms = gameRooms
  BY WorldFields DEF Consistent
<1>2. me # NoPlayer => me \in Elems(players) /\ me \in Player
  BY MeListed
<1>3. r # NoRoom => r \in Elems(rooms)
  BY <1>1, GetRoomListed DEF Sound
<1> HIDE DEF me, r
<1>4. ASSUME me # NoPlayer, NEW q \in Elems(rooms), me \notin Members(World, q)
      PROVE  Sound(Joined(q), recv)
  <2>1. Sound(w, recv) /\ w.players = players /\ Absent(w, me)
    BY <1>1, <1>2, <1>4, OutRoomSound DEF SamePeople, Left
  <2>2. \E i \in Slots : World.slot[q][i] \notin {me, NoPlayer}
    BY <1>1, <1>4, TwoSlots DEF Sound, Seated, Nonempty, Members
  <2>3. q \in Elems(w.rooms)
    BY <1>1, <1>2, <1>4, <2>2, StaysListed
  <2> HIDE DEF w
  <2> QED BY <1>2, <1>4, <2>1, <2>3, JoinRoomSound
<1> HIDE DEF Joined
<1>5. ASSUME Debug_RoomStart(s) PROVE Consistent'
  <2> DEFINE target == FirstIn(rooms, Open(World, Room, me), NoRoom)
  <2>1. me # NoPlayer /\ target # NoRoom /\ Reply(Joined(target))
    BY <1>5 DEF Debug_RoomStart, Receives, me, Joined
  <2>2. target \in Elems(rooms) /\ target \in Open(World, Room, me)
    BY <2>1, FirstInElems
  <2>3. me \notin Members(World, target)
    BY <2>2 DEF Open
  <2> HIDE DEF target
  <2> QED BY <1>4, <2>1, <2>2, <2>3, ReplySound
<1>6. ASSUME Debug_GameStart(s) PROVE Consistent'
  <2> DEFINE u(q) == [Joined(q) EXCEPT !.info[me].state = "GAME"]
             targets == Open(World, gameRooms, me)
  <2>1. /\ me # NoPlayer /\ r # NoRoom /\ state[r] # "GAME"
        /\ \/ \E q \in targets : Reply(u(q))
           \/ Reply(ChangeRoomState(World, r, "GAME"))
    BY <1>6 DEF Debug_GameStart, Receives, me, r, Joined
  <2>2. \A q \in targets : q \in Elems(rooms) /\ me \notin Members(World, q)
    BY <1>1 DEF Open, Sound, Good, ListsAgree, InState
  <2> HIDE DEF targets
  <2>3. CASE \E q \in targets : Reply(u(q))
    <3>1. PICK q \in targets : Reply(u(q))
      BY <2>3
    <3>2. Sound(Joined(q), recv)
      BY <1>4, <2>1, <2>2
    <3>3. Sound(u(q), recv)
      BY <1>2, <2>1, <3>2, PlayerStateSound DEF EGameState
    <3> HIDE DEF u
    <3> QED BY <3>1, <3>3, ReplySound
  <2>4. CASE Reply(ChangeRoomState(World, r, "GAME"))
    BY <1>1, <1>3, <2>1, ChangeRoomStateSound, <2>4, ReplySound DEF RoomState
  <2> QED BY <2>1, <2>3, <2>4
<1> QED BY <1>5, <1>6

\* The end of a game: who asks for it keeps its seat.
LEMMA EndGameSound ==
    ASSUME Consistent, NEW s \in Socket, InGame_EndGame(s)
    PROVE  Consistent'
<1> DEFINE me == Me(s)
           r == GetGameRoom(World, me)
           u == Evict(World, r, 0)
           v == Evict(u, r, 1)
           x == ChangeRoomState(v, r, "LOBBY")
<1>1. r # NoRoom /\ Reply(x) /\ recv[s] /\ me # NoPlayer
  BY DEF InGame_EndGame, Receives
<1>2. /\ Sound(World, recv) /\ Good(World) /\ World.players = players
  BY WorldFields DEF Consistent, Sound
<1>3. me \in Player /\ ~Lost(World, me)
  BY <1>1, MeListed
<1>4. r = GetRoom(World, me)
  BY <1>1 DEF GetGameRoom
<1>5. PICK j \in Slots : r \in Elems(World.rooms) /\ World.slot[r][j] = me
  BY <1>1, <1>2, <1>3, <1>4, GetRoomSeats
<1> HIDE DEF r, me
<1>6. 0 \in Slots /\ 1 \in Slots
  BY TwoSlots
<1>7. Sound(u, recv) /\ u.rooms = World.rooms /\ u.slot[r][j] = me /\ u.info[me] = World.info[me]
  BY <1>1, <1>2, <1>3, <1>5, <1>6, EvictSound
<1> HIDE DEF u
<1>8. ~Lost(u, me)
  BY <1>3, <1>7 DEF Lost
<1>9. Sound(v, recv) /\ v.rooms = u.rooms
  BY <1>1, <1>5, <1>6, <1>7, <1>8, EvictSound
<1> HIDE DEF v
<1>10. Sound(x, recv)
  BY <1>5, <1>7, <1>9, ChangeRoomStateSound DEF RoomState
<1> QED BY <1>1, <1>10, ReplySound

\* A client that comes back: to its game, to the room of an old member, or to a new one.
LEMMA ReconnectServerSound ==
    ASSUME Consistent, NEW s \in Socket, NEW seats, NEW isGameRoom,
           InGame_ReconnectServer(s, seats, isGameRoom)
    PROVE  Consistent'
<1> DEFINE id == client[s]
           me == Me(s)
           w1 == Identified(id, me).world
           who == Identified(id, me).player
           r1 == GetGameRoom(w1, who)
           r2 == OldRoom(w1, id, seats)
           w2 == OutRoom(w1, who)
           r3 == NewRoom(w2)
           w3 == CreateRoom(w2, who)
           w4 == IF isGameRoom THEN ChangeRoomState(w3, r3, "GAME") ELSE w3
           w5 == JoinRoom(w2, r2, who).world
<1>1. /\ me # NoPlayer
      /\ \/ r1 # NoRoom /\ Reply(Remaster(w1, r1, seats))
         \/ r2 # NoRoom /\ Reply(Remaster(w5, r2, seats))
         \/ FreeRooms(w2) # {} /\ Reply(Remaster(w4, r3, seats))
  BY DEF InGame_ReconnectServer, Receives
<1>2. me # NoPlayer => me \in Elems(players)
  BY MeListed
<1> HIDE DEF me
<1>3. id \in SteamID \cup {NoID}
  BY WorldGood DEF Consistent
<1> HIDE DEF id
<1>4. Sound(w1, recv) /\ who \in Elems(w1.players) /\ w1.info[who].steamID = id
  BY <1>1, <1>2, <1>3, IdentifiedSound
<1> HIDE DEF w1, who
<1>5. Good(w1) /\ Elems(w1.players) \subseteq Player
  BY <1>4, SoundTyped DEF Sound
<1>6. r1 # NoRoom => r1 \in Elems(w1.rooms)
  BY <1>5, GetRoomListed
<1>7. Sound(w2, recv) /\ w2.players = w1.players /\ Absent(w2, who) /\ Good(w2)
  BY <1>4, OutRoomSound DEF SamePeople, Left, Sound
<1>8. r2 # NoRoom => r2 \in Elems(w2.rooms)
  <2> SUFFICES ASSUME r2 # NoRoom PROVE r2 \in Elems(w2.rooms)
    OBVIOUS
  <2>1. PICK i \in Slots : seats[i] # id /\ r2 = GetRoom(w1, GetPlayerById(w1, seats[i]))
    BY TwoSlots DEF OldRoom
  <2> DEFINE y == GetPlayerById(w1, seats[i])
  <2>2. r2 = GetRoom(w1, y) /\ y # NoPlayer
    BY <2>1 DEF GetRoom
  <2> HIDE DEF r2
  <2>3. y \in Elems(w1.players) /\ w1.info[y].steamID = seats[i]
    BY <1>4, <2>2, FoundById
  <2>4. y # who
    BY <1>4, <2>1, <2>3
  <2> HIDE DEF y
  <2>5. r2 \in Elems(w1.rooms) /\ \E j \in Slots : w1.slot[r2][j] = y
    BY <1>5, <2>2, <2>3, GetRoomSeats
  <2> QED BY <1>4, <2>2, <2>4, <2>5, StaysListed
<1> HIDE DEF r1, r2, w2
<1>9. r1 # NoRoom => Sound(Remaster(w1, r1, seats), recv)
  BY <1>4, <1>6, RemasterSound
<1>10. ASSUME r2 # NoRoom PROVE Sound(Remaster(w5, r2, seats), recv)
  <2>1. Sound(w5, recv) /\ w5.rooms = w2.rooms
    BY <1>4, <1>7, <1>8, <1>10, JoinRoomSound
  <2> HIDE DEF w5
  <2> QED BY <1>8, <1>10, <2>1, RemasterSound
<1>11. ASSUME FreeRooms(w2) # {} PROVE Sound(Remaster(w4, r3, seats), recv)
  <2>1. r3 \in Elems(w3.rooms)
    BY <1>4, <1>5, <1>7, <1>11, CreateRoomGood
  <2>2. Sound(w3, recv)
    BY <1>4, <1>7, CreateRoomSound
  <2> HIDE DEF w3, r3
  <2>3. Sound(ChangeRoomState(w3, r3, "GAME"), recv) /\ ChangeRoomState(w3, r3, "GAME").rooms = w3.rooms
    BY <2>1, <2>2, ChangeRoomStateSound DEF RoomState
  <2>4. Sound(w4, recv) /\ r3 \in Elems(w4.rooms)
    BY <2>1, <2>2, <2>3
  <2> HIDE DEF w4
  <2> QED BY <2>4, RemasterSound
<1> QED BY <1>1, <1>9, <1>10, <1>11, ReplySound

\* The periodic update and the restart.
LEMMA UpdateStepsSound ==
    ASSUME Consistent
    PROVE  /\ UpdateMatch => Consistent'
           /\ UpdateCleanup => Consistent'
           /\ UpdateEnd => Consistent'
           /\ Restart => Consistent'
<1>1. Sound(World, recv) /\ Good(World) /\ IInv /\ World.rooms = rooms
  BY WorldFields DEF Consistent, Sound
<1>2. ASSUME UpdateMatch PROVE Consistent'
  <2>1. PICK m \in Matching(World) : Commit(StartGame(World, m[1], m[2]))
    BY <1>2 DEF UpdateMatch
  <2> DEFINE i == m[1]
             j == m[2]
  <2>2. i \in Elems(World.rooms) /\ j \in Elems(World.rooms) /\ Matches(World, i, j)
    BY <1>1, MatchingListed
  <2> HIDE DEF i, j
  <2>3. PICK v : /\ StartGame(World, i, j) = ChangeRoomState(v, i, "GAME")
                 /\ Sound(v, recv) /\ OneRoom(v, World, i, j)
    BY <1>1, <2>2, StartGameSound
  <2>4. Sound(StartGame(World, i, j), recv)
    BY <2>3, ChangeRoomStateSound DEF RoomState, OneRoom
  <2>5. recv' = recv /\ IInv'
    BY <1>1, <1>2, UpdateSteps DEF UpdateMatch
  <2> QED BY <2>1, <2>4, <2>5, CommitSound DEF i, j
<1>3. ASSUME UpdateCleanup PROVE Consistent'
  <2> DEFINE r == FirstIn(rooms, Deserted(World), NoRoom)
  <2>1. r # NoRoom /\ ((Commit(DropRoom(World, r)) /\ recv' = recv) \/ Crash)
    BY <1>3 DEF UpdateCleanup
  <2>2. r \in Elems(World.rooms)
    BY <1>1, <2>1, FirstInElems
  <2> HIDE DEF r
  <2>3. Sound(DropRoom(World, r), recv)
    BY <1>1, <2>2, DropRoomSound
  <2>4. IInv'
    BY <1>1, <1>3, UpdateSteps
  <2> QED BY <2>1, <2>3, <2>4, CommitSound, CrashSound
<1>4. ASSUME UpdateEnd \/ Restart PROVE Consistent'
  BY <1>4, <1>1, UpdateSteps DEF UpdateEnd, Restart, data, World, Consistent
<1> QED BY <1>2, <1>3, <1>4

\* The invariant holds at the start,
LEMMA InitConsistent == Init => Consistent
<1> SUFFICES ASSUME Init PROVE Consistent
  OBVIOUS
<1>1. World = Fresh
  BY DEF Init, World, Fresh
<1> QED BY <1>1, InitGood, FreshSound DEF Consistent

\* and every step that is not excluded preserves it.
LEMMA NextConsistent == Exclusive /\ Consistent /\ [Next]_vars => Consistent'
<1> SUFFICES ASSUME Exclusive, Consistent, [Next]_vars PROVE Consistent'
  OBVIOUS
<1>1. CASE UNCHANGED vars
  BY <1>1, NextGood DEF vars, World, Consistent
<1>2. CASE Next
  BY <1>2, SocketStepsSound, OnCloseMessageSound, PartyStepsSound, DebugStepsSound, EndGameSound,
    ReconnectServerSound, UpdateStepsSound DEF UpdatePing, Exclusive, Next
<1> QED BY <1>1, <1>2

\* What the logic thread keeps about players and rooms fits together in every state, for any
\* numbers of players, rooms, sockets and clients and any requests, those of the debug build
\* and of a restarted server among them.  The run LostPlayers shows what a second close of a
\* socket, which the hypotheses exclude, does to a player that is in a seat.
THEOREM ServerConsistentCorrect == Exclusive => (Spec => []ServerConsistent)
<1> SUFFICES ASSUME Exclusive PROVE Spec => []ServerConsistent
  OBVIOUS
<1>1. Init => Consistent
  BY InitConsistent
<1>2. Consistent /\ [Next]_vars => Consistent'
  BY NextConsistent
<1>3. Consistent => ServerConsistent
  <2> SUFFICES ASSUME Consistent PROVE ServerConsistent
    OBVIOUS
  <2>1. /\ Sound(World, recv) /\ RoomListsOK /\ Elems(World.players) \subseteq Player
    BY SoundTyped DEF Consistent, IInv
  <2>2. PlayersOK
    BY <2>1, WorldFields DEF Sound, Pooled, Distinct, PlayersOK, Listed
  <2>3. SeatsOK
    BY <2>1, WorldFields DEF Sound, Seated, SeatsOK, ListedRooms, Listed, Members
  <2>4. UniqueIds
    BY <2>1, WorldFields DEF Sound, Connected, UniqueIds, Listed
  <2>5. NoEmptyRoom
    BY <2>1, WorldFields, CountNonempty DEF Sound, Seated, NoEmptyRoom, ListedRooms
  <2> QED BY <2>1, <2>2, <2>3, <2>4, <2>5 DEF ServerConsistent
<1> QED BY <1>1, <1>2, <1>3, PTL DEF Spec

(***************************************************************************)
(* The player objects, also when sockets are reused and closed twice.      *)
(* Then seats may point to objects of the pool, and the requests that join *)
(* a room by the steam ID of somebody in it may put such an object back    *)
(* into the vector; without them the vector and the pool share the objects *)
(* out.  The invariant is Pooled with the typing of GameServerProofs.      *)
(***************************************************************************)
NoJoins == Events \cap {"Reconnect", "DebugRoom", "DebugGame"} = {}

Shared(w) == Good(w) /\ Pooled(w)
SamePlayers(v, w) == v.players = w.players /\ v.pool = w.pool

\* The operations on rooms do not touch the vector and the pool,
LEMMA RoomsSamePlayers ==
    ASSUME NEW w, Good(w), NEW r, NEW p
    PROVE  /\ SamePlayers(DeleteRoom(w, r), w)
           /\ SamePlayers(CreateRoom(w, p), w)
           /\ \A st : SamePlayers(ChangeRoomState(w, r, st), w)
           /\ SamePlayers(CheckAndRestateRoom(w, r), w)
           /\ SamePlayers(Close(w, r), w)
<1>1. w \in WorldType
  BY DEF Good
<1>2. SamePlayers(DeleteRoom(w, r), w)
  BY <1>1 DEF DeleteRoom, WorldType, SamePlayers
<1>3. SamePlayers(CreateRoom(w, p), w)
  BY <1>1 DEF CreateRoom, WorldType, SamePlayers
<1>4. ASSUME NEW st PROVE SamePlayers(ChangeRoomState(w, r, st), w)
  <2> DEFINE mr == CASE st = "READY" -> w.matchRooms \cup {r}
                     [] st = "GAME"  -> w.matchRooms \ {r}
                     [] OTHER -> IF w.state[r] = "READY" THEN w.matchRooms \ {r} ELSE w.matchRooms
             gr == CASE st = "GAME" -> w.gameRooms \cup {r}
                     [] OTHER -> IF st = "LOBBY" /\ w.state[r] = "GAME" THEN w.gameRooms \ {r} ELSE w.gameRooms
             u == [w EXCEPT !.matchRooms = mr, !.gameRooms = gr]
  <2>1. ChangeRoomState(w, r, st) \in {w, SetState(u, r, st)}
    BY DEF ChangeRoomState
  <2> HIDE DEF mr, gr
  <2>2. SamePlayers(u, w) /\ SamePlayers(SetState(u, r, st), u)
    BY <1>1 DEF WorldType, SamePlayers, SetState
  <2> HIDE DEF u
  <2> QED BY <2>1, <2>2 DEF SamePlayers
<1>5. SamePlayers(CheckAndRestateRoom(w, r), w)
  BY <1>4 DEF CheckAndRestateRoom, SamePlayers
<1>6. SamePlayers(Close(w, r), w)
  BY <1>1 DEF Close, WorldType, SamePlayers
<1> QED BY <1>2, <1>3, <1>4, <1>5, <1>6

\* nor do the writes to one seat, to the fields of players or to the sockets.
LEMMA WritesSamePlayers ==
    ASSUME NEW w, Good(w), NEW x, NEW y, NEW z
    PROVE  /\ SamePlayers([w EXCEPT !.slot[x] = y], w)
           /\ SamePlayers([w EXCEPT !.info = y], w)
           /\ SamePlayers([w EXCEPT !.sock[x] = y], w)
           /\ SamePlayers([w EXCEPT !.inbox = y], w)
           /\ SamePlayers([w EXCEPT !.sock[x] = y, !.inbox = z], w)
  BY DEF Good, WorldType, SamePlayers

\* Leaving a room.
LEMMA OutRoomSamePlayers ==
    ASSUME NEW w, Good(w), NEW p
    PROVE  SamePlayers(LeaveRoom(w, p), w) /\ SamePlayers(OutRoom(w, p), w)
<1>1. ASSUME NEW x, Good(x) PROVE SamePlayers(LeaveRoom(x, p), x)
  <2> DEFINE r == GetRoom(x, p)
             u == [x EXCEPT !.slot[r] = Without(x.slot[r], p)]
             v == CheckAndRestateRoom(u, r)
  <2>1. LeaveRoom(x, p) \in IF r = NoRoom THEN {x} ELSE {DeleteRoom(x, r), v, DeleteRoom(v, r)}
    BY DEF LeaveRoom
  <2>2. r \in Elems(x.rooms) \cup {NoRoom} /\ Elems(x.rooms) \subseteq Room
    BY <1>1, GetRoomListed
  <2> HIDE DEF r
  <2>3. CASE r = NoRoom
    BY <2>1, <2>3 DEF SamePlayers
  <2>4. CASE r # NoRoom
    <3>1. x.slot[r] \in Seats
      BY <1>1, <2>2, <2>4 DEF Good, WorldType
    <3>2. Good(u) /\ SamePlayers(u, x) /\ u.rooms = x.rooms
      <4>1. r \in Room /\ Without(x.slot[r], p) \in Seats
        BY <2>2, <2>4, <3>1, SeatsTyped
      <4>2. Good(u) /\ SameRooms(u, x)
        BY <1>1, <4>1, SlotGood
      <4>3. SamePlayers(u, x)
        BY <1>1, WritesSamePlayers
      <4> QED BY <4>2, <4>3 DEF SameRooms
    <3> HIDE DEF u
    <3>3. Good(v) /\ SamePlayers(v, u)
      BY <2>2, <2>4, <3>2, CheckAndRestateRoomGood, RoomsSamePlayers
    <3> HIDE DEF v
    <3>4. SamePlayers(DeleteRoom(v, r), v) /\ SamePlayers(DeleteRoom(x, r), x)
      BY <1>1, <3>3, RoomsSamePlayers
    <3> QED BY <2>1, <2>4, <3>2, <3>3, <3>4 DEF SamePlayers
  <2> QED BY <2>3, <2>4
<1>2. Good(LeaveRoom(w, p))
  BY LeaveRoomGood
<1> QED BY <1>1, <1>2 DEF OutRoom, SamePlayers

\* An object that leaves the vector goes into the pool.
LEMMA RemovePlayerShared ==
    ASSUME NEW w, Shared(w), NEW p
    PROVE  /\ Shared(RemovePlayer(w, p))
           /\ Elems(RemovePlayer(w, p).players) = Elems(w.players) \ {p}
<1> DEFINE v == RemovePlayer(w, p)
<1>1. w \in WorldType /\ w.players \in Seq(Player) /\ Elems(w.players) \subseteq Player
  BY ElemsTyped DEF Shared, Good, WorldType
<1>2. Good(v)
  BY RemovePlayerGood DEF Shared
<1>3. CASE p \notin Elems(w.players)
  BY <1>3 DEF RemovePlayer
<1>4. CASE p \in Elems(w.players)
  <2>1. v.players = Erase(w.players, p) /\ v.pool = w.pool \cup {p}
    BY <1>1, <1>4 DEF RemovePlayer, WorldType
  <2> HIDE DEF v
  <2>2. Elems(v.players) = Elems(w.players) \ {p} /\ Distinct(v.players)
    BY <1>1, <2>1, EraseElems DEF Shared, Pooled
  <2>3. Pooled(v)
    BY <1>1, <1>4, <2>1, <2>2 DEF Shared, Pooled
  <2> QED BY <1>2, <2>2, <2>3 DEF Shared, v
<1> QED BY <1>3, <1>4

\* Any operation that does not touch them keeps them.
LEMMA SamePlayersShared ==
    ASSUME NEW w, Shared(w), NEW v, Good(v), SamePlayers(v, w)
    PROVE  Shared(v)
  BY DEF Shared, Pooled, SamePlayers

\* A connection gets an object of the pool.
LEMMA CreatePlayerShared ==
    ASSUME NEW w, Shared(w), NEW p \in w.pool, NEW s \in Socket
    PROVE  Shared(CreatePlayer(w, p, s))
<1> DEFINE v == CreatePlayer(w, p, s)
<1>1. w \in WorldType /\ w.players \in Seq(Player) /\ w.pool \subseteq Player
  BY DEF Shared, Good, WorldType
<1>2. Good(v)
  BY <1>1, CreatePlayerGood DEF Shared
<1>3. v.players = Append(w.players, p) /\ v.pool = w.pool \ {p}
  BY <1>1 DEF CreatePlayer, WorldType
<1> HIDE DEF v
<1>4. Elems(v.players) = Elems(w.players) \cup {p} /\ Distinct(v.players)
  BY <1>1, <1>3, AppendElems DEF Shared, Pooled
<1>5. Pooled(v)
  BY <1>1, <1>3, <1>4 DEF Shared, Pooled
<1> QED BY <1>2, <1>5 DEF Shared, v

\* The player that a connection takes over is in the vector, so it is not put there again.
LEMMA AbsorbPlayerShared ==
    ASSUME NEW w, Shared(w), NEW p \in Player, NEW q \in Elems(w.players), p # q
    PROVE  Shared(AbsorbPlayer(w, p, q))
<1> DEFINE w1 == OutRoom(w, p)
           w2 == IF w1.info[q].socket # NoSocket THEN Close(w1, w1.info[q].socket) ELSE w1
           st == IF GetGameRoom(w2, q) # NoRoom THEN "GAME" ELSE "LOBBY"
           in == [w2.info EXCEPT ![q].state = st, ![q].socket = w2.info[p].socket, ![p].socket = NoSocket]
           w3 == [w2 EXCEPT !.info[q].state = st,
                            !.info[q].socket = w2.info[p].socket,
                            !.info[p].socket = NoSocket]
           w4 == RemovePlayer(w3, p)
<1>1. Elems(w.players) \subseteq Player /\ NoPlayer \notin Elems(w.players)
  BY GetPlayerListed DEF Shared
<1>2. Good(w1) /\ SamePlayers(w1, w)
  BY OutRoomGood, OutRoomSamePlayers DEF Shared
<1> HIDE DEF w1
<1>3. w1.info[q].socket \in Socket \cup {NoSocket}
  BY <1>1, <1>2 DEF Good, WorldType, CPlayer
<1>4. Good(w2) /\ SamePlayers(w2, w1)
  BY <1>2, <1>3, CloseGood, RoomsSamePlayers DEF SamePlayers
<1>5. AbsorbPlayer(w, p, q) = Absorbed(w2, p, q)
  BY DEF AbsorbPlayer, w1, w2
<1> HIDE DEF w2
<1>6. w2.info \in [Player -> CPlayer] /\ st \in EGameState
  BY <1>4 DEF Good, WorldType, EGameState
<1>7. Absorbed(w2, p, q) = IF GetPlayerById(w4, w4.info[q].steamID) = NoPlayer
                           THEN [w4 EXCEPT !.players = Append(w4.players, q)] ELSE w4
  BY DEF Absorbed
<1> HIDE DEF st
<1>8. w3 = [w2 EXCEPT !.info = in]
  <2>1. w2 \in WorldType
    BY <1>4 DEF Good
  <2>2. w3 = Moved(w2, p, q, st, w2.info[p].socket) /\ in = MovedInfo(w2.info, p, q, st, w2.info[p].socket)
    BY DEF Moved, MovedInfo
  <2> HIDE DEF in, w3
  <2> QED BY <2>1, <2>2, InfoWritten
<1>9. in \in [Player -> CPlayer]
  BY <1>1, <1>6, InfoMoved
<1> HIDE DEF in
<1>10. Good(w3) /\ SamePlayers(w3, w2)
  BY <1>4, <1>8, <1>9, InfoGood, WritesSamePlayers
<1> HIDE DEF w3
<1>11. Shared(w3) /\ w3.players = w.players
  BY <1>2, <1>4, <1>10, SamePlayersShared DEF SamePlayers
<1>12. Shared(w4) /\ Elems(w4.players) = Elems(w.players) \ {p}
  BY <1>11, RemovePlayerShared
<1> HIDE DEF w4
<1>13. GetPlayerById(w4, w4.info[q].steamID) # NoPlayer
  BY <1>1, <1>12, FirstInFound DEF Shared, Good, WorldType, GetPlayerById
<1> QED BY <1>5, <1>7, <1>12, <1>13

\* Identifying a connection.
LEMMA IdentifiedShared ==
    ASSUME Shared(World), NEW id \in SteamID \cup {NoID}, NEW me \in Player
    PROVE  Shared(Identified(id, me).world)
<1> DEFINE old == GetPlayerById(World, id)
           absorbs == old # NoPlayer /\ info[old].socket # info[me].socket
           who == IF absorbs THEN old ELSE me
           w == IF absorbs THEN AbsorbPlayer(World, me, old) ELSE World
           in == [w.info EXCEPT ![who].steamID = id]
           u == [w EXCEPT !.info = in]
<1>1. Identified(id, me).world = u
  BY DEF Identified
<1>2. old \in Elems(World.players) \cup {NoPlayer} /\ Elems(World.players) \subseteq Player
  BY GetPlayerListed DEF Shared
<1> HIDE DEF old
<1>3. who \in Player
  BY <1>2
<1>4. absorbs => old # me
  OBVIOUS
<1>5. Shared(w)
  BY <1>2, <1>4, AbsorbPlayerShared
<1> HIDE DEF w, who
<1>6. w.info \in [Player -> CPlayer]
  BY <1>5 DEF Shared, Good, WorldType
<1>7. in \in [Player -> CPlayer]
  BY <1>3, <1>6 DEF CPlayer
<1> HIDE DEF in
<1>8. Good(u) /\ SamePlayers(u, w)
  BY <1>5, <1>7, InfoGood, WritesSamePlayers DEF Shared
<1> HIDE DEF u
<1> QED BY <1>1, <1>5, <1>8, SamePlayersShared

\* Disconnection.
LEMMA DisconnectRoomShared ==
    ASSUME NEW w, Shared(w)
    PROVE  /\ \A r \in Room : Shared(DropRoom(w, r))
           /\ \A p \in Player : Shared(DisconnectRoom(w, p))
<1>1. ASSUME NEW x, Shared(x), NEW r \in Room PROVE Shared(DropRoom(x, r))
  BY <1>1, DeleteRoomGood, RoomsSamePlayers, SamePlayersShared, RemovePlayerShared DEF Shared, DropRoom, RemoveSeated
<1>2. ASSUME NEW p \in Player PROVE Shared(DisconnectRoom(w, p))
  <2> DEFINE r == GetConnectedRoom(w, p)
             v == DisconnectPlayer(w, r, p)
  <2>1. DisconnectRoom(w, p) \in IF r = NoRoom THEN {RemovePlayer(w, p)}
                                  ELSE {DropRoom(w, r), v, DropRoom(v, r)}
    BY DEF DisconnectRoom
  <2>2. r = NoRoom \/ (r \in Elems(w.rooms) /\ r \in Room)
    BY GetRoomListed DEF Shared
  <2> HIDE DEF r
  <2>3. CASE r = NoRoom
    BY <2>1, <2>3, RemovePlayerShared
  <2>4. CASE r # NoRoom
    <3>1. Good(v)
      BY <2>2, <2>4, DisconnectPlayerGood DEF Shared
    <3>2. SamePlayers(v, w)
      <4>1. CASE w.state[r] = "GAME"
        BY <4>1 DEF DisconnectPlayer, Shared, Good, WorldType, SamePlayers
      <4>2. CASE w.state[r] # "GAME"
        <5> DEFINE u == [w EXCEPT !.slot[r] = Without(Without(w.slot[r], p), p)]
        <5>1. v = CheckAndRestateRoom(u, r)
          BY <4>2 DEF DisconnectPlayer
        <5>2. w.slot[r] \in Seats
          BY <2>2, <2>4 DEF Shared, Good, WorldType
        <5>3. Good(u) /\ SamePlayers(u, w)
          BY <2>2, <2>4, <5>2, SeatsTyped, SlotGood, WritesSamePlayers DEF Shared
        <5> HIDE DEF u
        <5> QED BY <5>1, <5>3, RoomsSamePlayers DEF SamePlayers
      <4> QED BY <4>1, <4>2
    <3> HIDE DEF v
    <3>3. Shared(v)
      BY <3>1, <3>2, SamePlayersShared
    <3> QED BY <1>1, <2>1, <2>2, <2>4, <3>3
  <2> QED BY <2>3, <2>4
<1> QED BY <1>1, <1>2

\* The seat of a lost player is emptied with its object returned.
LEMMA EvictShared ==
    ASSUME NEW w, Shared(w), NEW r \in Room, NEW i \in Slots
    PROVE  Shared(Evict(w, r, i))
<1> DEFINE v == RemovePlayer(w, w.slot[r][i])
           u == [v EXCEPT !.slot[r] = [v.slot[r] EXCEPT ![i] = NoPlayer]]
<1>1. Evict(w, r, i) \in {w, u}
  BY DEF Evict
<1>2. Shared(v)
  BY RemovePlayerShared
<1> HIDE DEF v
<1>3. v.slot[r] \in Seats
  BY <1>2 DEF Shared, Good, WorldType
<1>4. [v.slot[r] EXCEPT ![i] = NoPlayer] \in Seats
  BY <1>3, SeatsTyped
<1>5. Good(u) /\ SamePlayers(u, v)
  BY <1>2, <1>4, SlotGood, WritesSamePlayers DEF Shared
<1> HIDE DEF u
<1> QED BY <1>1, <1>2, <1>5, SamePlayersShared

\* Matching moves players between rooms only.
LEMMA StartGameShared ==
    ASSUME NEW w, Shared(w), NEW m \in Matching(w)
    PROVE  Shared(StartGame(w, m[1], m[2]))
<1> DEFINE i == m[1]
           j == m[2]
           u == Merged(w, i, j)
           v == IF i = j THEN w ELSE DeleteRoom(u, j)
<1>1. i \in Elems(w.rooms) /\ j \in Elems(w.rooms) /\ Matches(w, i, j)
  BY MatchingListed DEF Shared
<1>2. StartGame(w, i, j) = ChangeRoomState(v, i, "GAME")
  BY DEF StartGame
<1>3. Good(StartGame(w, i, j))
  BY <1>1, StartGameGood DEF Shared
<1> HIDE DEF i, j
<1>4. SamePlayers(u, w)
  <2> DEFINE k == CHOOSE x \in Slots : w.slot[i][x] = NoPlayer /\ \A y \in 0 .. (x - 1) : w.slot[i][y] # NoPlayer
             p == IF w.slot[j][0] # NoPlayer THEN w.slot[j][0] ELSE w.slot[j][1]
  <2>1. \E seats : u = [w EXCEPT !.slot[i] = seats]
    <3>1. \/ u = [w EXCEPT !.slot[i] = w.slot[j]]
          \/ u = [w EXCEPT !.slot[i] = [w.slot[i] EXCEPT ![k] = p]]
      BY DEF Merged
    <3> HIDE DEF u, k, p
    <3> QED BY <3>1
  <2> HIDE DEF u
  <2>2. PICK seats : u = [w EXCEPT !.slot[i] = seats]
    BY <2>1
  <2> QED BY <2>2 DEF Shared, Good, WorldType, SamePlayers
<1>5. Good(v) /\ SamePlayers(v, w)
  <2>1. CASE i = j
    <3> HIDE DEF u
    <3>1. v = w
      BY <2>1
    <3> HIDE DEF v
    <3> QED BY <3>1 DEF SamePlayers, Shared
  <2>2. CASE i # j
    <3>1. Good(u)
      BY <1>1, <2>2, MergedGood DEF Shared
    <3>2. j \in Room
      BY <1>1, GetRoomListed DEF Shared
    <3> HIDE DEF u
    <3>3. Good(DeleteRoom(u, j)) /\ SamePlayers(DeleteRoom(u, j), u)
      BY <3>1, <3>2, DeleteRoomGood, RoomsSamePlayers
    <3> QED BY <1>4, <2>2, <3>3 DEF SamePlayers
  <2> QED BY <2>1, <2>2
<1> HIDE DEF v
<1>6. SamePlayers(ChangeRoomState(v, i, "GAME"), v)
  BY <1>5, RoomsSamePlayers
<1>7. Shared(StartGame(w, i, j))
  BY <1>2, <1>3, <1>5, <1>6, SamePlayersShared DEF SamePlayers
<1> QED BY <1>7 DEF i, j

\* The vector and the pool of the next state.
LEMMA NextWorldFields == World'.players = players' /\ World'.pool = pool'
  BY DEF World

\* A step that commits a shared world keeps it so.
LEMMA CommitShared ==
    ASSUME NEW w, Shared(w), Commit(w)
    PROVE  Pooled(World)'
  BY DEF Commit, World, Shared, Pooled

\* Connections and the completions of the worker threads.
LEMMA SocketStepsShared ==
    ASSUME IInv, Shared(World), NEW s \in Socket
    PROVE  /\ \A id \in SteamID : Connect(s, id) => Pooled(World)'
           /\ RecvFails(s) => Pooled(World)'
           /\ CloseDone(s) => Pooled(World)'
<1>1. Good(World) /\ World \in WorldType /\ ListsAgree(World)
  BY DEF Shared, Good
<1>2. ASSUME NEW id \in SteamID, Connect(s, id) PROVE Pooled(World)'
  <2> DEFINE u == [World EXCEPT !.sock[s] = "open"]
  <2>1. u \in WorldType /\ SameRooms(u, World)
    BY <1>1 DEF WorldType, SockState, SameRooms
  <2>2. Good(u) /\ SamePlayers(u, World)
    BY <1>1, <2>1, SameRoomsGood, WritesSamePlayers
  <2>3. PICK p \in pool : Commit(CreateRoom(CreatePlayer(u, p, s), p))
    BY <1>2 DEF Connect
  <2> HIDE DEF u
  <2>4. Shared(u) /\ u.pool = pool
    BY <2>2, SamePlayersShared, WorldFields DEF SamePlayers
  <2>5. Shared(CreatePlayer(u, p, s)) /\ p \in Player
    BY <2>4, CreatePlayerShared DEF Shared, Good, WorldType
  <2>6. Shared(CreateRoom(CreatePlayer(u, p, s), p))
    BY <2>5, CreateRoomGood, RoomsSamePlayers, SamePlayersShared DEF Shared
  <2> QED BY <2>3, <2>6, CommitShared
<1>3. ASSUME RecvFails(s) PROVE Pooled(World)'
  BY <1>1, CloseGood, RoomsSamePlayers, <1>3, SamePlayersShared, CommitShared DEF RecvFails
<1>4. ASSUME CloseDone(s) PROVE Pooled(World)'
  BY <1>4, WorldFields, NextWorldFields DEF CloseDone, Commit, World, Shared, Pooled
<1> QED BY <1>2, <1>3, <1>4

\* A CLOSE message.
LEMMA OnCloseMessageShared ==
    ASSUME IInv, Shared(World), OnCloseMessage
    PROVE  Pooled(World)'
<1> DEFINE p == Me(Head(inbox))
           w == [World EXCEPT !.inbox = Tail(World.inbox)]
<1>1. World \in WorldType /\ ListsAgree(World) /\ World.inbox = inbox
  BY WorldFields DEF Shared, Good
<1>2. Tail(World.inbox) \in Seq(Socket \cup {NoSocket})
  BY <1>1 DEF WorldType, OnCloseMessage
<1>3. w \in WorldType /\ SameRooms(w, World)
  BY <1>1, <1>2 DEF WorldType, SameRooms
<1>4. Good(w) /\ SamePlayers(w, World)
  BY <1>1, <1>3, SameRoomsGood DEF SamePlayers, WorldType
<1>5. Commit(IF p = NoPlayer THEN w ELSE DisconnectRoom(w, p))
  BY DEF OnCloseMessage, Reply
<1>6. p # NoPlayer => p \in Player
  BY MeTyped
<1> HIDE DEF w, p
<1>7. Shared(w)
  BY <1>4, SamePlayersShared
<1>8. Shared(IF p = NoPlayer THEN w ELSE DisconnectRoom(w, p))
  BY <1>6, <1>7, DisconnectRoomShared
<1> QED BY <1>5, <1>8, CommitShared

\* A crash leaves a server that has handed out no object.
LEMMA CrashShared ==
    ASSUME Crash
    PROVE  Pooled(World)'
  BY FreshSound, CommitShared DEF Sound, Shared, Crash

\* The requests of the lobby.
LEMMA PartyStepsShared ==
    ASSUME IInv, Shared(World), NEW s \in Socket
    PROVE  /\ AnswerId(s) => Pooled(World)'
           /\ \A id \in SteamID : InviteFriendAnswer(s, id) => Pooled(World)'
           /\ SetPartyKing(s) => Pooled(World)'
           /\ FriendKickRequest(s) => Pooled(World)'
           /\ \A isOn \in BOOLEAN : MatchRequest(s, isOn) => Pooled(World)'
<1> DEFINE me == Me(s)
           r == GetRoom(World, me)
<1>1. Good(World) /\ (me # NoPlayer => me \in Player)
  BY MeTyped DEF Shared
<1>2. r # NoRoom => r \in Elems(World.rooms) /\ r \in Room /\ World.slot[r] \in Seats
  BY <1>1, GetRoomListed DEF Good, WorldType
<1>3. AnswerId(s) => Pooled(World)'
  <2> SUFFICES ASSUME AnswerId(s) PROVE Pooled(World)'
    OBVIOUS
  <2>1. me # NoPlayer /\ Commit(Identified(client[s], me).world)
    BY DEF AnswerId, Receives, Reply
  <2>2. client[s] \in SteamID \cup {NoID}
    BY WorldGood
  <2> HIDE DEF me
  <2>3. Shared(Identified(client[s], me).world)
    BY <1>1, <2>1, <2>2, IdentifiedShared
  <2> QED BY <2>1, <2>3, CommitShared
<1> HIDE DEF me, r
<1>4. ASSUME NEW id \in SteamID, InviteFriendAnswer(s, id) PROVE Pooled(World)'
  <2> DEFINE room == GetRoom(World, GetPlayerById(World, id))
             w == OutRoom(World, me)
             v == MoveInto(w, room, me)
  <2>1. me # NoPlayer /\ (Crash \/ (room # NoRoom /\ Commit(v)))
    BY <1>4 DEF InviteFriendAnswer, Receives, Reply, me
  <2>2. room # NoRoom => room \in Room
    BY <1>1, GetRoomListed
  <2> HIDE DEF room
  <2>3. Good(w) /\ SamePlayers(w, World)
    BY <1>1, OutRoomGood, OutRoomSamePlayers
  <2> HIDE DEF w
  <2>4. SamePlayers(v, w)
    <3> DEFINE i == CHOOSE i \in Slots : /\ w.slot[room][i] = NoPlayer
                                         /\ \A j \in 0 .. (i - 1) : w.slot[room][j] # NoPlayer
    <3>1. \/ v = w
          \/ v = CreateRoom(w, me)
          \/ v = [w EXCEPT !.slot[room] = [w.slot[room] EXCEPT ![i] = me]]
      BY DEF MoveInto
    <3> HIDE DEF v, i
    <3>2. ASSUME v = w PROVE SamePlayers(v, w)
      BY <3>2 DEF SamePlayers
    <3>3. ASSUME v = CreateRoom(w, me) PROVE SamePlayers(v, w)
      BY <2>3, <3>3, RoomsSamePlayers
    <3>4. ASSUME v = [w EXCEPT !.slot[room] = [w.slot[room] EXCEPT ![i] = me]] PROVE SamePlayers(v, w)
      BY <2>3, <3>4 DEF Good, WorldType, SamePlayers
    <3> QED BY <3>1, <3>2, <3>3, <3>4
  <2>5. ASSUME room # NoRoom PROVE Shared(v)
    BY <1>1, <2>1, <2>2, <2>3, <2>5, MoveIntoGood, <2>4, SamePlayersShared DEF SamePlayers
  <2> QED BY <2>1, <2>5, CommitShared, CrashShared
<1>5. SetPartyKing(s) => Pooled(World)'
  <2> SUFFICES ASSUME SetPartyKing(s) PROVE Pooled(World)'
    OBVIOUS
  <2>1. PICK seats : Commit([World EXCEPT !.slot[r] = seats])
    BY DEF SetPartyKing, Reply, me, r
  <2>2. players' = players /\ pool' = pool
    BY <2>1 DEF Commit, World
  <2> QED BY <2>2, WorldFields, NextWorldFields DEF Shared, Pooled
<1>6. FriendKickRequest(s) => Pooled(World)'
  <2> SUFFICES ASSUME FriendKickRequest(s) PROVE Pooled(World)'
    OBVIOUS
  <2>1. PICK i \in Slots : /\ r # NoRoom /\ slot[r][i] # NoPlayer
                           /\ Commit(KickPlayer(World, slot[r][i]))
    BY DEF FriendKickRequest, Reply, r, me
  <2> DEFINE p == slot[r][i]
  <2>2. p \in Player
    BY <1>2, <2>1, SeatsTyped, WorldFields
  <2>3. Commit(KickPlayer(World, p))
    BY <2>1
  <2> HIDE DEF p
  <2>4. Good(KickPlayer(World, p))
    BY <1>1, <2>2, KickPlayerGood
  <2>5. SamePlayers(KickPlayer(World, p), World)
    BY <1>1, OutRoomGood, OutRoomSamePlayers, RoomsSamePlayers DEF KickPlayer, SamePlayers
  <2> QED BY <2>3, <2>4, <2>5, SamePlayersShared, CommitShared
<1>7. ASSUME NEW isOn \in BOOLEAN, MatchRequest(s, isOn) PROVE Pooled(World)'
  <2> DEFINE st == IF isOn THEN "READY" ELSE "LOBBY"
             in == [World.info EXCEPT ![me].state = st]
             u == [World EXCEPT !.info[me].state = st]
  <2>1. r # NoRoom /\ me # NoPlayer /\ Commit(CheckAndRestateRoom(u, r))
    BY <1>7 DEF MatchRequest, Receives, Reply, me, r
  <2>2. st \in EGameState
    BY DEF EGameState
  <2> HIDE DEF st
  <2>3. Good(u) /\ u.rooms = World.rooms
    BY <1>1, <2>1, <2>2, PlayerStateGood DEF SameRooms
  <2>4. SamePlayers(u, World)
    BY <1>1 DEF Good, WorldType, SamePlayers
  <2> HIDE DEF u
  <2>5. Good(CheckAndRestateRoom(u, r)) /\ SamePlayers(CheckAndRestateRoom(u, r), u)
    BY <1>2, <2>1, <2>3, CheckAndRestateRoomGood, RoomsSamePlayers
  <2>6. SamePlayers(CheckAndRestateRoom(u, r), World)
    BY <2>4, <2>5 DEF SamePlayers
  <2> QED BY <2>1, <2>5, <2>6, SamePlayersShared, CommitShared
<1> QED BY <1>3, <1>4, <1>5, <1>6, <1>7

\* The end of a game.
LEMMA EndGameShared ==
    ASSUME IInv, Shared(World), NEW s \in Socket, InGame_EndGame(s)
    PROVE  Pooled(World)'
<1> DEFINE r == GetGameRoom(World, Me(s))
           u == Evict(World, r, 0)
           v == Evict(u, r, 1)
           x == ChangeRoomState(v, r, "LOBBY")
<1>1. r # NoRoom /\ Commit(x)
  BY DEF InGame_EndGame, Reply
<1>2. r \in Room /\ r \in Elems(World.rooms)
  BY <1>1, GetRoomListed DEF Shared
<1> HIDE DEF r
<1>3. Shared(u) /\ u.rooms = World.rooms
  BY <1>2, TwoSlots, EvictShared, EvictGood DEF SameRooms, Shared
<1> HIDE DEF u
<1>4. Shared(v) /\ v.rooms = World.rooms
  BY <1>2, <1>3, TwoSlots, EvictShared, EvictGood DEF SameRooms, Shared
<1> HIDE DEF v
<1>5. Good(x) /\ SamePlayers(x, v)
  BY <1>2, <1>4, ChangeRoomStateGood, RoomsSamePlayers DEF RoomState, Shared
<1> HIDE DEF x
<1> QED BY <1>1, <1>4, <1>5, SamePlayersShared, CommitShared

\* The periodic update, a second close of a socket among it, and the restart.
LEMMA UpdateStepsShared ==
    ASSUME IInv, Shared(World)
    PROVE  /\ \A p \in Player : UpdatePing(p) => Pooled(World)'
           /\ UpdateMatch => Pooled(World)'
           /\ UpdateCleanup => Pooled(World)'
           /\ UpdateEnd => Pooled(World)'
           /\ Restart => Pooled(World)'
<1>1. Good(World)
  BY DEF Shared
<1>2. ASSUME NEW p \in Player, UpdatePing(p) PROVE Pooled(World)'
  BY <1>1, WorldFields, CloseGood, RoomsSamePlayers, <1>2, SamePlayersShared, CommitShared DEF Good, WorldType,
    CPlayer, UpdatePing, Reply
<1>3. ASSUME UpdateMatch PROVE Pooled(World)'
  <2>1. PICK m \in Matching(World) : Commit(StartGame(World, m[1], m[2]))
    BY <1>3 DEF UpdateMatch
  <2> QED BY <2>1, StartGameShared, CommitShared
<1>4. ASSUME UpdateCleanup PROVE Pooled(World)'
  <2> DEFINE r == FirstIn(rooms, Deserted(World), NoRoom)
  <2>1. r # NoRoom /\ (Commit(DropRoom(World, r)) \/ Crash)
    BY <1>4 DEF UpdateCleanup
  <2>2. r \in Deserted(World)
    BY <2>1, FirstInElems
  <2>3. r \in Room
    BY <1>1, <2>2, ElemsTyped DEF Deserted, Good, WorldType
  <2> HIDE DEF r
  <2> QED BY <2>1, <2>3, DisconnectRoomShared, CommitShared, CrashShared
<1>5. UpdateEnd \/ Restart => Pooled(World)'
  BY WorldFields, NextWorldFields DEF UpdateEnd, Restart, data, Shared, Pooled
<1> QED BY <1>2, <1>3, <1>4, <1>5

\* CPlayerManager's vector and the object pool share the player objects out in every state,
\* for any constants: also when a socket gets a new connection while an old player holds it,
\* and when the timeouts close it again and again, as long as nobody asks to join the room of
\* somebody with its steam ID.
THEOREM PlayersCorrect == NoJoins => (Spec => []PlayersOK)
<1> SUFFICES ASSUME NoJoins PROVE Spec => []PlayersOK
  OBVIOUS
<1>1. Init => Pooled(World)
  <2> SUFFICES ASSUME Init PROVE Pooled(World)
    OBVIOUS
  <2>1. World.players = << >> /\ World.pool = Player
    BY DEF Init, World, Fresh
  <2> QED BY <2>1 DEF Pooled, Distinct, Elems
<1>2. IInv /\ Pooled(World) /\ [Next]_vars => Pooled(World)'
  <2> SUFFICES ASSUME IInv, Pooled(World), [Next]_vars PROVE Pooled(World)'
    OBVIOUS
  <2>1. Shared(World)
    BY WorldGood DEF Shared
  <2>2. CASE UNCHANGED vars
    BY <2>2, WorldFields, NextWorldFields DEF vars, Pooled
  <2>3. CASE Next
    <3>1. \A s \in Socket :
             /\ ~Debug_RoomStart(s) /\ ~Debug_GameStart(s)
             /\ \A seats, isGameRoom : ~InGame_ReconnectServer(s, seats, isGameRoom)
      BY DEF NoJoins, Debug_RoomStart, Debug_GameStart, InGame_ReconnectServer, Receives
    <3> QED BY <2>1, <2>3, <3>1, SocketStepsShared, OnCloseMessageShared, PartyStepsShared,
               EndGameShared, UpdateStepsShared DEF Next
  <2> QED BY <2>2, <2>3
<1>3. IInv /\ Pooled(World) => PlayersOK
  <2> SUFFICES ASSUME IInv, Pooled(World) PROVE PlayersOK
    OBVIOUS
  <2>1. Pooled(World) /\ World.players = players /\ World.pool = pool
    BY WorldFields
  <2> QED BY <2>1 DEF Pooled, Distinct, PlayersOK, Listed
<1> QED BY <1>1, <1>2, <1>3, Inductive, PTL DEF Spec
-----------------------------------------------------------------------------
(***************************************************************************)
(* The life of a game, on a server whose clients log in, match, play, and  *)
(* break off: its master is connected, players and room agree on being in  *)
(* it, nobody joins it or leaves it, and who was lost from it comes back   *)
(* to it.                                                                  *)
(*                                                                         *)
(* The invariant adds to Sound what a room says of its players (Playing),  *)
(* that lost players are in rooms, and what the logic thread knows of the  *)
(* client at a socket (Known).  The last one is needed because an absorbed *)
(* connection leaves its room: it has no ID yet, so that room is not a     *)
(* game.                                                                   *)
(***************************************************************************)
\* The requests of a client that plays, without those that move it between rooms.
Plays == Events \subseteq {"AnswerId", "Match", "EndGame"} /\ Recycles = FALSE

\* A room and its players agree; only named players are in a room that waits or plays.
RoomPlays(w, r) ==
    /\ w.state[r] = "GAME" => w.slot[r][0] # NoPlayer /\ ~Lost(w, w.slot[r][0])
    /\ \A i \in Slots : w.slot[r][i] # NoPlayer =>
         /\ w.state[r] = "GAME" <=> w.info[w.slot[r][i]].state \in {"GAME", "ConnectionLost"}
         /\ w.state[r] # "LOBBY" => w.info[w.slot[r][i]].steamID # NoID

Playing(w) ==
    /\ \A r \in Elems(w.rooms) : RoomPlays(w, r)
    /\ \A p \in Elems(w.players) : w.info[p].steamID = NoID => w.info[p].state = "LOBBY"
    /\ \A p \in Elems(w.players) : Lost(w, p) => ~Absent(w, p)

\* A connection has a client, and its player no other name than that client's.
Known(w, rc, cl) ==
    /\ \A s \in Socket : rc[s] => cl[s] # NoID
    /\ \A p \in Elems(w.players) :
         rc[w.info[p].socket] => w.info[p].steamID \in {NoID, cl[w.info[p].socket]}

\* Room r is in v what it was in w, and so are its players but for their sockets.
RoomKept(v, w, r) ==
    /\ v.slot[r] = w.slot[r]
    /\ v.state[r] = w.state[r]
    /\ \A i \in Slots : w.slot[r][i] # NoPlayer =>
         /\ v.info[w.slot[r][i]].state = w.info[w.slot[r][i]].state
         /\ v.info[w.slot[r][i]].steamID = w.info[w.slot[r][i]].steamID

\* All rooms but r are in v what they were in w, and there are no new ones.
RoomsKept(v, w, r) ==
    /\ Elems(v.rooms) \subseteq Elems(w.rooms)
    /\ \A q \in Elems(w.rooms) \ {r} : q \in Elems(v.rooms) /\ RoomKept(v, w, q)

\* Nobody new is listed in v, and who is has the name and the socket it had, and is lost if it was.
PeopleKept(v, w) ==
    \A p \in Elems(v.players) :
        /\ p \in Elems(w.players)
        /\ v.info[p].socket = w.info[p].socket
        /\ v.info[p].steamID = w.info[p].steamID
        /\ Lost(w, p) => Lost(v, p)

LEMMA PeopleKeptTransitive ==
    ASSUME NEW u, NEW v, NEW w, PeopleKept(u, v), PeopleKept(v, w)
    PROVE  PeopleKept(u, w)
  BY DEF PeopleKept

LEMMA RoomsKeptTransitive ==
    ASSUME NEW u, NEW v, NEW w, NEW r, RoomsKept(u, v, r), RoomsKept(v, w, r)
    PROVE  RoomsKept(u, w, r)
  BY DEF RoomsKept, RoomKept

\* A lost player has a seat in a game.
LEMMA LostSeat ==
    ASSUME NEW w, NEW rc, Sound(w, rc), Playing(w), NEW p \in Elems(w.players), Lost(w, p)
    PROVE  \E r \in Elems(w.rooms), i \in Slots : w.state[r] = "GAME" /\ w.slot[r][i] = p
<1>1. PICK r \in Elems(w.rooms), i \in Slots : w.slot[r][i] = p
  BY DEF Playing, Absent
<1>2. p # NoPlayer
  BY SoundTyped
<1> QED BY <1>1, <1>2 DEF Playing, RoomPlays, Lost

LEMMA RoomKeptPlays ==
    ASSUME NEW v, NEW w, NEW r, RoomKept(v, w, r), RoomPlays(w, r)
    PROVE  RoomPlays(v, r)
<1>1. 0 \in Slots
  BY TwoSlots
<1> QED BY <1>1 DEF RoomKept, RoomPlays, Lost

\* A player in a seat is listed, and a lost one is in a game.
LEMMA SeatsPlay ==
    ASSUME NEW w, NEW rc, Sound(w, rc), Playing(w), NEW r \in Elems(w.rooms), NEW i \in Slots,
           w.slot[r][i] # NoPlayer
    PROVE  /\ w.slot[r][i] \in Elems(w.players) /\ w.slot[r][i] \in Player
           /\ Lost(w, w.slot[r][i]) => w.state[r] = "GAME"
<1>1. w.slot[r][i] \in Elems(w.players)
  BY DEF Sound, Seated
<1> QED BY <1>1, SoundTyped DEF Playing, RoomPlays, Lost

(***************************************************************************)
(* The state of a room.                                                    *)
(***************************************************************************)
\* ChangeRoomState writes the state of the room and of its players, nothing else.
LEMMA RestatedFields ==
    ASSUME NEW w, Good(w), NEW r \in Room, NEW st \in RoomState
    PROVE  /\ ChangeRoomState(w, r, st).state = [w.state EXCEPT ![r] = st]
           /\ \A p \in Player :
                /\ ChangeRoomState(w, r, st).info[p].steamID = w.info[p].steamID
                /\ ChangeRoomState(w, r, st).info[p].state =
                     IF w.state[r] # st /\ p \in Members(w, r) THEN st ELSE w.info[p].state
<1> DEFINE v == ChangeRoomState(w, r, st)
<1>1. w \in WorldType /\ w.state \in [Room -> RoomState] /\ w.info \in [Player -> CPlayer]
  BY DEF Good, WorldType
<1>2. CASE w.state[r] = st
  BY <1>2, <1>1 DEF ChangeRoomState
<1>3. CASE w.state[r] # st
  <2> DEFINE mr == CASE st = "READY" -> w.matchRooms \cup {r}
                     [] st = "GAME"  -> w.matchRooms \ {r}
                     [] OTHER -> IF w.state[r] = "READY" THEN w.matchRooms \ {r} ELSE w.matchRooms
             gr == CASE st = "GAME" -> w.gameRooms \cup {r}
                     [] OTHER -> IF st = "LOBBY" /\ w.state[r] = "GAME" THEN w.gameRooms \ {r} ELSE w.gameRooms
             u == [w EXCEPT !.matchRooms = mr, !.gameRooms = gr]
             in == [p \in Player |-> IF p \in Members(u, r) THEN [u.info[p] EXCEPT !.state = st] ELSE u.info[p]]
             ss == [u.state EXCEPT ![r] = st]
             x == [u EXCEPT !.state = ss, !.info = in]
  <2>1. v = SetState(u, r, st)
    BY <1>3 DEF ChangeRoomState
  <2>2. SetState(u, r, st) = x
    BY DEF SetState
  <2> HIDE DEF mr, gr
  <2>3. u.info = w.info /\ u.state = w.state /\ u.slot = w.slot
    BY <1>1 DEF WorldType
  <2>4. x.state = ss /\ x.info = in
    <3> HIDE DEF ss, in
    <3> QED BY <1>1 DEF WorldType
  <2>5. Members(u, r) = Members(w, r)
    BY <2>3 DEF Members
  <2> HIDE DEF u, x
  <2>6. \A p \in Player : /\ in[p].steamID = w.info[p].steamID
                          /\ in[p].state = IF p \in Members(w, r) THEN st ELSE w.info[p].state
    BY <1>1, <2>3, <2>5 DEF CPlayer
  <2> HIDE DEF in
  <2> QED BY <1>3, <2>1, <2>2, <2>3, <2>4, <2>6
<1> QED BY <1>2, <1>3

\* The other rooms keep theirs: no player is in two rooms.
LEMMA RestatedOthers ==
    ASSUME NEW w, NEW rc, Sound(w, rc), NEW r \in Elems(w.rooms), NEW st \in RoomState,
           w.state[r] = "GAME" => st # "READY"
    PROVE  \A q \in Elems(w.rooms) \ {r} : RoomKept(ChangeRoomState(w, r, st), w, q)
<1> DEFINE v == ChangeRoomState(w, r, st)
<1>1. /\ Good(w) /\ r \in Room /\ w.state \in [Room -> RoomState] /\ Elems(w.players) \subseteq Player
  BY SoundTyped DEF Sound, Good, WorldType
<1>2. /\ v.state = [w.state EXCEPT ![r] = st]
      /\ \A p \in Player : /\ v.info[p].steamID = w.info[p].steamID
                           /\ v.info[p].state = IF w.state[r] # st /\ p \in Members(w, r)
                                                THEN st ELSE w.info[p].state
  BY <1>1, RestatedFields
<1>3. v.slot = w.slot
  BY ChangeRoomStateSound
<1> HIDE DEF v
<1> SUFFICES ASSUME NEW q \in Elems(w.rooms) \ {r} PROVE RoomKept(v, w, q)
  BY DEF v
<1>4. \A i \in Slots : w.slot[q][i] # NoPlayer => w.slot[q][i] \in Player /\ w.slot[q][i] \notin Members(w, r)
  BY <1>1 DEF Sound, Seated, Members
<1>5. v.state[q] = w.state[q]
  BY <1>1, <1>2
<1> QED BY <1>2, <1>3, <1>4, <1>5 DEF RoomKept

\* A room may change its state with its players agreeing: to READY or GAME when they are
\* named, to GAME when it has a master and was none, to LOBBY when nobody is lost.
LEMMA RestatedPlaying ==
    ASSUME NEW w, NEW rc, Sound(w, rc), Playing(w), NEW r \in Elems(w.rooms), NEW st \in RoomState,
           w.state[r] = "GAME" => st # "READY",
           st = "GAME" => w.slot[r][0] # NoPlayer,
           \A i \in Slots : w.slot[r][i] # NoPlayer =>
               /\ st # "LOBBY" => w.info[w.slot[r][i]].steamID # NoID
               /\ w.state[r] # st => ~Lost(w, w.slot[r][i])
    PROVE  Playing(ChangeRoomState(w, r, st)) /\ PeopleKept(ChangeRoomState(w, r, st), w)
<1> DEFINE v == ChangeRoomState(w, r, st)
<1>1. /\ Good(w) /\ r \in Room /\ w.state \in [Room -> RoomState] /\ Elems(w.players) \subseteq Player
  BY SoundTyped DEF Sound, Good, WorldType
<1>2. /\ v.state = [w.state EXCEPT ![r] = st]
      /\ \A p \in Player : /\ v.info[p].steamID = w.info[p].steamID
                           /\ v.info[p].state = IF w.state[r] # st /\ p \in Members(w, r)
                                                THEN st ELSE w.info[p].state
  BY <1>1, RestatedFields
<1>3. v.slot = w.slot /\ v.rooms = w.rooms /\ v.players = w.players
  BY ChangeRoomStateSound DEF SamePeople
<1>4. \A q \in Elems(w.rooms) \ {r} : RoomKept(v, w, q)
  BY RestatedOthers
<1>5. CASE w.state[r] = st
  BY <1>5 DEF ChangeRoomState, PeopleKept
<1>6. CASE w.state[r] # st
  <2> HIDE DEF v
  <2>1. \A i \in Slots : w.slot[r][i] # NoPlayer =>
          /\ w.slot[r][i] \in Player
          /\ v.info[w.slot[r][i]].state = st
          /\ v.info[w.slot[r][i]].steamID = w.info[w.slot[r][i]].steamID
    BY <1>2, <1>6, SeatsPlay DEF Members
  <2>2. v.state[r] = st
    BY <1>1, <1>2
  <2>3. RoomPlays(v, r)
    <3>1. 0 \in Slots
      BY TwoSlots
    <3>2. st # "ConnectionLost"
      BY DEF RoomState
    <3> QED BY <1>3, <2>1, <2>2, <3>1, <3>2 DEF RoomPlays, Lost
  <2>4. \A q \in Elems(v.rooms) : RoomPlays(v, q)
    BY <1>3, <1>4, <2>3, RoomKeptPlays DEF Playing
  <2>5. \A p \in Elems(v.players) : v.info[p].steamID = NoID => v.info[p].state = "LOBBY"
    <3> SUFFICES ASSUME NEW p \in Elems(w.players), v.info[p].steamID = NoID
                 PROVE  v.info[p].state = "LOBBY"
      BY <1>3
    <3>1. w.info[p].state = "LOBBY" /\ w.info[p].steamID = NoID
      BY <1>1, <1>2 DEF Playing
    <3>2. CASE p \in Members(w, r)
      <4>1. PICK i \in Slots : w.slot[r][i] = p /\ p # NoPlayer
        BY <3>2 DEF Members
      <4>2. st = "LOBBY"
        BY <3>1, <4>1
      <4> QED BY <2>1, <4>1, <4>2
    <3>3. CASE p \notin Members(w, r)
      BY <1>1, <1>2, <3>1, <3>3
    <3> QED BY <3>2, <3>3
  <2>6. \A p \in Elems(v.players) : Lost(v, p) => ~Absent(v, p)
    BY <1>1, <1>2, <1>3 DEF Playing, Lost, Absent, RoomState
  <2>7. \A p \in Elems(w.players) : Lost(w, p) => Lost(v, p)
    BY <1>1, <1>2, <1>6 DEF Lost, Members
  <2>8. PeopleKept(v, w)
    BY <1>1, <1>3, <2>7, ChangeRoomStateSound DEF PeopleKept, SamePeople, v
  <2> QED BY <2>4, <2>5, <2>6, <2>8 DEF Playing, v
<1> QED BY <1>5, <1>6

\* The state of a room follows its players; that of a game stays.
LEMMA CheckAndRestateRoomPlaying ==
    ASSUME NEW w, NEW rc, Sound(w, rc), Playing(w), NEW r \in Elems(w.rooms)
    PROVE  /\ Playing(CheckAndRestateRoom(w, r))
           /\ PeopleKept(CheckAndRestateRoom(w, r), w)
           /\ RoomsKept(CheckAndRestateRoom(w, r), w, r)
           /\ w.state[r] # "GAME" => CheckAndRestateRoom(w, r).state[r] # "GAME"
<1>1. w.state \in [Room -> RoomState] /\ r \in Room /\ Good(w)
  BY SoundTyped DEF Sound, Good, WorldType
<1>2. RoomsKept(w, w, r) /\ PeopleKept(w, w)
  BY DEF RoomsKept, RoomKept, PeopleKept
<1>3. CASE w.state[r] = "GAME"
  BY <1>3, <1>2 DEF CheckAndRestateRoom
<1>4. CASE w.state[r] # "GAME"
  <2> DEFINE st == IF CanMatching(w, r) THEN "READY" ELSE "LOBBY"
  <2>1. CheckAndRestateRoom(w, r) = ChangeRoomState(w, r, st)
    BY <1>1, <1>4 DEF CheckAndRestateRoom, RoomState
  <2>2. st \in RoomState \ {"GAME"}
    BY DEF RoomState
  <2>3. \A i \in Slots : w.slot[r][i] # NoPlayer =>
          /\ st # "LOBBY" => w.info[w.slot[r][i]].steamID # NoID
          /\ ~Lost(w, w.slot[r][i])
    BY <1>4, SeatsPlay DEF CanMatching, Members, Playing
  <2> HIDE DEF st
  <2>4. Playing(ChangeRoomState(w, r, st)) /\ PeopleKept(ChangeRoomState(w, r, st), w)
    BY <1>4, <2>2, <2>3, RestatedPlaying
  <2>5. RoomsKept(ChangeRoomState(w, r, st), w, r)
    BY <1>4, <2>2, RestatedOthers, ChangeRoomStateSound DEF RoomsKept
  <2>6. ChangeRoomState(w, r, st).state[r] = st
    <3>1. ChangeRoomState(w, r, st).state = [w.state EXCEPT ![r] = st]
      BY <1>1, <2>2, RestatedFields
    <3> QED BY <1>1, <3>1
  <2> QED BY <2>1, <2>2, <2>4, <2>5, <2>6
<1> QED BY <1>3, <1>4

(***************************************************************************)
(* Seats.                                                                  *)
(***************************************************************************)
\* Writing the seats of a room changes no other, and nobody's fields.
LEMMA SeatsWrittenKept ==
    ASSUME NEW w, NEW rc, Sound(w, rc), NEW r \in Elems(w.rooms), NEW seats \in Seats
    PROVE  LET v == [w EXCEPT !.slot[r] = seats]
           IN  /\ v.slot[r] = seats /\ v.state = w.state /\ v.info = w.info /\ v.rooms = w.rooms
               /\ v.players = w.players
               /\ RoomsKept(v, w, r) /\ PeopleKept(v, w)
<1> DEFINE v == [w EXCEPT !.slot[r] = seats]
<1>1. Good(w) /\ r \in Room /\ Elems(w.rooms) \subseteq Room /\ w.slot \in [Room -> Seats]
  BY SoundTyped DEF Sound, Good, WorldType
<1>2. /\ v.players = w.players /\ v.rooms = w.rooms /\ v.state = w.state /\ v.info = w.info
      /\ v.slot = [w.slot EXCEPT ![r] = seats]
  BY <1>1, SlotFields DEF SamePeople
<1> HIDE DEF v
<1>3. v.slot[r] = seats /\ \A q \in Elems(w.rooms) \ {r} : v.slot[q] = w.slot[q]
  BY <1>1, <1>2
<1> QED BY <1>2, <1>3 DEF RoomsKept, RoomKept, PeopleKept, Lost, v

\* The seats of a room that plays no game can be given to named players that play none.
LEMMA SeatsPlaying ==
    ASSUME NEW w, NEW rc, Sound(w, rc), Playing(w), NEW r \in Elems(w.rooms), NEW seats \in Seats,
           w.state[r] # "GAME",
           \A i \in Slots : seats[i] = NoPlayer \/ \E j \in Slots : seats[i] = w.slot[r][j]
    PROVE  Playing([w EXCEPT !.slot[r] = seats])
<1> DEFINE v == [w EXCEPT !.slot[r] = seats]
<1>1. /\ v.slot[r] = seats /\ v.state = w.state /\ v.info = w.info /\ v.rooms = w.rooms
      /\ v.players = w.players
      /\ RoomsKept(v, w, r)
  BY SeatsWrittenKept
<1> HIDE DEF v
<1>2. RoomPlays(v, r)
  BY <1>1 DEF Playing, RoomPlays
<1>3. \A q \in Elems(v.rooms) : RoomPlays(v, q)
  BY <1>1, <1>2, RoomKeptPlays DEF Playing, RoomsKept
<1>4. \A p \in Elems(v.players) : Lost(v, p) => ~Absent(v, p)
  <2> SUFFICES ASSUME NEW p \in Elems(w.players), Lost(w, p) PROVE ~Absent(v, p)
    BY <1>1 DEF Lost
  <2>1. PICK q \in Elems(w.rooms), i \in Slots : w.state[q] = "GAME" /\ w.slot[q][i] = p
    BY LostSeat
  <2>2. v.slot[q][i] = p /\ q \in Elems(v.rooms)
    BY <1>1, <2>1 DEF RoomsKept, RoomKept
  <2> QED BY <2>2 DEF Absent
<1> QED BY <1>1, <1>3, <1>4 DEF Playing, v

\* Leaving a room that plays no game concerns that room only.
LEMMA LeaveRoomPlaying ==
    ASSUME NEW w, NEW rc, Sound(w, rc), Playing(w), NEW p \in Elems(w.players), ~Lost(w, p),
           GetRoom(w, p) # NoRoom => w.state[GetRoom(w, p)] # "GAME"
    PROVE  /\ Playing(LeaveRoom(w, p))
           /\ RoomsKept(LeaveRoom(w, p), w, GetRoom(w, p))
           /\ PeopleKept(LeaveRoom(w, p), w)
           /\ LeaveRoom(w, p).state[GetRoom(w, p)] # "GAME" \/ GetRoom(w, p) = NoRoom
<1> DEFINE r == GetRoom(w, p)
           S == Without(w.slot[r], p)
           u == [w EXCEPT !.slot[r] = S]
           v == CheckAndRestateRoom(u, r)
<1>1. p \in Player /\ p # NoPlayer /\ w \in WorldType /\ Good(w) /\ Elems(w.rooms) \subseteq Room
  BY SoundTyped DEF Sound
<1>2. CASE r = NoRoom
  BY <1>2 DEF LeaveRoom, RoomsKept, RoomKept, PeopleKept
<1>3. CASE r # NoRoom
  <2>1. LeaveRoom(w, p) = IF GetPlayerCount(w, r) = 1 THEN DeleteRoom(w, r)
                          ELSE IF GetPlayerCount(v, r) = 0 THEN DeleteRoom(v, r) ELSE v
    BY <1>3 DEF LeaveRoom
  <2>2. /\ r \in Elems(w.rooms) /\ r \in Room /\ \E i \in Slots : w.slot[r][i] = p
        /\ w.state[r] # "GAME"
    BY <1>1, <1>3, GetRoomSeats
  <2>3. Sound(LeaveRoom(w, p), rc) /\ Left(LeaveRoom(w, p), w, p)
    BY LeaveRoomSound
  <2> HIDE DEF r
  <2>4. PICK i \in Slots : w.slot[r][i] = p
    BY <2>2
  <2>5. \A j \in Slots : w.slot[r][j] = p => j = i
    BY <2>2, <2>4, SoundSeat
  <2>6. w.slot[r] \in Seats
    BY <1>1, <2>2 DEF WorldType
  <2>7. S[0] = w.slot[r][1 - i] /\ S[1] = NoPlayer /\ S \in Seats
    BY <1>1, <2>4, <2>5, <2>6, WithoutSeat, SeatsTyped
  <2>8. GetPlayerCount(w, r) = IF w.slot[r][1 - i] = NoPlayer THEN 1 ELSE 2
    BY <1>1, <2>4, CountPlayers, TwoSlots
  <2>9. CASE w.slot[r][1 - i] = NoPlayer
    <3> DEFINE x == DeleteRoom(w, r)
    <3>1. LeaveRoom(w, p) = x
      BY <2>1, <2>8, <2>9
    <3>2. /\ SamePeople(x, w) /\ x.info = w.info /\ Elems(x.rooms) = Elems(w.rooms) \ {r}
          /\ \A q \in Elems(w.rooms) \ {r} : x.slot[q] = w.slot[q] /\ x.state[q] = w.state[q]
      BY <2>2, DeleteRoomSound
    <3>3. x.state[r] = "LOBBY"
      BY <1>1, <2>2 DEF DeleteRoom, WorldType
    <3> HIDE DEF x
    <3>4. RoomsKept(x, w, r) /\ PeopleKept(x, w)
      BY <3>2 DEF RoomsKept, RoomKept, PeopleKept, SamePeople, Lost
    <3>5. \A q \in Elems(x.rooms) : RoomPlays(x, q)
      BY <3>2, <3>4, RoomKeptPlays DEF Playing, RoomsKept
    <3>6. \A y \in Elems(x.players) : Lost(x, y) => ~Absent(x, y)
      <4> SUFFICES ASSUME NEW y \in Elems(w.players), Lost(w, y) PROVE ~Absent(x, y)
        BY <3>2 DEF SamePeople, Lost
      <4>1. PICK q \in Elems(w.rooms), j \in Slots : w.state[q] = "GAME" /\ w.slot[q][j] = y
        BY LostSeat
      <4> QED BY <2>2, <3>2, <4>1 DEF Absent
    <3>7. Playing(x)
      BY <3>2, <3>5, <3>6 DEF Playing, SamePeople
    <3> QED BY <3>1, <3>3, <3>4, <3>7 DEF r
  <2>10. CASE w.slot[r][1 - i] # NoPlayer
    <3>1. 1 - i \in Slots /\ 0 \in Slots
      BY TwoSlots
    <3> HIDE DEF S
    <3>2. \A j \in Slots : S[j] = NoPlayer \/ \E k \in Slots : S[j] = w.slot[r][k]
      BY <2>7, <3>1, TwoSlots
    <3>3. Sound(u, rc)
      BY <2>7, TwoSlots, <2>10, <3>1, <2>2, <3>2, SeatsWritten
    <3>4. Playing(u)
      BY <2>2, <2>7, <3>2, SeatsPlaying
    <3>5. u.slot[r] = S /\ u.state = w.state /\ u.rooms = w.rooms /\ RoomsKept(u, w, r) /\ PeopleKept(u, w)
      BY <2>2, <2>7, SeatsWrittenKept
    <3> HIDE DEF u
    <3>6. v.slot = u.slot /\ Sound(v, rc)
      BY <2>2, <3>3, <3>5, CheckAndRestateRoomSound
    <3>7. Playing(v) /\ RoomsKept(v, u, r) /\ PeopleKept(v, u) /\ v.state[r] # "GAME"
      BY <2>2, <3>3, <3>4, <3>5, CheckAndRestateRoomPlaying
    <3> HIDE DEF v
    <3>8. GetPlayerCount(v, r) # 0
      BY <2>7, <2>10, <3>5, <3>6, CountPlayers
    <3>9. LeaveRoom(w, p) = v
      BY <2>1, <2>8, <2>10, <3>8
    <3> QED BY <3>5, <3>7, <3>9, RoomsKeptTransitive, PeopleKeptTransitive DEF r
  <2> HIDE DEF v, u, S
  <2> QED BY <2>9, <2>10 DEF r
<1> QED BY <1>2, <1>3

(***************************************************************************)
(* Players that go.                                                        *)
(***************************************************************************)
\* RemovePlayer of what a seat of a deleted room held.
LEMMA SeatRemoved ==
    ASSUME NEW w, NEW rc, Sound(w, rc), NEW p, p = NoPlayer \/ Absent(w, p)
    PROVE  LET v == RemovePlayer(w, p)
           IN  /\ Sound(v, rc) /\ Elems(v.players) = Elems(w.players) \ {p}
               /\ v.rooms = w.rooms /\ v.slot = w.slot /\ v.state = w.state
               /\ \A q \in Player \ {p} : v.info[q] = w.info[q]
<1>1. CASE p = NoPlayer
  BY SoundTyped, <1>1 DEF RemovePlayer
<1>2. CASE Absent(w, p)
  BY <1>2, RemovePlayerSound DEF SameRooms
<1> QED BY <1>1, <1>2

\* Fewer players: those of the rooms that are kept are among them, and the lost ones are in rooms.
LEMMA FewerPlayersPlaying ==
    ASSUME NEW w, NEW rc, Sound(w, rc), Playing(w), NEW v, NEW rd, Sound(v, rd),
           Elems(v.players) \subseteq Elems(w.players),
           \A p \in Elems(v.players) : v.info[p] = w.info[p],
           Elems(v.rooms) \subseteq Elems(w.rooms),
           \A q \in Elems(v.rooms) : v.slot[q] = w.slot[q] /\ v.state[q] = w.state[q],
           \A q \in Elems(w.rooms), i \in Slots : w.slot[q][i] \in Elems(v.players) => q \in Elems(v.rooms)
    PROVE  /\ Playing(v) /\ PeopleKept(v, w)
           /\ \A q \in Elems(v.rooms) : RoomKept(v, w, q)
<1>1. \A q \in Elems(v.rooms), i \in Slots : v.slot[q][i] \in Elems(v.players) \cup {NoPlayer}
  BY DEF Sound, Seated
<1>2. \A q \in Elems(v.rooms) : RoomKept(v, w, q)
  BY <1>1 DEF RoomKept
<1>3. \A q \in Elems(v.rooms) : RoomPlays(v, q)
  BY <1>2, RoomKeptPlays DEF Playing
<1>4. \A p \in Elems(v.players) : v.info[p].steamID = NoID => v.info[p].state = "LOBBY"
  BY DEF Playing
<1>5. \A p \in Elems(v.players) : Lost(v, p) => ~Absent(v, p)
  <2> SUFFICES ASSUME NEW p \in Elems(v.players), Lost(v, p) PROVE ~Absent(v, p)
    OBVIOUS
  <2>1. PICK q \in Elems(w.rooms), i \in Slots : w.slot[q][i] = p
    BY LostSeat DEF Lost
  <2> QED BY <2>1 DEF Absent
<1>6. PeopleKept(v, w)
  BY DEF PeopleKept, Lost
<1> QED BY <1>2, <1>3, <1>4, <1>5, <1>6 DEF Playing

\* DropRoom takes a room and its players away.
LEMMA DropRoomPlaying ==
    ASSUME NEW w, NEW rc, Sound(w, rc), Playing(w), NEW r \in Elems(w.rooms)
    PROVE  LET v == DropRoom(w, r)
           IN  /\ Playing(v) /\ PeopleKept(v, w) /\ RoomsKept(v, w, r)
               /\ r \notin Elems(v.rooms)
               /\ Elems(v.players) \subseteq Elems(w.players)
<1> DEFINE u == DeleteRoom(w, r)
           a == w.slot[r][0]
           b == w.slot[r][1]
           x == RemovePlayer(u, a)
           v == DropRoom(w, r)
<1>1. /\ Sound(u, rc) /\ u.players = w.players /\ u.info = w.info
      /\ Elems(u.rooms) = Elems(w.rooms) \ {r}
      /\ \A q \in Elems(w.rooms) \ {r} : u.slot[q] = w.slot[q] /\ u.state[q] = w.state[q]
      /\ a = NoPlayer \/ Absent(u, a)
      /\ b = NoPlayer \/ Absent(u, b)
  BY DeleteRoomSound, TwoSlots DEF SamePeople
<1>2. v = RemovePlayer(x, b)
  BY DEF DropRoom, RemoveSeated
<1> HIDE DEF u
<1>3. /\ Sound(x, rc) /\ Elems(x.players) = Elems(w.players) \ {a}
      /\ x.rooms = u.rooms /\ x.slot = u.slot /\ x.state = u.state
      /\ \A q \in Player \ {a} : x.info[q] = w.info[q]
  BY <1>1, SeatRemoved
<1> HIDE DEF x
<1>4. b = NoPlayer \/ Absent(x, b)
  BY <1>1, <1>3 DEF Absent
<1>5. /\ Sound(v, rc) /\ Elems(v.players) = Elems(w.players) \ {a, b}
      /\ v.rooms = u.rooms /\ v.slot = u.slot /\ v.state = u.state
      /\ \A q \in Player \ {a, b} : v.info[q] = w.info[q]
  <2>1. /\ Sound(v, rc) /\ Elems(v.players) = Elems(x.players) \ {b}
        /\ v.rooms = x.rooms /\ v.slot = x.slot /\ v.state = x.state
        /\ \A q \in Player \ {b} : v.info[q] = x.info[q]
    BY <1>2, <1>3, <1>4, SeatRemoved
  <2> HIDE DEF v, a, b
  <2> QED BY <1>3, <2>1
<1>6. Elems(w.players) \subseteq Player
  BY SoundTyped
<1>7. \A q \in Elems(w.rooms), i \in Slots : w.slot[q][i] \in Elems(v.players) => q \in Elems(v.rooms)
  <2> SUFFICES ASSUME NEW i \in Slots, w.slot[r][i] \in Elems(v.players) PROVE FALSE
    BY <1>1, <1>5
  <2> QED BY <1>5, TwoSlots
<1> HIDE DEF v, a, b
<1>8. /\ Playing(v) /\ PeopleKept(v, w)
      /\ \A q \in Elems(v.rooms) : RoomKept(v, w, q)
  BY <1>1, <1>5, <1>6, <1>7, FewerPlayersPlaying
<1>9. RoomsKept(v, w, r) /\ r \notin Elems(v.rooms)
  BY <1>1, <1>5, <1>8 DEF RoomsKept
<1> QED BY <1>5, <1>8, <1>9 DEF v

(***************************************************************************)
(* A connection that takes over a player.                                  *)
(***************************************************************************)
\* A listed room is a game when the list of games has it.
LEMMA GamesListed ==
    ASSUME NEW w, Good(w)
    PROVE  /\ w.gameRooms \subseteq Elems(w.rooms)
           /\ \A r \in Elems(w.rooms) : r \in w.gameRooms <=> w.state[r] = "GAME"
           /\ NoRoom \notin w.gameRooms
  BY GetRoomListed DEF Good, ListsAgree, InState

\* The game room of a player that has a seat.
LEMMA GameOfSeat ==
    ASSUME NEW w, NEW rc, Sound(w, rc), NEW p \in Elems(w.players),
           NEW r \in Elems(w.rooms), NEW i \in Slots, w.slot[r][i] = p
    PROVE  GetGameRoom(w, p) = IF w.state[r] = "GAME" THEN r ELSE NoRoom
  BY SoundSeat, GamesListed DEF Sound, GetGameRoom

\* AbsorbPlayer: the room the new connection leaves is no game, and the player it takes over
\* is resumed where it was.
LEMMA AbsorbPlaying ==
    ASSUME NEW w, NEW rc, Sound(w, rc), Playing(w),
           NEW p \in Elems(w.players), NEW q \in Elems(w.players), p # q, ~Lost(w, p),
           GetRoom(w, p) # NoRoom => w.state[GetRoom(w, p)] # "GAME"
    PROVE  LET v == AbsorbPlayer(w, p, q)
           IN  /\ Playing(v)
               /\ v.gameRooms = w.gameRooms /\ \A r \in w.gameRooms : v.slot[r] = w.slot[r]
               /\ \A x \in Elems(v.players) \ {q} :
                    /\ v.info[x].socket = w.info[x].socket
                    /\ v.info[x].steamID = w.info[x].steamID
                    /\ Lost(w, x) => Lost(v, x)
               /\ Lost(w, q) => /\ v.info[q].state = "GAME"
                                /\ GetGameRoom(w, q) # NoRoom /\ GetGameRoom(v, q) = GetGameRoom(w, q)
<1> DEFINE v == AbsorbPlayer(w, p, q)
           u == OutRoom(w, p)
           o == GetRoom(w, p)
<1>1. /\ u = LeaveRoom(w, p) /\ Sound(u, rc) /\ Absent(u, p)
      /\ Elems(u.players) = Elems(w.players)
  BY OutRoomSound DEF SamePeople, Left
<1>2. /\ Playing(u) /\ RoomsKept(u, w, o) /\ PeopleKept(u, w)
      /\ u.state[o] # "GAME" \/ o = NoRoom
  BY <1>1, LeaveRoomPlaying
<1>3. /\ Sound(v, rc)
      /\ Elems(v.players) = Elems(w.players) \ {p}
      /\ v.rooms = u.rooms /\ v.slot = u.slot /\ v.state = u.state
      /\ \A x \in Player \ {p, q} : v.info[x] = u.info[x]
      /\ v.info[q].steamID = w.info[q].steamID
      /\ v.info[q].socket = w.info[p].socket
      /\ v.info[q].state = IF GetGameRoom(u, q) # NoRoom THEN "GAME" ELSE "LOBBY"
  <2>1. Sound(v, rc) /\ Elems(v.players) = Elems(w.players) \ {p}
    BY AbsorbPlayerSound
  <2>2. v.rooms = u.rooms /\ v.slot = u.slot /\ v.state = u.state
    BY AbsorbPlayerSound
  <2>3. \A x \in Player \ {p, q} : v.info[x] = u.info[x]
    BY AbsorbPlayerSound
  <2>4. v.info[q].steamID = w.info[q].steamID /\ v.info[q].socket = w.info[p].socket
    BY AbsorbPlayerSound
  <2>5. v.info[q].state = IF GetGameRoom(u, q) # NoRoom THEN "GAME" ELSE "LOBBY"
    BY AbsorbPlayerSound
  <2> HIDE DEF v, u
  <2> QED BY <2>1, <2>2, <2>3, <2>4, <2>5
<1>4. /\ Good(w) /\ Good(v) /\ Elems(w.players) \subseteq Player
      /\ NoPlayer \notin Elems(w.players) /\ NoRoom \notin Elems(w.rooms)
  BY <1>3, SoundTyped DEF Sound
<1> HIDE DEF v, u
<1>5. u.info[q].steamID = w.info[q].steamID
  BY <1>1, <1>2 DEF PeopleKept
<1>6. ASSUME NEW r \in Elems(v.rooms)
      PROVE  RoomPlays(v, r)
  <2>1. RoomPlays(u, r)
    BY <1>2, <1>3 DEF Playing
  <2>2. ASSUME NEW i \in Slots, v.slot[r][i] # NoPlayer, v.slot[r][i] # q
        PROVE  v.info[v.slot[r][i]] = u.info[u.slot[r][i]]
    BY <1>3, <2>2, <1>4 DEF Sound, Seated
  <2>3. ASSUME NEW i \in Slots, v.slot[r][i] = q
        PROVE  /\ v.info[q].state = IF v.state[r] = "GAME" THEN "GAME" ELSE "LOBBY"
               /\ v.state[r] # "LOBBY" => v.info[q].steamID # NoID
    <3>1. u.slot[r][i] = q /\ r \in Elems(u.rooms) /\ q \in Elems(u.players)
      BY <1>1, <1>3, <2>3
    <3>2. GetGameRoom(u, q) = IF u.state[r] = "GAME" THEN r ELSE NoRoom
      BY <1>1, <3>1, GameOfSeat
    <3>3. r # NoRoom
      BY <1>1, <3>1, SoundTyped
    <3>4. u.state[r] # "LOBBY" => u.info[q].steamID # NoID
      BY <1>4, <2>1, <3>1 DEF RoomPlays
    <3> QED BY <1>3, <1>5, <3>2, <3>3, <3>4
  <2>4. 0 \in Slots
    BY TwoSlots
  <2>5. v.state[r] = "GAME" => v.slot[r][0] # NoPlayer /\ ~Lost(v, v.slot[r][0])
    BY <1>3, <2>1, <2>2, <2>3, <2>4 DEF RoomPlays, Lost
  <2>6. ASSUME NEW i \in Slots, v.slot[r][i] # NoPlayer
        PROVE  /\ v.state[r] = "GAME" <=> v.info[v.slot[r][i]].state \in {"GAME", "ConnectionLost"}
               /\ v.state[r] # "LOBBY" => v.info[v.slot[r][i]].steamID # NoID
    BY <2>3, <1>3, <2>1, <2>2, <2>6 DEF RoomPlays
  <2> QED BY <2>5, <2>6 DEF RoomPlays
<1>7. ASSUME NEW x \in Elems(v.players), v.info[x].steamID = NoID
      PROVE  v.info[x].state = "LOBBY"
  <2>1. CASE x = q
    <3>1. SUFFICES ASSUME GetGameRoom(u, q) # NoRoom PROVE FALSE
      BY <1>3, <2>1
    <3>2. GetRoom(u, q) \in u.gameRooms /\ Good(u)
      BY <1>1, <3>1 DEF GetGameRoom, Sound
    <3>3. GetRoom(u, q) \in Elems(u.rooms) /\ u.state[GetRoom(u, q)] = "GAME" /\ GetRoom(u, q) # NoRoom
      BY <3>2, GamesListed
    <3>4. PICK i \in Slots : u.slot[GetRoom(u, q)][i] = q
      BY <1>4, <3>2, <3>3, GetRoomSeats
    <3> QED BY <1>2, <1>3, <1>4, <1>5, <1>7, <2>1, <3>3, <3>4 DEF Playing, RoomPlays
  <2>2. CASE x # q
    BY <1>1, <1>2, <1>3, <1>4, <1>7, <2>2 DEF Playing
  <2> QED BY <2>1, <2>2
<1>8. ASSUME NEW x \in Elems(v.players), Lost(v, x)
      PROVE  ~Absent(v, x)
  BY <1>1, <1>3, <1>4, <1>8, <1>2 DEF Lost, Playing, Absent
<1>9. Playing(v)
  BY <1>6, <1>7, <1>8 DEF Playing
<1>10. ASSUME NEW r \in Elems(w.rooms), w.state[r] = "GAME"
       PROVE  r \in Elems(v.rooms) /\ v.state[r] = "GAME" /\ v.slot[r] = w.slot[r]
  BY <1>2, <1>3, <1>4, <1>10 DEF RoomsKept, RoomKept
<1>11. ASSUME NEW r \in Elems(v.rooms), v.state[r] = "GAME"
       PROVE  r \in Elems(w.rooms) /\ w.state[r] = "GAME"
  BY <1>2, <1>3, <1>4, <1>11 DEF RoomsKept, RoomKept
<1>12. v.gameRooms = w.gameRooms /\ \A r \in w.gameRooms : v.slot[r] = w.slot[r]
  <2>1. /\ w.gameRooms \subseteq Elems(w.rooms)
        /\ \A r \in Elems(w.rooms) : r \in w.gameRooms <=> w.state[r] = "GAME"
    BY <1>4, GamesListed
  <2>2. /\ v.gameRooms \subseteq Elems(v.rooms)
        /\ \A r \in Elems(v.rooms) : r \in v.gameRooms <=> v.state[r] = "GAME"
    BY <1>4, GamesListed
  <2> QED BY <1>10, <1>11, <2>1, <2>2
<1>13. ASSUME NEW x \in Elems(v.players) \ {q}
       PROVE  /\ v.info[x].socket = w.info[x].socket
              /\ v.info[x].steamID = w.info[x].steamID
              /\ Lost(w, x) => Lost(v, x)
  BY <1>1, <1>2, <1>3, <1>4 DEF PeopleKept, Lost
<1>14. ASSUME Lost(w, q)
       PROVE  /\ v.info[q].state = "GAME"
              /\ GetGameRoom(w, q) # NoRoom /\ GetGameRoom(v, q) = GetGameRoom(w, q)
  <2>1. PICK r \in Elems(w.rooms), i \in Slots : w.state[r] = "GAME" /\ w.slot[r][i] = q
    BY <1>14, LostSeat
  <2>2. r \in Elems(v.rooms) /\ v.state[r] = "GAME" /\ v.slot[r] = w.slot[r] /\ r # NoRoom
    BY <1>4, <1>10, <2>1
  <2>3. GetGameRoom(w, q) = r
    BY <2>1, GameOfSeat
  <2>4. GetGameRoom(v, q) = r
    BY <1>3, <2>1, <2>2, GameOfSeat
  <2>5. GetGameRoom(u, q) = r
    BY <1>1, <1>3, <2>1, <2>2, GameOfSeat
  <2> QED BY <1>3, <2>2, <2>3, <2>4, <2>5
<1> QED BY <1>9, <1>12, <1>13, <1>14 DEF v

(***************************************************************************)
(* What a step does to the games.                                          *)
(***************************************************************************)
\* Game r of w keeps its party, or is over with those that are connected, or is gone with the last.
PartyKept(v, w, r) ==
    \/ r \in v.gameRooms /\ Members(v, r) = Members(w, r)
    \/ r \in Elems(v.rooms) /\ Members(v, r) = {w.slot[r][i] : i \in NotLost(w, r)}
    \/ r \notin Elems(v.rooms) /\ GetNotLostedPlayerCount(w, r) <= 1

\* No game starts, and every one keeps its party.
GamesGo(v, w) ==
    /\ v.gameRooms \subseteq w.gameRooms
    /\ \A r \in w.gameRooms : PartyKept(v, w, r)

\* A step on one room concerns the game of that room.
LEMMA RoomsKeptGames ==
    ASSUME NEW w, NEW v, Good(w), Good(v), NEW r, RoomsKept(v, w, r),
           r \in v.gameRooms => r \in w.gameRooms,
           r \in w.gameRooms => PartyKept(v, w, r)
    PROVE  GamesGo(v, w)
<1>1. /\ w.gameRooms \subseteq Elems(w.rooms)
      /\ \A q \in Elems(w.rooms) : q \in w.gameRooms <=> w.state[q] = "GAME"
  BY GamesListed
<1>2. /\ v.gameRooms \subseteq Elems(v.rooms)
      /\ \A q \in Elems(v.rooms) : q \in v.gameRooms <=> v.state[q] = "GAME"
  BY GamesListed
<1>3. \A q \in Elems(w.rooms) \ {r} : q \in Elems(v.rooms) /\ v.state[q] = w.state[q] /\ v.slot[q] = w.slot[q]
  BY DEF RoomsKept, RoomKept
<1>4. v.gameRooms \subseteq w.gameRooms
  BY <1>1, <1>2, <1>3 DEF RoomsKept
<1>5. \A q \in w.gameRooms \ {r} : PartyKept(v, w, q)
  BY <1>1, <1>2, <1>3 DEF PartyKept, Members
<1> QED BY <1>4, <1>5 DEF GamesGo

\* A player that is in no room goes.
LEMMA AbsentRemoved ==
    ASSUME NEW w, NEW rc, Sound(w, rc), Playing(w), NEW p \in Elems(w.players), Absent(w, p)
    PROVE  Playing(RemovePlayer(w, p)) /\ PeopleKept(RemovePlayer(w, p), w) /\ GamesGo(RemovePlayer(w, p), w)
<1> DEFINE v == RemovePlayer(w, p)
<1>1. /\ Sound(v, rc) /\ SameRooms(v, w) /\ v.slot = w.slot
      /\ Elems(v.players) = Elems(w.players) \ {p}
      /\ \A q \in Player \ {p} : v.info[q] = w.info[q]
  BY RemovePlayerSound
<1>2. Elems(w.players) \subseteq Player /\ Good(w)
  BY SoundTyped DEF Sound
<1> HIDE DEF v
<1>3. v.rooms = w.rooms /\ v.state = w.state /\ v.gameRooms = w.gameRooms
  BY <1>1 DEF SameRooms
<1>4. Playing(v) /\ PeopleKept(v, w)
  BY <1>1, <1>2, <1>3, FewerPlayersPlaying
<1>5. GamesGo(v, w)
  BY <1>1, <1>3 DEF GamesGo, PartyKept, Members
<1> QED BY <1>4, <1>5 DEF v

\* In a game with both players connected, one is lost: the other is, or becomes, the master.
LEMMA GamePlayerLost ==
    ASSUME NEW w, NEW rc, Sound(w, rc), Playing(w), NEW p \in Elems(w.players),
           NEW r \in Elems(w.rooms), NEW i \in Slots, w.slot[r][i] = p, w.state[r] = "GAME",
           \A j \in Slots : w.slot[r][j] # NoPlayer /\ ~Lost(w, w.slot[r][j])
    PROVE  LET v == DisconnectPlayer(w, r, p)
           IN  /\ Playing(v) /\ PeopleKept(v, w) /\ RoomsKept(v, w, r)
               /\ v.gameRooms = w.gameRooms /\ v.rooms = w.rooms
               /\ Members(v, r) = Members(w, r)
               /\ GetNotLostedPlayerCount(v, r) # 0
<1> DEFINE v == DisconnectPlayer(w, r, p)
           j == 1 - i
           q == w.slot[r][j]
           ss == [w.slot EXCEPT ![r] = IF w.slot[r][0] = p THEN Swapped(w.slot[r]) ELSE w.slot[r]]
           in == [w.info EXCEPT ![p].state = "ConnectionLost"]
           x == [w EXCEPT !.slot = ss, !.info = in]
<1>1. /\ w \in WorldType /\ Good(w) /\ r \in Room /\ p \in Player /\ NoPlayer \notin Player
      /\ w.info \in [Player -> CPlayer] /\ w.slot \in [Room -> Seats] /\ w.slot[r] \in Seats
      /\ Elems(w.players) \subseteq Player /\ Elems(w.rooms) \subseteq Room
  BY SoundTyped, NullAssumption DEF Sound, WorldType
<1>2. v = x
  BY DEF DisconnectPlayer
<1>3. /\ v.slot = ss /\ v.info = in /\ v.state = w.state /\ v.rooms = w.rooms /\ v.players = w.players
      /\ v.gameRooms = w.gameRooms
  <2> HIDE DEF ss, in
  <2> QED BY <1>1, <1>2 DEF WorldType
<1>4. j \in Slots /\ Slots = {i, j} /\ i # j /\ 0 \in Slots
  BY TwoSlots
<1>5. q \in Player /\ q # p /\ q # NoPlayer /\ ~Lost(w, q) /\ q \in Elems(w.players)
  BY <1>4, SoundSeat, <1>1 DEF Sound, Seated
<1>6. /\ in[p].state = "ConnectionLost" /\ in[p].steamID = w.info[p].steamID /\ in[p].socket = w.info[p].socket
      /\ \A y \in Player \ {p} : in[y] = w.info[y]
  BY <1>1 DEF CPlayer
<1>7. ss[r][0] = q /\ ss[r][1] = p
  <2>1. CASE i = 0
    <3>1. w.slot[r][0] = p /\ w.slot[r][1] = q
      BY <2>1
    <3> HIDE DEF q, j
    <3> QED BY <1>1, <3>1, TwoSlots DEF Swapped
  <2>2. CASE i = 1
    <3>1. w.slot[r][1] = p /\ w.slot[r][0] = q
      BY <2>2
    <3> HIDE DEF q, j
    <3> QED BY <1>1, <1>5, <3>1, TwoSlots DEF Swapped
  <2> QED BY <2>1, <2>2, TwoSlots
<1>8. \A y \in Room \ {r} : ss[y] = w.slot[y]
  BY <1>1
<1>9. p # NoPlayer /\ w.info[p].steamID # NoID /\ w.info[q].steamID # NoID /\ w.info[q].state = "GAME"
  BY <1>1, <1>4, <1>5 DEF Playing, RoomPlays, Lost
<1>10. Members(v, r) = {p, q} /\ Members(w, r) = {p, q}
  <2>1. Members(w, r) = {p, q}
    BY <1>4, <1>5, <1>9 DEF Members
  <2> HIDE DEF q, ss, v
  <2> QED BY <1>3, <1>5, <1>7, <1>9, <2>1, TwoSlots DEF Members
<1> HIDE DEF v, ss, in, q, j, x
<1>11. RoomPlays(v, r)
  BY <1>3, <1>5, <1>6, <1>7, <1>9, TwoSlots DEF RoomPlays, Lost
<1>12. \A y \in Elems(w.rooms) \ {r} : RoomKept(v, w, y)
  <2> SUFFICES ASSUME NEW y \in Elems(w.rooms) \ {r}
               PROVE  RoomKept(v, w, y)
    OBVIOUS
  <2>1. \A k \in Slots : w.slot[y][k] # NoPlayer => w.slot[y][k] \in Player \ {p}
    BY <1>1, SoundSeat DEF Sound, Seated
  <2> QED BY <1>1, <1>3, <1>6, <1>8, <2>1 DEF RoomKept
<1>13. RoomsKept(v, w, r)
  BY <1>3, <1>12 DEF RoomsKept
<1>14. PeopleKept(v, w)
  BY <1>1, <1>3, <1>6 DEF PeopleKept, Lost
<1>15. Playing(v)
  <2>1. \A y \in Elems(v.rooms) : RoomPlays(v, y)
    BY <1>3, <1>11, <1>12, RoomKeptPlays DEF Playing
  <2>2. \A y \in Elems(v.players) : v.info[y].steamID = NoID => v.info[y].state = "LOBBY"
    BY <1>1, <1>3, <1>6, <1>9 DEF Playing
  <2>3. \A y \in Elems(v.players) : Lost(v, y) => ~Absent(v, y)
    <3> SUFFICES ASSUME NEW y \in Elems(w.players), Lost(v, y), Absent(v, y)
                 PROVE  FALSE
      BY <1>3
    <3>1. y # p
      BY <1>3, <1>7, TwoSlots DEF Absent
    <3>2. Lost(w, y)
      BY <1>1, <1>3, <1>6, <3>1 DEF Lost
    <3>3. PICK z \in Elems(w.rooms), k \in Slots : w.slot[z][k] = y
      BY <3>2, LostSeat
    <3>4. z # r
      BY <1>4, <1>5, <3>1, <3>2, <3>3 DEF q
    <3> QED BY <1>1, <1>3, <1>8, <3>3, <3>4 DEF Absent
  <2> QED BY <2>1, <2>2, <2>3 DEF Playing
<1>16. GetNotLostedPlayerCount(v, r) # 0
  BY <1>3, <1>4, <1>5, <1>6, <1>7, <1>9, CountConnected DEF NotLost
<1> QED BY <1>3, <1>10, <1>13, <1>14, <1>15, <1>16 DEF v

\* Elsewhere its seat is closed up, and the room is no game after that either.
LEMMA WaitingPlayerLost ==
    ASSUME NEW w, NEW rc, Sound(w, rc), Playing(w), NEW p \in Elems(w.players),
           NEW r \in Elems(w.rooms), NEW i \in Slots, w.slot[r][i] = p, w.state[r] # "GAME",
           \A j \in Slots : w.slot[r][j] # NoPlayer /\ ~Lost(w, w.slot[r][j])
    PROVE  LET v == DisconnectPlayer(w, r, p)
           IN  /\ Playing(v) /\ PeopleKept(v, w) /\ RoomsKept(v, w, r)
               /\ v.state[r] # "GAME"
<1> DEFINE seats == Without(Without(w.slot[r], p), p)
           u == [w EXCEPT !.slot[r] = seats]
           v == CheckAndRestateRoom(u, r)
<1>1. /\ p \in Player /\ p # NoPlayer /\ r \in Room /\ w.slot[r] \in Seats
      /\ Good(w) /\ w \in WorldType
  BY SoundTyped DEF Sound
<1>2. DisconnectPlayer(w, r, p) = v
  BY DEF DisconnectPlayer
<1>3. seats \in Seats
  BY <1>1, SeatsTyped
<1>4. \A j \in Slots : w.slot[r][j] = p => j = i
  BY <1>1, SoundSeat
<1>5. seats[0] = w.slot[r][1 - i] /\ seats[1] = NoPlayer
  BY <1>1, <1>4, WithoutSeat
<1> HIDE DEF seats
<1>6. w.slot[r][1 - i] # NoPlayer /\ 1 - i \in Slots
  BY TwoSlots
<1>7. \A j \in Slots : seats[j] = NoPlayer \/ \E k \in Slots : seats[j] = w.slot[r][k]
  BY <1>5, <1>6, TwoSlots
<1>8. Sound(u, rc)
  BY <1>5, TwoSlots, <1>6, <1>3, <1>7, SeatsWritten
<1>9. Playing(u)
  BY <1>3, <1>7, SeatsPlaying
<1>10. u.state = w.state /\ u.rooms = w.rooms /\ RoomsKept(u, w, r) /\ PeopleKept(u, w)
  BY <1>3, SeatsWrittenKept
<1> HIDE DEF u
<1>11. Playing(v) /\ PeopleKept(v, u) /\ RoomsKept(v, u, r) /\ v.state[r] # "GAME"
  BY <1>8, <1>9, <1>10, CheckAndRestateRoomPlaying
<1> HIDE DEF v
<1> QED BY <1>2, <1>10, <1>11, RoomsKeptTransitive, PeopleKeptTransitive

\* DisconnectRoom: a game goes with its last connected player, and no other way.
LEMMA DisconnectRoomPlaying ==
    ASSUME NEW w, NEW rc, Sound(w, rc), Playing(w), NEW p \in Elems(w.players),
           ~Lost(w, p), Quiet(w, rc, w.info[p].socket)
    PROVE  LET v == DisconnectRoom(w, p)
           IN  Playing(v) /\ PeopleKept(v, w) /\ GamesGo(v, w)
<1> DEFINE r == GetConnectedRoom(w, p)
           u == DisconnectPlayer(w, r, p)
           v == DisconnectRoom(w, p)
<1>1. p \in Player /\ Good(w)
  BY SoundTyped DEF Sound
<1>2. r = GetRoom(w, p)
  BY DEF GetConnectedRoom, Lost
<1>3. v = IF r = NoRoom THEN RemovePlayer(w, p)
          ELSE IF GetNotLostedPlayerCount(w, r) <= 1 THEN DropRoom(w, r)
          ELSE IF GetNotLostedPlayerCount(u, r) = 0 THEN DropRoom(u, r) ELSE u
  BY DEF DisconnectRoom
<1>4. r = NoRoom => Absent(w, p)
  BY <1>1, <1>2, GetRoomSeats
<1>5. r # NoRoom => r \in Elems(w.rooms) /\ \E i \in Slots : w.slot[r][i] = p
  BY <1>1, <1>2, GetRoomSeats
<1> HIDE DEF r
<1>6. Good(v)
  BY <1>1, DisconnectRoomSound DEF Sound
<1>7. /\ \A q \in Elems(w.rooms) : q \in w.gameRooms <=> w.state[q] = "GAME"
      /\ w.gameRooms \subseteq Elems(w.rooms)
  BY <1>1, GamesListed
<1>8. /\ \A q \in Elems(v.rooms) : q \in v.gameRooms <=> v.state[q] = "GAME"
      /\ v.gameRooms \subseteq Elems(v.rooms)
  BY <1>6, GamesListed
<1> HIDE DEF v
<1>9. CASE r = NoRoom
  BY <1>3, <1>4, <1>9, AbsentRemoved DEF v
<1>10. CASE r # NoRoom /\ GetNotLostedPlayerCount(w, r) <= 1
  BY <1>3, <1>5, <1>10, DropRoomPlaying, <1>1, <1>6, <1>8, RoomsKeptGames DEF PartyKept, v
<1>11. CASE r # NoRoom /\ ~ GetNotLostedPlayerCount(w, r) <= 1
  <2>1. \A j \in Slots : w.slot[r][j] # NoPlayer /\ ~Lost(w, w.slot[r][j])
    BY <1>11, TwoConnected
  <2>2. Sound(u, rc) /\ r \in Elems(u.rooms)
    BY <1>5, <1>11, DisconnectPlayerSound
  <2>3. CASE w.state[r] = "GAME"
    <3>1. /\ Playing(u) /\ PeopleKept(u, w) /\ RoomsKept(u, w, r)
          /\ u.gameRooms = w.gameRooms /\ Members(u, r) = Members(w, r)
          /\ GetNotLostedPlayerCount(u, r) # 0
      BY <1>5, <1>11, <2>1, <2>3, GamePlayerLost
    <3>2. v = u
      BY <1>3, <1>11, <3>1
    <3> HIDE DEF u
    <3>3. GamesGo(v, w)
      BY <1>1, <1>6, <3>1, <3>2, RoomsKeptGames DEF PartyKept
    <3> QED BY <3>1, <3>2, <3>3 DEF v
  <2>4. CASE w.state[r] # "GAME"
    <3>1. Playing(u) /\ PeopleKept(u, w) /\ RoomsKept(u, w, r) /\ u.state[r] # "GAME"
      BY <1>5, <1>11, <2>1, <2>4, WaitingPlayerLost
    <3> HIDE DEF u
    <3>2. Playing(v) /\ PeopleKept(v, w) /\ RoomsKept(v, w, r) /\ r \notin v.gameRooms
      <4>1. CASE GetNotLostedPlayerCount(u, r) = 0
        <5>1. v = DropRoom(u, r)
          BY <1>3, <1>11, <4>1
        <5>2. Playing(v) /\ PeopleKept(v, u) /\ RoomsKept(v, u, r) /\ r \notin Elems(v.rooms)
          BY <2>2, <3>1, <5>1, DropRoomPlaying
        <5> QED BY <1>8, <3>1, <5>2, RoomsKeptTransitive, PeopleKeptTransitive
      <4>2. CASE GetNotLostedPlayerCount(u, r) # 0
        BY <1>3, <1>11, <4>2, <1>8, <3>1
      <4> QED BY <4>1, <4>2
    <3>3. r \notin w.gameRooms
      BY <1>7, <2>4
    <3>4. GamesGo(v, w)
      BY <1>1, <1>6, <3>2, <3>3, RoomsKeptGames
    <3> QED BY <3>2, <3>4 DEF v
  <2> QED BY <2>3, <2>4
<1> QED BY <1>9, <1>10, <1>11

(***************************************************************************)
(* A connection.                                                           *)
(***************************************************************************)
\* The new player has a room of its own, which is no game.
LEMMA NewPlayerPlaying ==
    ASSUME NEW w, NEW rc \in [Socket -> BOOLEAN], Sound(w, rc), Playing(w), NEW s \in Socket,
           w.sock[s] = "free", s \notin Elems(w.inbox),
           \A x \in Elems(w.players) : w.info[x].socket # s, NEW p \in w.pool
    PROVE  LET v == CreateRoom(CreatePlayer([w EXCEPT !.sock[s] = "open"], p, s), p)
           IN  /\ Playing(v)
               /\ Elems(v.players) = Elems(w.players) \cup {p}
               /\ v.info[p] = [steamID |-> NoID, socket |-> s, state |-> "LOBBY"]
               /\ \A x \in Elems(w.players) : v.info[x] = w.info[x]
               /\ v.gameRooms = w.gameRooms /\ \A r \in w.gameRooms : v.slot[r] = w.slot[r]
<1> DEFINE u0 == [w EXCEPT !.sock[s] = "open"]
           u == CreatePlayer(u0, p, s)
           v == CreateRoom(u, p)
           blank == [steamID |-> NoID, socket |-> s, state |-> "LOBBY"]
<1>1. /\ w \in WorldType /\ Good(w) /\ ListsAgree(w) /\ Elems(w.players) \subseteq Player
      /\ Elems(w.rooms) \subseteq Room
  BY SoundTyped DEF Sound
<1>2. p \in Player /\ p \notin Elems(w.players) /\ p # NoPlayer
  BY <1>1, NullAssumption DEF Sound, Pooled
<1>3. /\ u0.players = w.players /\ u0.info = w.info /\ u0.slot = w.slot /\ u0.rooms = w.rooms
      /\ u0.state = w.state /\ u0.pool = w.pool /\ u0.gameRooms = w.gameRooms /\ u0 \in WorldType
      /\ u0.matchRooms = w.matchRooms
  BY <1>1 DEF WorldType, SockState
<1> HIDE DEF u0
<1>4. /\ u.players = Append(w.players, p) /\ u.info = [w.info EXCEPT ![p] = blank]
      /\ u.slot = w.slot /\ u.rooms = w.rooms /\ u.state = w.state /\ u.gameRooms = w.gameRooms
  <2>1. u = [u0 EXCEPT !.pool = u0.pool \ {p}, !.players = Append(u0.players, p),
                       !.info = [u0.info EXCEPT ![p] = blank]]
    BY DEF CreatePlayer
  <2> HIDE DEF u, blank
  <2> QED BY <1>3, <2>1 DEF WorldType
<1>5. u \in WorldType
  BY <1>1, <1>3, SameRoomsGood, <1>2, CreatePlayerGood DEF SameRooms, Good
<1> HIDE DEF u
<1>6. /\ u.info[p] = blank /\ \A x \in Elems(w.players) : u.info[x] = w.info[x]
  BY <1>1, <1>2, <1>4 DEF WorldType
<1>7. /\ Elems(v.players) = Elems(w.players) \cup {p} /\ v.info = u.info /\ v.gameRooms = w.gameRooms
      /\ \A r \in Elems(w.rooms) : r \in Elems(v.rooms) /\ v.slot[r] = w.slot[r] /\ v.state[r] = w.state[r]
      /\ \A r \in Elems(v.rooms) \ Elems(w.rooms) :
           v.state[r] = "LOBBY" /\ v.slot[r] = [NoSeats EXCEPT ![0] = p]
  <2>1. Elems(u.players) = Elems(w.players) \cup {p}
    BY <1>1, <1>2, <1>4, AppendElems DEF WorldType
  <2>2. CASE FreeRooms(u) = {}
    BY <2>2, <1>4, <2>1 DEF CreateRoom
  <2>3. CASE FreeRooms(u) # {}
    <3> DEFINE n == NewRoom(u)
               S == [NoSeats EXCEPT ![0] = p]
    <3>1. n \in Room /\ n \notin Elems(w.rooms)
      BY <1>4, <2>3 DEF NewRoom, FreeRooms
    <3>2. v = [u EXCEPT !.rooms = Append(u.rooms, n), !.slot = [u.slot EXCEPT ![n] = S],
                        !.state = [u.state EXCEPT ![n] = "LOBBY"]]
      BY <2>3 DEF CreateRoom
    <3> HIDE DEF n, S, v
    <3>3. /\ v.rooms = Append(w.rooms, n) /\ v.slot = [w.slot EXCEPT ![n] = S]
          /\ v.state = [w.state EXCEPT ![n] = "LOBBY"] /\ v.info = u.info /\ v.players = u.players
          /\ v.gameRooms = u.gameRooms
      BY <1>4, <1>5, <3>2 DEF WorldType
    <3>4. Elems(v.rooms) = Elems(w.rooms) \cup {n}
      BY <1>1, <3>1, <3>3, AppendElems DEF WorldType
    <3> QED BY <1>1, <1>4, <2>1, <3>1, <3>3, <3>4 DEF S, WorldType
  <2> QED BY <2>2, <2>3
<1> HIDE DEF v
<1>8. \A r \in Elems(w.rooms) : RoomKept(v, w, r)
  BY <1>6, <1>7 DEF RoomKept, Sound, Seated
<1>9. \A r \in Elems(v.rooms) \ Elems(w.rooms) : RoomPlays(v, r)
  <2> SUFFICES ASSUME NEW r \in Elems(v.rooms) \ Elems(w.rooms) PROVE RoomPlays(v, r)
    OBVIOUS
  <2>1. v.state[r] = "LOBBY" /\ v.slot[r][0] = p /\ v.slot[r][1] = NoPlayer
    BY <1>7, TwoSlots DEF NoSeats
  <2>2. v.info[p].state = "LOBBY"
    BY <1>6, <1>7
  <2> QED BY <2>1, <2>2, TwoSlots DEF RoomPlays
<1>10. Playing(v)
  BY <1>8, <1>9, RoomKeptPlays, <1>6, <1>7 DEF Playing, Lost, Absent
<1>11. \A r \in w.gameRooms : v.slot[r] = w.slot[r]
  BY <1>1, <1>7, GamesListed
<1> QED BY <1>6, <1>7, <1>10, <1>11 DEF v, u, u0

(***************************************************************************)
(* A request to be matched, a match, and the end of a game.                *)
(***************************************************************************)
\* MatchRequest: a named player that waits or stops waiting, with its room after it.
LEMMA MatchRequestPlaying ==
    ASSUME NEW w, NEW rc, Sound(w, rc), Playing(w), NEW p \in Elems(w.players), ~Lost(w, p),
           w.info[p].steamID # NoID, NEW r \in Elems(w.rooms), NEW i \in Slots, w.slot[r][i] = p,
           w.state[r] # "GAME", NEW st \in {"READY", "LOBBY"}
    PROVE  LET v == CheckAndRestateRoom([w EXCEPT !.info[p].state = st], r)
           IN  Playing(v) /\ PeopleKept(v, w) /\ GamesGo(v, w)
<1> DEFINE in == [w.info EXCEPT ![p].state = st]
           u == [w EXCEPT !.info = in]
           v == CheckAndRestateRoom(u, r)
<1>1. /\ w \in WorldType /\ Good(w) /\ Elems(w.players) \subseteq Player /\ r \in Room
      /\ Elems(w.rooms) \subseteq Room /\ w.info \in [Player -> CPlayer] /\ NoPlayer \notin Elems(w.players)
  BY SoundTyped DEF Sound
<1>2. /\ u.info = in /\ u.players = w.players /\ u.rooms = w.rooms /\ u.slot = w.slot /\ u.state = w.state
      /\ u.gameRooms = w.gameRooms
  <2> HIDE DEF in
  <2> QED BY <1>1 DEF WorldType
<1>3. /\ in[p].state = st /\ in[p].steamID = w.info[p].steamID /\ in[p].socket = w.info[p].socket
      /\ \A y \in Player \ {p} : in[y] = w.info[y]
  BY <1>1 DEF CPlayer
<1>4. Sound(u, rc)
  BY <1>1, PlayerStateSound DEF EGameState
<1> HIDE DEF u, in
<1>5. \A q \in Elems(w.rooms) \ {r} : RoomKept(u, w, q)
  <2> SUFFICES ASSUME NEW q \in Elems(w.rooms) \ {r} PROVE RoomKept(u, w, q)
    OBVIOUS
  <2>1. \A k \in Slots : w.slot[q][k] # NoPlayer => w.slot[q][k] \in Player \ {p}
    BY <1>1, SoundSeat DEF Sound, Seated
  <2> QED BY <1>2, <1>3, <2>1 DEF RoomKept
<1>6. RoomPlays(u, r)
  <2>1. \A k \in Slots : w.slot[r][k] # NoPlayer => w.slot[r][k] \in Player
    BY SeatsPlay
  <2> QED BY <1>2, <1>3, <2>1 DEF Playing, RoomPlays
<1>7. Playing(u)
  BY <1>2, <1>5, <1>6, RoomKeptPlays, <1>1, <1>3 DEF Playing, Lost, Absent
<1>8. RoomsKept(u, w, r) /\ PeopleKept(u, w)
  BY <1>1, <1>2, <1>3, <1>5 DEF RoomsKept, PeopleKept, Lost
<1>9. /\ Playing(v) /\ PeopleKept(v, u) /\ RoomsKept(v, u, r) /\ v.state[r] # "GAME" /\ Good(v)
  BY <1>2, <1>4, <1>7, CheckAndRestateRoomPlaying, CheckAndRestateRoomSound DEF Sound
<1> HIDE DEF v
<1>10. Playing(v) /\ PeopleKept(v, w) /\ RoomsKept(v, w, r) /\ r \notin v.gameRooms /\ r \notin w.gameRooms
  BY <1>1, <1>8, <1>9, RoomsKeptTransitive, PeopleKeptTransitive, GamesListed
<1>11. GamesGo(v, w)
  BY <1>1, <1>9, <1>10, RoomsKeptGames
<1> QED BY <1>10, <1>11 DEF v, u, in

\* StartGame makes one game of one or two waiting rooms and changes no other.
LEMMA StartGamePlaying ==
    ASSUME NEW w, NEW rc, Sound(w, rc), Playing(w), NEW i \in Elems(w.rooms), NEW j \in Elems(w.rooms),
           w.state[i] = "READY", w.state[j] = "READY", Matches(w, i, j)
    PROVE  LET v == StartGame(w, i, j)
           IN  /\ Playing(v) /\ PeopleKept(v, w) /\ v.players = w.players
               /\ v.gameRooms = w.gameRooms \cup {i}
               /\ \A r \in w.gameRooms : v.slot[r] = w.slot[r]
               /\ \A n \in Slots : v.slot[i][n] # NoPlayer
               /\ Members(v, i) = Members(w, i) \cup Members(w, j)
               /\ Elems(v.rooms) = Elems(w.rooms) \ ({j} \ {i})
               /\ \A r \in Elems(v.rooms) \ {i} : v.slot[r] = w.slot[r]
<1>0. PICK u : /\ StartGame(w, i, j) = ChangeRoomState(u, i, "GAME")
               /\ Sound(u, rc) /\ OneRoom(u, w, i, j)
  BY StartGameSound
<1>1. /\ StartGame(w, i, j) = ChangeRoomState(u, i, "GAME")
      /\ Sound(u, rc) /\ SamePeople(u, w) /\ u.info = w.info
      /\ i \in Elems(u.rooms) /\ Elems(u.rooms) = Elems(w.rooms) \ ({j} \ {i})
      /\ \A r \in Elems(u.rooms) : u.state[r] = w.state[r]
      /\ \A r \in Elems(u.rooms) \ {i} : u.slot[r] = w.slot[r]
      /\ \A n \in Slots : u.slot[i][n] # NoPlayer
      /\ Members(u, i) = Members(w, i) \cup Members(w, j)
  BY <1>0 DEF OneRoom
<1> DEFINE v == ChangeRoomState(u, i, "GAME")
<1>2. u.players = w.players
  BY <1>1 DEF SamePeople
<1>3. \A p \in Members(u, i) : /\ w.info[p].state \notin {"GAME", "ConnectionLost"}
                               /\ w.info[p].steamID # NoID
  BY <1>1 DEF Members, Playing, RoomPlays
<1>4. \A n \in Slots : u.slot[i][n] \in Members(u, i)
  BY <1>1 DEF Members
<1>5. RoomPlays(u, i)
  BY <1>1, <1>3, <1>4 DEF RoomPlays
<1>6. \A r \in Elems(u.rooms) \ {i} : RoomKept(u, w, r)
  BY <1>1 DEF RoomKept
<1>7. \A r \in Elems(u.rooms) : RoomPlays(u, r)
  BY <1>1, <1>5, <1>6, RoomKeptPlays DEF Playing
<1>8. \A p \in Elems(u.players) : Lost(u, p) => ~Absent(u, p)
  <2> SUFFICES ASSUME NEW p \in Elems(w.players), Lost(w, p) PROVE ~Absent(u, p)
    BY <1>1, <1>2 DEF Lost
  <2>1. PICK r \in Elems(w.rooms), n \in Slots : w.state[r] = "GAME" /\ w.slot[r][n] = p
    BY LostSeat
  <2>2. r \in Elems(u.rooms) \ {i}
    BY <1>1, <2>1
  <2> QED BY <1>1, <2>1, <2>2 DEF Absent
<1>9. Playing(u)
  BY <1>1, <1>2, <1>7, <1>8 DEF Playing
<1>10. u.state[i] # "GAME" /\ 0 \in Slots
  BY <1>1, TwoSlots
<1>11. Playing(v) /\ PeopleKept(v, u)
  BY <1>1, <1>3, <1>4, <1>9, <1>10, RestatedPlaying DEF Lost, RoomState
<1>12. /\ Sound(v, rc) /\ v.rooms = u.rooms /\ v.slot = u.slot /\ v.players = u.players
  BY <1>1, <1>10, ChangeRoomStateSound DEF RoomState, SamePeople
<1>13. v.state = [u.state EXCEPT ![i] = "GAME"]
  BY <1>1, SoundTyped, RestatedFields DEF Sound, RoomState
<1>14. PeopleKept(u, w)
  BY <1>1, <1>2 DEF PeopleKept, Lost
<1> HIDE DEF v
<1>15. PeopleKept(v, w)
  BY <1>11, <1>14, PeopleKeptTransitive
<1>16. v.gameRooms = w.gameRooms \cup {i}
  BY GamesListed, <1>12, <1>1, SoundTyped, <1>13 DEF Sound, WorldType
<1>17. \A r \in w.gameRooms : r \in Elems(u.rooms) \ {i}
  BY <1>1, GamesListed DEF Sound
<1>18. Members(v, i) = Members(w, i) \cup Members(w, j)
  BY <1>1, <1>12 DEF Members
<1> QED BY <1>1, <1>2, <1>11, <1>12, <1>15, <1>16, <1>17, <1>18 DEF v

\* Evict empties the seat of a lost player and takes the player away, and does nothing else.
LEMMA EvictFields ==
    ASSUME NEW w, NEW rc, Sound(w, rc), NEW r \in Elems(w.rooms), NEW i \in Slots,
           w.slot[r][i] # NoPlayer, Lost(w, w.slot[r][i])
    PROVE  LET v == Evict(w, r, i)
           IN  /\ Elems(v.players) = Elems(w.players) \ {w.slot[r][i]}
               /\ v.rooms = w.rooms /\ v.state = w.state /\ v.gameRooms = w.gameRooms
               /\ \A q \in Player \ {w.slot[r][i]} : v.info[q] = w.info[q]
               /\ v.slot = [w.slot EXCEPT ![r] = [w.slot[r] EXCEPT ![i] = NoPlayer]]
<1> DEFINE p == w.slot[r][i]
           x == RemovePlayer(w, p)
           v == [x EXCEPT !.slot[r][i] = NoPlayer]
           in == IF \E q \in Elems(w.rooms) : p \in Members(w, q) THEN w.info[p] ELSE Blank
<1>1. Good(w) /\ w \in WorldType /\ Elems(w.players) \subseteq Player /\ r \in Room
  BY SoundTyped DEF Sound
<1>2. Evict(w, r, i) = v
  BY DEF Evict, Lost
<1>3. p \in Elems(w.players)
  BY DEF Sound, Seated
<1> HIDE DEF p
<1>4. x = [w EXCEPT !.players = Erase(w.players, p), !.pool = w.pool \cup {p},
                    !.info = [w.info EXCEPT ![p] = in]]
  BY <1>3 DEF RemovePlayer
<1>5. Good(x)
  BY <1>1, RemovePlayerGood
<1> HIDE DEF x, in
<1>6. /\ x.players = Erase(w.players, p) /\ x.rooms = w.rooms /\ x.slot = w.slot /\ x.state = w.state
      /\ x.gameRooms = w.gameRooms
      /\ \A q \in Player \ {p} : x.info[q] = w.info[q]
  BY <1>1, <1>4 DEF WorldType
<1>7. /\ v.players = x.players /\ v.rooms = x.rooms /\ v.info = x.info /\ v.state = x.state
      /\ v.gameRooms = x.gameRooms
      /\ v.slot = [x.slot EXCEPT ![r] = [x.slot[r] EXCEPT ![i] = NoPlayer]]
  BY <1>5 DEF Good, WorldType
<1> HIDE DEF v
<1>8. Elems(v.players) = Elems(w.players) \ {p}
  BY <1>1, <1>6, <1>7, EraseElems DEF Sound, Pooled, WorldType
<1> QED BY <1>2, <1>6, <1>7, <1>8 DEF p

\* The seat of a lost player who is not the master can be emptied.
LEMMA EvictPlaying ==
    ASSUME NEW w, NEW rc, Sound(w, rc), Playing(w), NEW r \in Elems(w.rooms), w.state[r] = "GAME"
    PROVE  LET v == Evict(w, r, 1)
           IN  /\ Playing(v) /\ PeopleKept(v, w) /\ RoomsKept(v, w, r) /\ v.rooms = w.rooms
               /\ v.state = w.state
               /\ v.slot[r][0] = w.slot[r][0]
               /\ v.slot[r][1] = IF 1 \in NotLost(w, r) THEN w.slot[r][1] ELSE NoPlayer
<1> DEFINE p == w.slot[r][1]
           v == Evict(w, r, 1)
<1>1. /\ Good(w) /\ w \in WorldType /\ Elems(w.players) \subseteq Player /\ r \in Room
      /\ Elems(w.rooms) \subseteq Room /\ w.slot[r] \in Seats /\ NoPlayer \notin Elems(w.players)
  BY SoundTyped DEF Sound
<1>2. 0 \in Slots /\ 1 \in Slots
  BY TwoSlots
<1>3. CASE p = NoPlayer \/ ~Lost(w, p)
  <2>1. v = w
    BY <1>3 DEF Evict, Lost
  <2>2. v.slot[r][1] = IF 1 \in NotLost(w, r) THEN w.slot[r][1] ELSE NoPlayer
    BY <1>2, <1>3, <2>1 DEF NotLost, Lost
  <2> HIDE DEF v
  <2> QED BY <2>1, <2>2 DEF PeopleKept, RoomsKept, RoomKept, v
<1>4. CASE p # NoPlayer /\ Lost(w, p)
  <2>1. /\ Elems(v.players) = Elems(w.players) \ {p}
        /\ v.rooms = w.rooms /\ v.state = w.state /\ v.gameRooms = w.gameRooms
        /\ \A q \in Player \ {p} : v.info[q] = w.info[q]
        /\ v.slot = [w.slot EXCEPT ![r] = [w.slot[r] EXCEPT ![1] = NoPlayer]]
    BY <1>2, <1>4, EvictFields
  <2>2. /\ p \in Elems(w.players)
        /\ \A k \in Slots : w.slot[r][k] = p => k = 1
        /\ \A q \in Elems(w.rooms) \ {r}, k \in Slots : w.slot[q][k] # p
    BY <1>2, <1>4, SoundSeat DEF Sound, Seated
  <2>3. 1 \notin NotLost(w, r)
    BY <1>4 DEF NotLost, Lost
  <2> HIDE DEF v, p
  <2>4. v.slot[r][0] = w.slot[r][0] /\ v.slot[r][1] = NoPlayer
    BY <1>1, <1>2, <2>1 DEF WorldType, Seats
  <2>5. \A q \in Elems(w.rooms) \ {r} : v.slot[q] = w.slot[q]
    BY <1>1, <2>1 DEF WorldType
  <2>6. PeopleKept(v, w)
    BY <1>1, <2>1 DEF PeopleKept, Lost
  <2>7. \A q \in Elems(w.rooms) \ {r} : RoomKept(v, w, q)
    <3> SUFFICES ASSUME NEW q \in Elems(w.rooms) \ {r} PROVE RoomKept(v, w, q)
      OBVIOUS
    <3>1. \A k \in Slots : w.slot[q][k] # NoPlayer => w.slot[q][k] \in Player \ {p}
      BY <1>1, <2>2 DEF Sound, Seated
    <3> QED BY <2>1, <2>5, <3>1 DEF RoomKept
  <2>8. RoomsKept(v, w, r)
    BY SMTT(60), <2>1, <2>7 DEF RoomsKept
  <2>9. RoomPlays(v, r)
    <3>1. RoomPlays(w, r) /\ w.slot[r][0] # p /\ w.slot[r][0] \in Elems(w.players)
      BY <1>2, <2>2 DEF Playing, RoomPlays, Sound, Seated
    <3>2. v.info[w.slot[r][0]] = w.info[w.slot[r][0]]
      BY <1>1, <2>1, <3>1
    <3>3. \A i \in Slots : v.slot[r][i] # NoPlayer => i = 0
      BY <2>4, TwoSlots
    <3>4. /\ v.state[r] = w.state[r] /\ v.slot[r][0] = w.slot[r][0]
          /\ v.info[v.slot[r][0]] = w.info[w.slot[r][0]]
      BY <2>1, <2>4, <3>2
    <3> QED BY <1>2, <3>1, <3>3, <3>4 DEF RoomPlays, Lost
  <2>10. Playing(v)
    <3>1. \A q \in Elems(v.rooms) : RoomPlays(v, q)
      BY <2>1, <2>7, <2>9, RoomKeptPlays DEF Playing
    <3>2. \A y \in Elems(v.players) : v.info[y].steamID = NoID => v.info[y].state = "LOBBY"
      BY <1>1, <2>1 DEF Playing
    <3>3. \A y \in Elems(v.players) : Lost(v, y) => ~Absent(v, y)
      <4> SUFFICES ASSUME NEW y \in Elems(v.players), Lost(v, y), Absent(v, y) PROVE FALSE
        OBVIOUS
      <4>1. y \in Elems(w.players) /\ y # p /\ Lost(w, y)
        BY <1>1, <2>1 DEF Lost
      <4>2. PICK z \in Elems(w.rooms), k \in Slots : w.slot[z][k] = y
        BY <4>1, LostSeat
      <4>3. v.slot[z][k] = y
        BY <2>4, <2>5, <4>1, <4>2, TwoSlots DEF p
      <4> QED BY <2>1, <4>2, <4>3 DEF Absent
    <3> QED BY <3>1, <3>2, <3>3 DEF Playing
  <2> QED BY <2>1, <2>3, <2>4, <2>6, <2>8, <2>10 DEF v
<1> QED BY <1>3, <1>4

\* EndGame: who is connected stays in the room, which is a lobby again; who is lost goes.
LEMMA EndGamePlaying ==
    ASSUME NEW w, NEW rc, Sound(w, rc), Playing(w), NEW r \in w.gameRooms
    PROVE  LET v == ChangeRoomState(Evict(Evict(w, r, 0), r, 1), r, "LOBBY")
           IN  Playing(v) /\ PeopleKept(v, w) /\ GamesGo(v, w)
<1> DEFINE u == Evict(w, r, 1)
           v == ChangeRoomState(u, r, "LOBBY")
<1>1. r \in Elems(w.rooms) /\ w.state[r] = "GAME" /\ Good(w) /\ Elems(w.rooms) \subseteq Room
  BY GamesListed, SoundTyped DEF Sound
<1>2. 0 \in Slots /\ 1 \in Slots /\ w.slot[r][0] # NoPlayer /\ ~Lost(w, w.slot[r][0])
  BY <1>1, TwoSlots DEF Playing, RoomPlays
<1>3. Evict(w, r, 0) = w
  BY <1>2 DEF Evict, Lost
<1>4. /\ Playing(u) /\ PeopleKept(u, w) /\ RoomsKept(u, w, r) /\ u.rooms = w.rooms /\ u.state = w.state
      /\ u.slot[r][0] = w.slot[r][0]
      /\ u.slot[r][1] = IF 1 \in NotLost(w, r) THEN w.slot[r][1] ELSE NoPlayer
  BY <1>1, EvictPlaying
<1>5. Sound(u, rc) /\ \A i \in Slots : u.slot[r][i] # NoPlayer => ~Lost(u, u.slot[r][i])
  <2>1. Sound(u, rc) /\ ~Lost(u, w.slot[r][0])
    BY <1>1, <1>2, EvictSound DEF Lost
  <2>2. 1 \in NotLost(w, r) => u = w
    BY DEF Evict, NotLost
  <2> HIDE DEF u
  <2>3. 1 \in NotLost(w, r) => ~Lost(u, w.slot[r][1])
    BY <2>2 DEF NotLost, Lost
  <2> QED BY <1>4, <2>1, <2>3, TwoSlots
<1> HIDE DEF u
<1>6. Playing(v) /\ PeopleKept(v, u)
  BY <1>1, <1>4, <1>5, RestatedPlaying DEF RoomState
<1>7. \A q \in Elems(u.rooms) \ {r} : RoomKept(v, u, q)
  BY <1>1, <1>4, <1>5, RestatedOthers DEF RoomState
<1>8. v.rooms = u.rooms /\ v.slot = u.slot /\ Sound(v, rc)
  BY <1>1, <1>4, <1>5, ChangeRoomStateSound DEF RoomState
<1>9. v.state = [u.state EXCEPT ![r] = "LOBBY"] /\ u.state \in [Room -> RoomState]
  BY <1>5, <1>1, RestatedFields DEF Sound, RoomState, Good, WorldType
<1> HIDE DEF v
<1>10. RoomsKept(v, w, r) /\ PeopleKept(v, w)
  BY <1>7, <1>8, <1>4, <1>6, RoomsKeptTransitive, PeopleKeptTransitive DEF RoomsKept
<1>11. r \in Elems(v.rooms) /\ Members(v, r) = {w.slot[r][i] : i \in NotLost(w, r)}
  BY <1>2, TwoSlots, <1>4, <1>8, <1>1 DEF NotLost, Lost, Members
<1>12. GamesGo(v, w)
  BY <1>8, <1>1, <1>10, <1>11, RoomsKeptGames DEF Sound, PartyKept
<1> QED BY <1>3, <1>6, <1>10, <1>12 DEF v, u

(***************************************************************************)
(* The invariant, and what a step may do.                                  *)
(***************************************************************************)
Settled ==
    /\ Consistent
    /\ Playing(World)
    /\ Known(World, recv, client)
    /\ pc # "crashed"

\* Who is no longer lost is playing, in the game it was lost from, for the client it belongs to.
Resumes(v, w, cl) ==
    \A p \in Elems(v.players) \cap Elems(w.players) :
        Lost(w, p) /\ ~Lost(v, p) =>
            /\ v.info[p].state = "GAME"
            /\ GetGameRoom(w, p) # NoRoom /\ GetGameRoom(v, p) = GetGameRoom(w, p)
            /\ cl[v.info[p].socket] = w.info[p].steamID

\* A step of any handler,
GameStep == GamesGo(World', World) /\ Resumes(World', World, client)

\* and one of the matching.
MatchStep ==
    /\ \A r \in gameRooms : PartyKept(World', World, r)
    /\ Resumes(World', World, client)
    /\ \A r \in gameRooms' \ gameRooms, n \in Slots : World'.slot[r][n] # NoPlayer
    /\ UNION {Members(World', r) : r \in Elems(World'.rooms)} = UNION {Members(World, r) : r \in Elems(World.rooms)}

LEMMA NextFields ==
    /\ World'.players = players' /\ World'.info = info' /\ World'.rooms = rooms'
    /\ World'.slot = slot' /\ World'.state = state' /\ World'.gameRooms = gameRooms'
  BY DEF World

\* The world a step commits is the next one.
LEMMA CommitWorld ==
    ASSUME NEW w, w \in WorldType, Commit(w)
    PROVE  World' = w
  BY DEF Commit, World, WorldType

\* A handler that moves nobody into or out of a game.
LEMMA KeptSettled ==
    ASSUME Settled, Consistent', NEW w, w \in WorldType, Commit(w), recv' = recv, client' = client, pc' # "crashed",
           Playing(w), PeopleKept(w, World), GamesGo(w, World)
    PROVE  Settled' /\ GameStep
  BY CommitWorld DEF Settled, Known, PeopleKept, Resumes, GameStep

\* What does not concern players, rooms and seats concerns no game.
LEMMA SamePlaying ==
    ASSUME NEW w, NEW v, Playing(w), v.players = w.players, v.info = w.info, v.rooms = w.rooms,
           v.slot = w.slot, v.state = w.state, v.gameRooms = w.gameRooms
    PROVE  Playing(v) /\ PeopleKept(v, w) /\ GamesGo(v, w) /\ \A cl : Resumes(v, w, cl)
  BY DEF Playing, RoomPlays, Lost, Absent, PeopleKept, GamesGo, PartyKept, Members, Resumes

\* The first handlers: a connection, and the end of one.
LEMMA SocketStepsSettled ==
    ASSUME Settled, Plays, NEW s \in Socket
    PROVE  /\ \A id \in SteamID : Connect(s, id) => Settled' /\ GameStep
           /\ RecvFails(s) => Settled' /\ GameStep
           /\ CloseDone(s) => Settled' /\ GameStep
<1>1. /\ Sound(World, recv) /\ World \in WorldType /\ Good(World) /\ Playing(World) /\ Consistent
      /\ recv \in [Socket -> BOOLEAN] /\ client \in [Socket -> SteamID \cup {NoID}]
      /\ Elems(World.players) \subseteq Player
  BY WorldGood, SoundTyped DEF Settled, Consistent, Sound
<1>2. Exclusive
  BY DEF Plays, Exclusive
<1>3. /\ \A x \in Socket : recv[x] => client[x] # NoID
      /\ \A x \in Elems(World.players) : /\ World.info[x].socket \in Socket
                                         /\ recv[World.info[x].socket] =>
                                              World.info[x].steamID \in {NoID, client[World.info[x].socket]}
  BY <1>1 DEF Settled, Known, Sound, Connected
<1>4. ASSUME NEW id \in SteamID, Connect(s, id) PROVE Settled' /\ GameStep
  <2> DEFINE u == [World EXCEPT !.sock[s] = "open"]
  <2>1. PICK p \in pool : Commit(CreateRoom(CreatePlayer(u, p, s), p))
    BY <1>4 DEF Connect
  <2> DEFINE v == CreateRoom(CreatePlayer(u, p, s), p)
  <2>2. /\ World.sock[s] = "free" /\ s \notin Elems(World.inbox) /\ p \in World.pool
        /\ \A x \in Elems(World.players) : World.info[x].socket # s
        /\ recv' = [recv EXCEPT ![s] = TRUE] /\ client' = [client EXCEPT ![s] = id] /\ pc' = pc
    BY <1>2, <1>4, WorldFields DEF Connect, Exclusive
  <2>3. /\ Playing(v)
        /\ Elems(v.players) = Elems(World.players) \cup {p}
        /\ v.info[p] = [steamID |-> NoID, socket |-> s, state |-> "LOBBY"]
        /\ \A x \in Elems(World.players) : v.info[x] = World.info[x]
        /\ v.gameRooms = World.gameRooms /\ \A r \in World.gameRooms : v.slot[r] = World.slot[r]
    BY <1>1, <2>2, NewPlayerPlaying
  <2>4. Sound(v, [recv EXCEPT ![s] = TRUE])
    BY <1>1, <2>2, NewPlayerSound
  <2>5. v \in WorldType /\ Consistent'
    BY <1>1, <1>2, <1>4, <2>4, SocketStepsSound DEF Sound, Good
  <2> HIDE DEF v
  <2>6. World' = v
    BY <2>1, <2>5, CommitWorld DEF v
  <2>7. Known(v, recv', client')
    BY <1>1, <1>3, <2>2, NullAssumption, <2>3 DEF Known
  <2>8. GamesGo(v, World) /\ Resumes(v, World, client)
    BY <2>3 DEF GamesGo, PartyKept, Members, Resumes, Lost
  <2>9. Playing(World') /\ Known(World', recv', client') /\ pc' # "crashed"
    BY <2>2, <2>3, <2>6, <2>7 DEF Settled
  <2> QED BY <2>5, <2>6, <2>8, <2>9 DEF Settled, GameStep
<1>5. ASSUME RecvFails(s) PROVE Settled' /\ GameStep
  <2> DEFINE v == Close(World, s)
  <2>1. recv[s] /\ recv' = [recv EXCEPT ![s] = FALSE] /\ Commit(v) /\ client' = client /\ pc' = pc
    BY <1>5 DEF RecvFails
  <2>2. /\ v \in WorldType /\ v.players = World.players /\ v.info = World.info /\ v.slot = World.slot
        /\ v.rooms = World.rooms /\ v.state = World.state /\ v.gameRooms = World.gameRooms
    BY <1>1, CloseFields DEF Good, SameRooms
  <2> HIDE DEF v
  <2>3. World' = v
    BY <2>1, <2>2, CommitWorld
  <2>4. Consistent'
    BY <1>1, <1>2, <1>5, SocketStepsSound
  <2>5. Known(v, recv', client')
    BY <1>1, <1>3, <2>1, <2>2 DEF Known
  <2>6. Playing(v) /\ GamesGo(v, World) /\ Resumes(v, World, client)
    BY <1>1, <2>2, SamePlaying
  <2>7. Playing(World') /\ Known(World', recv', client') /\ pc' # "crashed"
    BY <2>1, <2>3, <2>5, <2>6 DEF Settled
  <2> QED BY <2>3, <2>4, <2>6, <2>7 DEF Settled, GameStep
<1>6. ASSUME CloseDone(s) PROVE Settled' /\ GameStep
  <2> DEFINE v == [World EXCEPT !.sock[s] = "free", !.inbox = Append(World.inbox, s)]
  <2>1. /\ World.sock[s] = "closing" /\ ~recv[s] /\ recv' = recv /\ Commit(v)
        /\ client' = [client EXCEPT ![s] = NoID] /\ pc' = pc
    BY <1>6, WorldFields DEF CloseDone
  <2>2. /\ v.players = World.players /\ v.info = World.info /\ v.slot = World.slot
        /\ v.rooms = World.rooms /\ v.state = World.state /\ v.gameRooms = World.gameRooms
    BY <1>1 DEF WorldType
  <2>3. Sound(v, recv) /\ Consistent'
    BY <1>1, <1>2, <1>6, <2>1, CloseDoneSound, SocketStepsSound
  <2>4. v \in WorldType
    BY <2>3 DEF Sound, Good
  <2> HIDE DEF v
  <2>5. World' = v
    BY <2>1, <2>4, CommitWorld
  <2>6. Known(v, recv', client')
    BY <1>1, <1>3, <2>1, <2>2 DEF Known
  <2>7. Playing(v) /\ GamesGo(v, World) /\ Resumes(v, World, client)
    BY <1>1, <2>2, SamePlaying
  <2>8. Playing(World') /\ Known(World', recv', client') /\ pc' # "crashed"
    BY <2>1, <2>5, <2>6, <2>7 DEF Settled
  <2> QED BY <2>3, <2>5, <2>7, <2>8 DEF Settled, GameStep
<1> QED BY <1>4, <1>5, <1>6

\* A CLOSE message is handled.
LEMMA OnCloseMessageSettled ==
    ASSUME Settled, OnCloseMessage
    PROVE  Settled' /\ GameStep
<1> DEFINE p == Me(Head(inbox))
           w == [World EXCEPT !.inbox = Tail(World.inbox)]
           v == IF p = NoPlayer THEN w ELSE DisconnectRoom(w, p)
<1>1. /\ Sound(World, recv) /\ World.inbox # << >> /\ World.inbox = inbox /\ World \in WorldType
      /\ Playing(World) /\ Consistent
  BY WorldFields, SoundTyped DEF Settled, Consistent, OnCloseMessage
<1>2. Commit(v) /\ recv' = recv /\ client' = client /\ pc' = pc
  BY WorldFields DEF OnCloseMessage, Reply
<1>3. /\ Sound(w, recv) /\ w.players = World.players
      /\ \A x \in Elems(World.players) :
           World.info[x].socket = Head(World.inbox) => ~Lost(w, x) /\ Quiet(w, recv, w.info[x].socket)
  BY <1>1, CloseTakenSound
<1>4. p # NoPlayer => p \in Elems(World.players) /\ World.info[p].socket = Head(World.inbox)
  BY <1>1, MeListed, WorldFields
<1>5. /\ w.info = World.info /\ w.rooms = World.rooms /\ w.slot = World.slot /\ w.state = World.state
      /\ w.gameRooms = World.gameRooms
  BY <1>1 DEF WorldType
<1> HIDE DEF w, p
<1>6. Playing(w) /\ PeopleKept(w, World) /\ GamesGo(w, World)
  BY <1>1, <1>3, <1>5, SamePlaying
<1>7. Sound(v, recv)
  BY <1>3, <1>4, DisconnectRoomSound
<1>8. Playing(v) /\ PeopleKept(v, w) /\ GamesGo(v, w)
  BY <1>6, SamePlaying, <1>3, <1>4, DisconnectRoomPlaying
<1> HIDE DEF v
<1>9. PeopleKept(v, World)
  BY <1>6, <1>8, PeopleKeptTransitive
<1>10. GamesGo(v, World)
  <2>1. \A r : NotLost(w, r) = NotLost(World, r) /\ Members(w, r) = Members(World, r)
    BY <1>5 DEF NotLost, Members
  <2>2. \A r : GetNotLostedPlayerCount(w, r) = GetNotLostedPlayerCount(World, r)
    BY <2>1 DEF GetNotLostedPlayerCount
  <2> QED BY <1>5, <1>8, <2>1, <2>2 DEF GamesGo, PartyKept
<1>11. Consistent' /\ v \in WorldType /\ pc' # "crashed"
  BY <1>1, <1>2, <1>7, OnCloseMessageSound DEF Settled, Sound, Good
<1> QED BY <1>2, <1>8, <1>9, <1>10, <1>11, KeptSettled

\* Giving a player a name of a client.
LEMMA NamedPlaying ==
    ASSUME NEW w, NEW rc, Sound(w, rc), Playing(w), NEW p \in Elems(w.players), NEW id \in SteamID,
           NEW v, v = [w EXCEPT !.info[p].steamID = id]
    PROVE  /\ Playing(v) /\ GamesGo(v, w) /\ v \in WorldType /\ v.players = w.players
           /\ \A x \in Elems(w.players) : /\ v.info[x].socket = w.info[x].socket
                                          /\ v.info[x].state = w.info[x].state
           /\ \A x \in Elems(w.players) \ {p} : v.info[x].steamID = w.info[x].steamID
           /\ v.info[p].steamID = id
<1> DEFINE in == [w.info EXCEPT ![p].steamID = id]
<1>1. /\ w \in WorldType /\ Elems(w.players) \subseteq Player /\ w.info \in [Player -> CPlayer]
  BY SoundTyped
<1>2. v = [w EXCEPT !.info = in]
  OBVIOUS
<1>3. in \in [Player -> CPlayer]
  BY <1>1 DEF CPlayer
<1>4. \A x \in Elems(w.players) : /\ in[x].socket = w.info[x].socket
                                  /\ in[x].state = w.info[x].state
                                  /\ in[x].steamID = IF x = p THEN id ELSE w.info[x].steamID
  BY <1>1 DEF CPlayer
<1> HIDE DEF in
<1>5. /\ v.info = in /\ v.players = w.players /\ v.rooms = w.rooms /\ v.slot = w.slot /\ v.state = w.state
      /\ v.gameRooms = w.gameRooms /\ v \in WorldType
  BY <1>1, <1>2, <1>3 DEF WorldType
<1>6. id # NoID
  BY NullAssumption
<1>7. \A r \in Elems(v.rooms) : RoomPlays(v, r)
  <2> SUFFICES ASSUME NEW r \in Elems(w.rooms) PROVE RoomPlays(v, r)
    BY <1>5
  <2>1. \A i \in Slots : w.slot[r][i] # NoPlayer => w.slot[r][i] \in Elems(w.players)
    BY DEF Sound, Seated
  <2>2. RoomPlays(w, r) /\ 0 \in Slots
    BY TwoSlots DEF Playing
  <2> QED BY <1>4, <1>5, <1>6, <2>1, <2>2 DEF RoomPlays, Lost
<1>8. Playing(v)
  BY <1>4, <1>5, <1>6, <1>7 DEF Playing, Lost, Absent
<1>9. GamesGo(v, w)
  BY <1>5 DEF GamesGo, PartyKept, Members
<1> QED BY <1>4, <1>5, <1>8, <1>9

\* The answer to the question who is there: the connection gets its name, or takes over the
\* player that has it.
LEMMA AnswerIdSettled ==
    ASSUME Settled, Plays, NEW s \in Socket, AnswerId(s)
    PROVE  Settled' /\ GameStep
<1> DEFINE me == Me(s)
           id == client[s]
           old == GetPlayerById(World, id)
           absorbs == old # NoPlayer /\ info[old].socket # info[me].socket
           w == AbsorbPlayer(World, me, old)
           v == Identified(id, me).world
<1>1. /\ Sound(World, recv) /\ Good(World) /\ World \in WorldType /\ Playing(World) /\ Consistent
      /\ World.players = players /\ World.info = info
      /\ Elems(players) \subseteq Player
  BY WorldFields, SoundTyped DEF Settled, Consistent, Sound
<1>2. /\ recv[s] /\ me # NoPlayer /\ Commit(v) /\ recv' = recv /\ client' = client /\ pc' = pc
  BY DEF AnswerId, Receives, Reply
<1>3. me \in Elems(players) /\ me \in Player /\ info[me].socket = s /\ ~Lost(World, me)
  BY <1>1, <1>2, MeListed
<1>4. id \in SteamID /\ id # NoID /\ info[me].steamID \in {NoID, id}
  BY <1>1, <1>2, <1>3, WorldGood DEF Settled, Known, Consistent
<1>5. /\ old # NoPlayer => old \in Elems(players) /\ info[old].steamID = id
      /\ \A x \in Elems(players) : info[x].steamID = id => x = old
  BY <1>1, <1>4, FoundById
<1>6. Sound(v, recv) /\ Consistent'
  BY <1>1, <1>2, <1>3, <1>4, IdentifiedSound, PartyStepsSound
<1>7. v \in WorldType /\ pc' # "crashed"
  BY SMTT(60), <1>2, <1>6 DEF Settled, Sound, Good
<1>8. v = IF absorbs THEN [w EXCEPT !.info[old].steamID = id] ELSE [World EXCEPT !.info[me].steamID = id]
  BY DEF Identified
<1> HIDE DEF me, id, old, w, v
<1>9. World' = v
  BY <1>2, <1>7, CommitWorld
<1>10. \A x \in Socket : recv[x] => client[x] # NoID
  BY DEF Settled, Known
<1>11. \A x \in Elems(players) : recv[info[x].socket] => info[x].steamID \in {NoID, client[info[x].socket]}
  BY <1>1 DEF Settled, Known
<1>12. CASE absorbs
  <2>1. old \in Elems(players) /\ old # me /\ info[old].steamID = id
    BY <1>5, <1>12
  <2>2. info[me].steamID = NoID
    BY <1>3, <1>4, <1>5, <2>1
  <2>3. GetRoom(World, me) # NoRoom => World.state[GetRoom(World, me)] # "GAME"
    <3> SUFFICES ASSUME GetRoom(World, me) # NoRoom, World.state[GetRoom(World, me)] = "GAME"
                 PROVE  FALSE
      OBVIOUS
    <3>1. PICK i \in Slots : World.slot[GetRoom(World, me)][i] = me
      BY <1>1, <1>3, GetRoomSeats
    <3>2. GetRoom(World, me) \in Elems(World.rooms)
      BY <1>1, <1>3, GetRoomSeats
    <3> QED BY <1>1, <1>2, <2>2, <3>1, <3>2 DEF Playing, RoomPlays
  <2>4. /\ Playing(w)
        /\ w.gameRooms = World.gameRooms /\ \A r \in World.gameRooms : w.slot[r] = World.slot[r]
        /\ \A x \in Elems(w.players) \ {old} :
             /\ w.info[x].socket = World.info[x].socket
             /\ w.info[x].steamID = World.info[x].steamID
             /\ Lost(World, x) => Lost(w, x)
        /\ Lost(World, old) =>
             /\ w.info[old].state = "GAME"
             /\ GetGameRoom(World, old) # NoRoom /\ GetGameRoom(w, old) = GetGameRoom(World, old)
    BY <1>1, <1>3, <2>1, <2>3, AbsorbPlaying DEF w
  <2>5. /\ Sound(w, recv) /\ Elems(w.players) = Elems(players) \ {me}
        /\ w.info[old].steamID = id /\ w.info[old].socket = s
    <3>1. me \in Elems(World.players) /\ old \in Elems(World.players) /\ me # old
      BY <1>1, <1>3, <2>1
    <3>2. /\ Sound(w, recv) /\ Elems(w.players) = Elems(World.players) \ {me}
          /\ w.info[old].steamID = World.info[old].steamID /\ w.info[old].socket = World.info[me].socket
      BY <1>1, <3>1, AbsorbPlayerSound DEF w
    <3> QED BY <1>1, <1>3, <2>1, <3>2
  <2>6. old \in Elems(w.players)
    BY <2>1, <2>5
  <2>7. v = w
    BY <1>1, <2>1, <2>5, SoundTyped, <1>8, <1>12 DEF CPlayer, WorldType
  <2>8. Known(w, recv, client)
    <3> SUFFICES ASSUME NEW x \in Elems(w.players), recv[w.info[x].socket]
                 PROVE  w.info[x].steamID \in {NoID, client[w.info[x].socket]}
      BY <1>10 DEF Known
    <3>1. CASE x = old
      BY <2>5, <3>1 DEF id
    <3>2. CASE x # old
      BY <1>1, <1>11, <2>4, <2>5, <3>2
    <3> QED BY <3>1, <3>2
  <2>9. GamesGo(w, World)
    BY <2>4 DEF GamesGo, PartyKept, Members
  <2>10. Resumes(w, World, client)
    <3> SUFFICES ASSUME NEW x \in Elems(w.players), Lost(World, x), ~Lost(w, x)
                 PROVE  /\ w.info[x].state = "GAME"
                        /\ GetGameRoom(World, x) # NoRoom /\ GetGameRoom(w, x) = GetGameRoom(World, x)
                        /\ client[w.info[x].socket] = World.info[x].steamID
      BY DEF Resumes
    <3>1. x = old
      BY <2>4
    <3> QED BY <1>1, <2>1, <2>4, <2>5, <3>1 DEF id
  <2>11. Playing(World') /\ Known(World', recv', client')
    BY <1>2, <1>9, <2>4, <2>7, <2>8
  <2> QED BY <1>6, <1>7, <1>9, <2>7, <2>9, <2>10, <2>11 DEF Settled, GameStep
<1>13. CASE ~absorbs
  <2>1. v = [World EXCEPT !.info[me].steamID = id]
    BY <1>8, <1>13
  <2>2. /\ Playing(v) /\ GamesGo(v, World) /\ v.players = World.players
        /\ \A x \in Elems(players) : /\ v.info[x].socket = info[x].socket
                                     /\ v.info[x].state = info[x].state
                                     /\ v.info[x].steamID = IF x = me THEN id ELSE info[x].steamID
    <3>1. me \in Elems(World.players) /\ id \in SteamID
      BY <1>1, <1>3, <1>4
    <3> HIDE DEF absorbs
    <3>2. Playing(v) /\ GamesGo(v, World) /\ v.players = World.players
      BY <1>1, <2>1, <3>1, NamedPlaying
    <3>3. \A x \in Elems(World.players) : /\ v.info[x].socket = World.info[x].socket
                                           /\ v.info[x].state = World.info[x].state
      BY <1>1, <2>1, <3>1, NamedPlaying
    <3>4. \A x \in Elems(World.players) \ {me} : v.info[x].steamID = World.info[x].steamID
      BY <1>1, <2>1, <3>1, NamedPlaying
    <3>5. v.info[me].steamID = id
      BY <1>1, <1>3, <2>1 DEF WorldType, CPlayer
    <3> QED BY <1>1, <3>2, <3>3, <3>4, <3>5
  <2>3. Known(v, recv, client)
    <3> SUFFICES ASSUME NEW x \in Elems(players), recv[v.info[x].socket]
                 PROVE  v.info[x].steamID \in {NoID, client[v.info[x].socket]}
      BY <1>1, <1>10, <2>2 DEF Known
    <3> QED BY <1>3, <1>11, <2>2 DEF id
  <2>4. Resumes(v, World, client)
    BY <1>1, <2>2 DEF Resumes, Lost
  <2>5. Playing(World') /\ Known(World', recv', client')
    BY <1>2, <1>9, <2>2, <2>3
  <2> QED BY <1>6, <1>7, <1>9, <2>2, <2>4, <2>5 DEF Settled, GameStep
<1> QED BY <1>12, <1>13

\* Requests to be matched, and the end of a game.
LEMMA GameRequestsSettled ==
    ASSUME Settled, NEW s \in Socket
    PROVE  /\ \A isOn \in BOOLEAN : MatchRequest(s, isOn) => Settled' /\ GameStep
           /\ InGame_EndGame(s) => Settled' /\ GameStep
<1> DEFINE me == Me(s)
<1>1. /\ Sound(World, recv) /\ Good(World) /\ World \in WorldType /\ Playing(World) /\ Consistent
      /\ World.players = players /\ World.info = info /\ World.state = state
  BY WorldFields, SoundTyped DEF Settled, Consistent, Sound
<1>2. me # NoPlayer /\ recv[s] => me \in Elems(World.players) /\ me \in Player /\ ~Lost(World, me)
  BY <1>1, MeListed
<1>3. ASSUME NEW isOn \in BOOLEAN, MatchRequest(s, isOn) PROVE Settled' /\ GameStep
  <2> DEFINE r == GetRoom(World, me)
             st == IF isOn THEN "READY" ELSE "LOBBY"
             u == [World EXCEPT !.info[me].state = st]
             v == CheckAndRestateRoom(u, r)
  <2>1. /\ me # NoPlayer /\ recv[s] /\ r # NoRoom /\ World.info[me].steamID # NoID /\ World.state[r] # "GAME"
        /\ Commit(v) /\ recv' = recv /\ client' = client /\ pc' = pc
    BY <1>1, <1>3 DEF MatchRequest, Receives, Reply
  <2>2. PICK i \in Slots : World.slot[r][i] = me
    BY <1>1, <1>2, <2>1, GetRoomSeats
  <2>3. r \in Elems(World.rooms)
    BY <1>1, <1>2, <2>1, GetRoomSeats
  <2>4. st \in {"READY", "LOBBY"}
    OBVIOUS
  <2> HIDE DEF st, r, me
  <2>5. Playing(v) /\ PeopleKept(v, World) /\ GamesGo(v, World)
    BY <1>1, <1>2, <2>1, <2>2, <2>3, <2>4, MatchRequestPlaying
  <2>6. Sound(v, recv)
    <3>1. Sound(u, recv) /\ u.rooms = World.rooms
      BY <1>1, <1>2, <2>1, <2>4, PlayerStateSound DEF EGameState
    <3> HIDE DEF u
    <3> QED BY <2>3, <3>1, CheckAndRestateRoomSound
  <2>7. v \in WorldType /\ Consistent' /\ pc' # "crashed"
    BY <1>1, <1>3, <2>1, <2>6, PartyStepsSound DEF Settled, Sound, Good
  <2> HIDE DEF v
  <2> QED BY <2>1, <2>5, <2>7, KeptSettled
<1>4. ASSUME InGame_EndGame(s) PROVE Settled' /\ GameStep
  <2> DEFINE r == GetGameRoom(World, me)
             v == ChangeRoomState(Evict(Evict(World, r, 0), r, 1), r, "LOBBY")
  <2>1. r # NoRoom /\ Commit(v) /\ recv' = recv /\ client' = client /\ pc' = pc
    BY <1>4 DEF InGame_EndGame, Reply
  <2>2. r \in World.gameRooms
    BY <1>1, <2>1, GetRoomListed
  <2> HIDE DEF r
  <2>3. Playing(v) /\ PeopleKept(v, World) /\ GamesGo(v, World)
    BY <1>1, <2>2, EndGamePlaying
  <2>4. v \in WorldType
    <3>1. r \in Elems(World.rooms) /\ r \in Room
      BY <1>1, <2>2, GamesListed, SoundTyped
    <3> DEFINE w == Evict(Evict(World, r, 0), r, 1)
    <3>2. Good(w) /\ SameRooms(w, World)
      BY <1>1, <3>1, TwoSlots, EvictGood DEF SameRooms
    <3> HIDE DEF w
    <3>3. Good(ChangeRoomState(w, r, "LOBBY"))
      BY <3>1, <3>2, ChangeRoomStateGood DEF RoomState, SameRooms
    <3> QED BY <3>3 DEF Good, w
  <2>5. Consistent' /\ pc' # "crashed"
    BY <1>1, <1>4, <2>1, EndGameSound DEF Settled
  <2> HIDE DEF v
  <2> QED BY <2>1, <2>3, <2>4, <2>5, KeptSettled
<1> QED BY <1>3, <1>4

\* No room is without a connected player, so Update has none to delete.
LEMMA NobodyDeserted ==
    ASSUME NEW w, NEW rc, Sound(w, rc), Playing(w)
    PROVE  Deserted(w) = {}
<1> SUFFICES ASSUME NEW r \in Elems(w.rooms), GetNotLostedPlayerCount(w, r) = 0 PROVE FALSE
  BY DEF Deserted
<1>1. RoomPlays(w, r) /\ Nonempty(w, r)
  BY DEF Playing, Sound, Seated
<1>2. 0 \notin NotLost(w, r) /\ 1 \notin NotLost(w, r)
  BY CountConnected
<1>3. CASE w.state[r] = "GAME"
  BY <1>1, <1>2, <1>3, TwoSlots DEF RoomPlays, NotLost, Lost
<1>4. CASE w.state[r] # "GAME"
  BY <1>1, <1>2, <1>4, TwoSlots DEF RoomPlays, NotLost, Nonempty
<1> QED BY <1>3, <1>4

\* The steps of Update.
LEMMA UpdateStepsSettled ==
    ASSUME Settled
    PROVE  /\ UpdateMatch => Settled' /\ MatchStep
           /\ ~UpdateCleanup
           /\ UpdateEnd => Settled' /\ GameStep
           /\ ~Restart
<1>1. /\ Sound(World, recv) /\ Good(World) /\ World \in WorldType /\ Playing(World) /\ Consistent
      /\ World.rooms = rooms /\ World.gameRooms = gameRooms
  BY WorldFields, SoundTyped DEF Settled, Consistent, Sound
<1>2. ASSUME UpdateMatch PROVE Settled' /\ MatchStep
  <2>1. PICK m \in Matching(World) : Commit(StartGame(World, m[1], m[2]))
    BY <1>2 DEF UpdateMatch
  <2> DEFINE i == m[1]
             j == m[2]
             v == StartGame(World, i, j)
  <2>2. i \in Elems(World.rooms) /\ j \in Elems(World.rooms) /\ Matches(World, i, j)
    BY <1>1, MatchingListed
  <2>3. World.state[i] = "READY" /\ World.state[j] = "READY"
    BY <1>1 DEF Matching, Good, ListsAgree, InState
  <2>4. Commit(v)
    BY <2>1
  <2> HIDE DEF i, j
  <2>5. recv' = recv /\ client' = client /\ pc' # "crashed" /\ Consistent'
    BY <1>1, <1>2, UpdateStepsSound DEF UpdateMatch
  <2>6. v \in WorldType
    BY <1>1, <2>2, StartGameGood DEF Good
  <2>7. /\ Playing(v) /\ PeopleKept(v, World)
        /\ v.gameRooms = World.gameRooms \cup {i}
        /\ \A r \in World.gameRooms : v.slot[r] = World.slot[r]
        /\ \A n \in Slots : v.slot[i][n] # NoPlayer
    BY <1>1, <2>2, <2>3, StartGamePlaying
  <2>8. /\ Members(v, i) = Members(World, i) \cup Members(World, j)
        /\ Elems(v.rooms) = Elems(World.rooms) \ ({j} \ {i})
        /\ \A r \in Elems(v.rooms) \ {i} : v.slot[r] = World.slot[r]
    <3>1. Members(v, i) = Members(World, i) \cup Members(World, j)
      BY <1>1, <2>2, <2>3, StartGamePlaying
    <3>2. Elems(v.rooms) = Elems(World.rooms) \ ({j} \ {i})
      BY <1>1, <2>2, <2>3, StartGamePlaying
    <3>3. \A r \in Elems(v.rooms) \ {i} : v.slot[r] = World.slot[r]
      BY <1>1, <2>2, <2>3, StartGamePlaying
    <3> QED BY <3>1, <3>2, <3>3
  <2> HIDE DEF v
  <2>9. World' = v
    BY <2>4, <2>6, CommitWorld
  <2>10. Playing(World') /\ Known(World', recv', client')
    BY <2>7, <2>5, <2>9 DEF Settled, Known, PeopleKept
  <2>11. \A r \in gameRooms : PartyKept(v, World, r)
    BY <1>1, <2>7 DEF PartyKept, Members
  <2>12. Resumes(v, World, client)
    BY <2>7 DEF Resumes, PeopleKept
  <2>13. \A r \in gameRooms' \ gameRooms, n \in Slots : World'.slot[r][n] # NoPlayer
    BY <2>9, NextFields, <1>1, <2>7
  <2>14. UNION {Members(v, r) : r \in Elems(v.rooms)} = UNION {Members(World, r) : r \in Elems(World.rooms)}
    <3>1. \A r \in Elems(v.rooms) \ {i} : Members(v, r) = Members(World, r)
      BY <2>8 DEF Members
    <3>2. i \in Elems(v.rooms)
      BY <2>2, <2>8
    <3>3. ASSUME NEW p PROVE (\E r \in Elems(v.rooms) : p \in Members(v, r))
                             <=> (\E r \in Elems(World.rooms) : p \in Members(World, r))
      <4>1. ASSUME NEW r \in Elems(v.rooms), p \in Members(v, r)
            PROVE  \E q \in Elems(World.rooms) : p \in Members(World, q)
        BY <2>2, <2>8, <3>1, <4>1
      <4>2. ASSUME NEW r \in Elems(World.rooms), p \in Members(World, r)
            PROVE  \E q \in Elems(v.rooms) : p \in Members(v, q)
        BY <2>2, <2>8, <3>1, <3>2, <4>2
      <4> QED BY <4>1, <4>2
    <3> QED BY <3>3
  <2> QED BY <2>5, <2>9, <2>10, <2>11, <2>12, <2>13, <2>14 DEF Settled, MatchStep
<1>3. ~UpdateCleanup
  BY <1>1, NobodyDeserted, FirstInElems DEF UpdateCleanup
<1>4. ASSUME UpdateEnd PROVE Settled' /\ GameStep
  BY <1>4, <1>1, UpdateStepsSound, SamePlaying DEF UpdateEnd, data, World, Settled, GameStep
<1>5. ~Restart
  BY DEF Restart, Settled
<1> QED BY <1>2, <1>3, <1>4, <1>5

\* The invariant holds at the start,
LEMMA InitSettled == Init => Settled
<1> SUFFICES ASSUME Init PROVE Settled
  OBVIOUS
<1>1. World.players = << >> /\ World.rooms = << >>
  BY DEF Init, World, Fresh
<1>2. Elems(World.players) = {} /\ Elems(World.rooms) = {}
  BY <1>1 DEF Elems
<1>3. pc # "crashed" /\ \A s \in Socket : ~recv[s]
  BY DEF Init
<1> QED BY <1>2, <1>3, InitConsistent DEF Settled, Playing, Known

\* and every step of clients that play preserves it.
LEMMA NextSettled ==
    ASSUME Plays, Settled, [Next]_vars
    PROVE  Settled' /\ (GameStep \/ MatchStep)
<1>1. CASE UNCHANGED vars
  BY <1>1, NextConsistent, SamePlaying DEF vars, World, Plays, Exclusive, Settled, GameStep
<1>2. CASE Next
  <2>1. /\ \A p \in Player : ~UpdatePing(p)
        /\ \A s \in Socket :
             /\ \A id \in SteamID : ~InviteFriendAnswer(s, id)
             /\ ~SetPartyKing(s) /\ ~FriendKickRequest(s) /\ ~Debug_RoomStart(s) /\ ~Debug_GameStart(s)
             /\ \A seats, isGameRoom : ~InGame_ReconnectServer(s, seats, isGameRoom)
    BY DEF Plays, UpdatePing, InviteFriendAnswer, SetPartyKing, FriendKickRequest, Debug_RoomStart,
           Debug_GameStart, InGame_ReconnectServer, Receives
  <2> QED BY <1>2, <2>1, SocketStepsSettled, OnCloseMessageSettled, AnswerIdSettled,
             GameRequestsSettled, UpdateStepsSettled DEF Next
<1> QED BY <1>1, <1>2

(***************************************************************************)
(* The invariants.                                                         *)
(***************************************************************************)
LEMMA SettledAlways == Plays => (Spec => []Settled)
<1> SUFFICES ASSUME Plays PROVE Spec => []Settled
  OBVIOUS
<1>1. Settled /\ [Next]_vars => Settled'
  BY NextSettled
<1> QED BY <1>1, InitSettled, PTL DEF Spec

\* The player in seat 0 of a game, whose machine simulates it, is connected in every state.
THEOREM MasterPresentCorrect == Plays => (Spec => []MasterPresent)
<1>1. Settled => MasterPresent
  <2> SUFFICES ASSUME Settled, NEW r \in gameRooms PROVE 0 \in NotLost(World, r)
    BY DEF MasterPresent
  <2>1. Good(World) /\ Playing(World) /\ World.gameRooms = gameRooms /\ 0 \in Slots
    BY WorldFields, TwoSlots DEF Settled, Consistent, Sound
  <2>2. r \in Elems(World.rooms) /\ World.state[r] = "GAME"
    BY <2>1, GamesListed
  <2> QED BY <2>1, <2>2 DEF Playing, RoomPlays, NotLost, Lost
<1> QED BY <1>1, SettledAlways, PTL

\* A room is a game when everyone in it plays or is lost, and nobody else plays or is lost.
THEOREM GameStatesAgreeCorrect == Plays => (Spec => []GameStatesAgree)
<1>1. Settled => GameStatesAgree
  <2> SUFFICES ASSUME Settled, NEW r \in ListedRooms, NEW p \in Members(World, r)
               PROVE  state[r] = "GAME" <=> info[p].state \in {"GAME", "ConnectionLost"}
    BY DEF GameStatesAgree
  <2>1. r \in Elems(World.rooms) /\ World.state = state /\ World.info = info /\ Playing(World)
    BY WorldFields DEF ListedRooms, Settled
  <2>2. PICK i \in Slots : World.slot[r][i] = p /\ p # NoPlayer
    BY DEF Members
  <2> QED BY <2>1, <2>2 DEF Playing, RoomPlays
<1> QED BY <1>1, SettledAlways, PTL

\* The logic thread does not crash: no room is without a connected player, so the loop of
\* Update that goes on from an iterator it has invalidated never deletes one.
THEOREM NoCrashCorrect == Plays => (Spec => []NoCrash)
<1>1. Settled => NoCrash
  BY DEF Settled, NoCrash
<1> QED BY <1>1, SettledAlways, PTL

(***************************************************************************)
(* The action properties.                                                  *)
(***************************************************************************)
\* A game keeps its party until it ends with those that are connected or goes with the last.
THEOREM GameKeepsPartyCorrect == Plays => (Spec => GameKeepsParty)
<1> SUFFICES ASSUME Plays PROVE Spec => GameKeepsParty
  OBVIOUS
<1> DEFINE Keeps == \A r \in gameRooms :
               \/ r \in gameRooms' /\ Members(World, r)' = Members(World, r)
               \/ r \in ListedRooms' /\ Members(World, r)' = {slot[r][i] : i \in NotLost(World, r)}
               \/ r \notin ListedRooms' /\ GetNotLostedPlayerCount(World, r) <= 1
<1>1. Settled /\ [Next]_vars => Settled'
  BY NextSettled
<1>2. Settled /\ [Next]_vars => [Keeps]_vars
  <2> SUFFICES ASSUME Settled, [Next]_vars, NEW r \in gameRooms
               PROVE  \/ r \in gameRooms' /\ Members(World', r) = Members(World, r)
                      \/ r \in ListedRooms' /\ Members(World', r) = {slot[r][i] : i \in NotLost(World, r)}
                      \/ r \notin ListedRooms' /\ GetNotLostedPlayerCount(World, r) <= 1
    OBVIOUS
  <2>1. PartyKept(World', World, r)
    BY WorldFields, NextSettled DEF GameStep, GamesGo, MatchStep
  <2>2. Elems(World'.rooms) = ListedRooms' /\ World'.gameRooms = gameRooms' /\ World.slot = slot
    BY NextFields, WorldFields DEF ListedRooms
  <2> QED BY <2>1, <2>2 DEF PartyKept
<1> HIDE DEF Keeps
<1>3. Spec => [][Keeps]_vars
  BY <1>1, <1>2, InitSettled, PTL DEF Spec
<1> QED BY <1>3, PTL DEF GameKeepsParty, Keeps

\* Matching starts games that are full, and moves players between rooms without losing one.
\* A step of any other kind starts no game.
THEOREM MatchingKeepsPlayersCorrect == Plays => (Spec => MatchingKeepsPlayers)
<1> SUFFICES ASSUME Plays PROVE Spec => MatchingKeepsPlayers
  OBVIOUS
<1> DEFINE Seats0 == UNION {Members(World, r) : r \in ListedRooms}
<1> DEFINE Fills ==
       gameRooms' # gameRooms /\ ListedRooms' \subseteq ListedRooms /\ players' = players /\ gameRooms \subseteq gameRooms' =>
         /\ \A r \in gameRooms' \ gameRooms : GetPlayerCount(World, r)' = MAX_PLAYER
         /\ Seats0' = Seats0
<1>1. Settled /\ [Next]_vars => Settled'
  BY NextSettled
<1>2. Settled /\ [Next]_vars => [Fills]_vars
  <2> SUFFICES ASSUME Settled, [Next]_vars, gameRooms' # gameRooms, gameRooms \subseteq gameRooms'
               PROVE  /\ \A r \in gameRooms' \ gameRooms : GetPlayerCount(World', r) = MAX_PLAYER
                      /\ UNION {Members(World', r) : r \in ListedRooms'} = UNION {Members(World, r) : r \in ListedRooms}
    OBVIOUS
  <2>1. /\ Elems(World'.rooms) = ListedRooms' /\ World'.gameRooms = gameRooms'
        /\ Elems(World.rooms) = ListedRooms /\ World.gameRooms = gameRooms
    BY NextFields, WorldFields DEF ListedRooms
  <2>2. MatchStep
    BY <2>1, NextSettled DEF GameStep, GamesGo
  <2>3. ASSUME NEW r \in gameRooms' \ gameRooms PROVE GetPlayerCount(World', r) = MAX_PLAYER
    BY <2>2, TwoSlots, CountPlayers DEF MatchStep, MAX_PLAYER
  <2>4. UNION {Members(World', r) : r \in ListedRooms'} = UNION {Members(World, r) : r \in ListedRooms}
    BY <2>1, <2>2 DEF MatchStep
  <2> QED BY <2>3, <2>4
<1> HIDE DEF Fills
<1>3. Spec => [][Fills]_vars
  BY <1>1, <1>2, InitSettled, PTL DEF Spec
<1> QED BY <1>3, PTL DEF MatchingKeepsPlayers, Fills

\* A lost player is resumed only by its own client, in the game it was lost from.
THEOREM ReconnectResumesCorrect == Plays => (Spec => ReconnectResumes)
<1> SUFFICES ASSUME Plays PROVE Spec => ReconnectResumes
  OBVIOUS
<1> DEFINE Back == \A p \in Player :
         /\ info[p].state = "ConnectionLost"
         /\ p \in Listed /\ p \in Listed'
         /\ info'[p].state # "ConnectionLost"
         => /\ info'[p].state = "GAME"
            /\ GetGameRoom(World, p) # NoRoom /\ GetGameRoom(World, p)' = GetGameRoom(World, p)
            /\ client[info'[p].socket] = info[p].steamID
<1>1. Settled /\ [Next]_vars => Settled'
  BY NextSettled
<1>2. Settled /\ [Next]_vars => [Back]_vars
  <2> SUFFICES ASSUME Settled, [Next]_vars, NEW p \in Player, info[p].state = "ConnectionLost",
                      p \in Listed, p \in Listed', info'[p].state # "ConnectionLost"
               PROVE  /\ info'[p].state = "GAME"
                      /\ GetGameRoom(World, p) # NoRoom /\ GetGameRoom(World', p) = GetGameRoom(World, p)
                      /\ client[info'[p].socket] = info[p].steamID
    OBVIOUS
  <2>1. Resumes(World', World, client)
    BY NextSettled DEF GameStep, MatchStep
  <2>2. p \in Elems(World'.players) \cap Elems(World.players) /\ World'.info = info' /\ World.info = info
    BY NextFields, WorldFields DEF Listed
  <2>3. Lost(World, p) /\ ~Lost(World', p)
    BY <2>2 DEF Lost
  <2> QED BY <2>1, <2>2, <2>3 DEF Resumes
<1> HIDE DEF Back
<1>3. Spec => [][Back]_vars
  BY <1>1, <1>2, InitSettled, PTL DEF Spec
<1> QED BY <1>3, PTL DEF ReconnectResumes, Back
=============================================================================
