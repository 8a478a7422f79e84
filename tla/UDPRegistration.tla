--------------------------- MODULE UDPRegistration ---------------------------
(***************************************************************************)
(* How the server learns the UDP addresses of its players.  A client that  *)
(* has connected names itself by TCP and registers its UDP socket with     *)
(* datagrams (C_UDP_Reg); what comes by UDP later is attributed to a       *)
(* player by its address only.  A player whose client connects again is    *)
(* absorbed, and player objects are pooled with the address they had.      *)
(*                                                                         *)
(* Rooms are left out: whether a player stays when its connection ends (in *)
(* a game) or goes (in the lobby) is chosen for each client.               *)
(***************************************************************************)
EXTENDS Integers, Sequences, FiniteSets

CONSTANTS Client,          \* a client is its SteamID
          Player,          \* player objects
          NoOne,
          EventSets,       \* the sets of events that a behaviour may have
          MaxConnections,  \* bound: TCP connections of all clients
          MaxSockets       \* bound: UDP sockets of all clients

\* Overtake: a registration is handled before the name that was sent first by TCP.
\* Late: datagrams from a closed socket are still under way.
Event == {"Overtake", "Late"}
RegistrationAssumption == EventSets \subseteq SUBSET Event /\ NoOne \notin Client \cup Player

VARIABLES
    may, inGame,
    players,        \* CPlayerManager::players
    info,           \* id, connection, bHaveUDP and udpAddr of every object, pooled or not
    open,           \* connections the server has not seen the end of
    connection, named, socket, registered,    \* of each client; socket 0: none
    regs, answers,  \* datagrams under way, or lost
    connections, sockets

clients == <<connection, named, socket, registered>>
vars == <<may, inGame, players, info, open, clients, regs, answers, connections, sockets>>

Init ==
    /\ may \in EventSets /\ inGame \in SUBSET Client
    /\ players = << >> /\ open = {}
    /\ info = [p \in Player |-> [id |-> NoOne, connection |-> 0, have |-> FALSE, addr |-> 0]]
    /\ connection = [c \in Client |-> 0] /\ socket = [c \in Client |-> 0]
    /\ named = [c \in Client |-> FALSE] /\ registered = [c \in Client |-> FALSE]
    /\ regs = {} /\ answers = {}
    /\ connections = 0 /\ sockets = 0
-----------------------------------------------------------------------------
(* CPlayerManager. *)

First(P(_)) ==
    LET found == {i \in DOMAIN players : P(players[i])}
    IN  IF found = {} THEN NoOne ELSE players[CHOOSE i \in found : \A j \in found : i <= j]

GetPlayerById(id) == First(LAMBDA p : info[p].id = id)
GetNoUDPPlayerById(id) == First(LAMBDA p : info[p].id = id /\ ~info[p].have)
GetPlayerByUDPAddr(addr) == First(LAMBDA p : info[p].have /\ info[p].addr = addr)
GetPlayerBySocket(k) == First(LAMBDA p : info[p].connection = k)

\* One player less, which is in the vector.
Without(p) ==
    LET k == CHOOSE i \in DOMAIN players : players[i] = p
    IN  [i \in 1 .. Len(players) - 1 |-> players[IF i < k THEN i ELSE i + 1]]
-----------------------------------------------------------------------------
(* TCP. *)

\* A client (re)connects; the server creates a player for the connection.
Connect(c) ==
    /\ connections < MaxConnections
    /\ connections' = connections + 1 /\ connection' = [connection EXCEPT ![c] = connections + 1]
    /\ open' = open \cup {connections + 1}
    /\ \E p \in Player \ {players[i] : i \in DOMAIN players} :
         /\ players' = Append(players, p)
         /\ info' = [info EXCEPT ![p] = [id |-> NoOne, connection |-> connections + 1,
                                         have |-> FALSE, addr |-> @.addr]]
    /\ named' = [named EXCEPT ![c] = FALSE]
    /\ registered' = [registered EXCEPT ![c] = FALSE]
    /\ socket' = [socket EXCEPT ![c] = 0]
    /\ UNCHANGED <<may, inGame, regs, answers, sockets>>

\* Common_AnswerId: the player that has this name already takes over the connection,
\* and the address of the new player.
AnswerId(c) ==
    LET me == GetPlayerBySocket(connection[c])
        old == GetPlayerById(c)
    IN  /\ connection[c] \in open /\ ~named[c] /\ me # NoOne
        /\ named' = [named EXCEPT ![c] = TRUE]
        /\ IF old = NoOne \/ old = me
           THEN info' = [info EXCEPT ![me].id = c] /\ UNCHANGED <<players, open>>
           ELSE /\ info' = [info EXCEPT ![old].connection = connection[c], ![old].addr = info[me].addr,
                                        ![me].connection = 0]
                /\ players' = Without(me)
                /\ open' = open \ {info[old].connection}
        /\ UNCHANGED <<may, inGame, connection, socket, registered, regs, answers, connections, sockets>>

\* OnCloseMessage: a player in a game is kept, without its address.
OnCloseMessage(k) ==
    /\ k \in open /\ open' = open \ {k}
    /\ LET p == GetPlayerBySocket(k)
       IN  IF info[p].id \in inGame
           THEN /\ info' = [info EXCEPT ![p].have = FALSE, ![p].connection = 0]
                /\ UNCHANGED players
           ELSE players' = Without(p) /\ UNCHANGED info
    /\ UNCHANGED <<may, inGame, clients, regs, answers, connections, sockets>>
-----------------------------------------------------------------------------
(* UDP. *)

\* InitUDP and ConnectUDP, also when the server asks for an address it has not (Update).
Register(c) ==
    /\ connection[c] # 0
    /\ LET p == GetPlayerBySocket(connection[c])
       IN  \/ socket[c] = 0
           \/ connection[c] \in open /\ named[c] /\ p # NoOne /\ ~info[p].have
    /\ sockets < MaxSockets /\ sockets' = sockets + 1
    /\ socket' = [socket EXCEPT ![c] = sockets + 1]
    /\ registered' = [registered EXCEPT ![c] = FALSE]
    /\ LET live == IF "Late" \in may THEN regs ELSE {r \in regs : r.id # c}
       IN  regs' = live \cup {[id |-> c, addr |-> sockets + 1]}
    /\ UNCHANGED <<may, inGame, players, info, open, connection, named, answers, connections>>

\* The registration is sent again until it is answered.
SendAgain(c) ==
    /\ socket[c] # 0 /\ ~registered[c]
    /\ regs' = regs \cup {[id |-> c, addr |-> socket[c]]}
    /\ UNCHANGED <<may, inGame, players, info, open, clients, answers, connections, sockets>>

\* Mutant: an address that is set stays.
SetUDPAddr_Once(p, addr) ==
    [info EXCEPT ![p].addr = IF info[p].have THEN @ ELSE addr, ![p].have = TRUE]

SetUDPAddr(p, addr) == [info EXCEPT ![p].addr = addr, ![p].have = TRUE]

\* A registration from an address that somebody has is not answered.
UDPReg(r) ==
    LET noUDP == GetNoUDPPlayerById(r.id)
        player == IF noUDP # NoOne THEN noUDP ELSE GetPlayerById(r.id)
    IN  /\ r \in regs
        /\ named[r.id] \/ "Overtake" \in may
        /\ regs' = regs \ {r}
        /\ IF GetPlayerByUDPAddr(r.addr) # NoOne \/ player = NoOne
           THEN UNCHANGED <<info, answers>>
           ELSE info' = SetUDPAddr(player, r.addr) /\ answers' = answers \cup {r}
        /\ UNCHANGED <<may, inGame, players, open, clients, connections, sockets>>

UDPResponse(r) ==
    /\ r \in answers /\ answers' = answers \ {r}
    /\ registered' = [registered EXCEPT ![r.id] = @ \/ socket[r.id] = r.addr]
    /\ UNCHANGED <<may, inGame, players, info, open, connection, named, socket, regs, connections, sockets>>

Next ==
    \/ \E c \in Client : Connect(c) \/ AnswerId(c) \/ Register(c) \/ SendAgain(c)
    \/ \E k \in open : OnCloseMessage(k)
    \/ \E r \in regs : UDPReg(r)
    \/ \E r \in answers : UDPResponse(r)

Spec == Init /\ [][Next]_vars
-----------------------------------------------------------------------------
\* Unless a registration overtakes the name or comes from a closed socket: as long as the connection
\* of a client that has been told it is registered stands, the datagrams it sends are taken for
\* those of its own player, which is the one that has its connection.
RegisteredIsAttributed ==
    may = {} =>
        \A c \in Client :
            registered[c] /\ named[c] /\ connection[c] \in open =>
                LET p == GetPlayerByUDPAddr(socket[c])
                IN  p # NoOne /\ info[p].id = c /\ info[p].connection = connection[c]
-----------------------------------------------------------------------------
(* Why registered clients are attributed (proved in ClientProofs). *)
Info == [id : Client \cup {NoOne}, connection : Nat, have : BOOLEAN, addr : Nat]
Datagram == [id : Client, addr : Nat \ {0}]
Typed ==
    /\ players \in Seq(Player) /\ info \in [Player -> Info] /\ open \subseteq 1 .. connections
    /\ connection \in [Client -> Nat] /\ socket \in [Client -> Nat]
    /\ named \in [Client -> BOOLEAN] /\ registered \in [Client -> BOOLEAN]
    /\ regs \subseteq Datagram /\ answers \subseteq Datagram
    /\ connections \in Nat /\ sockets \in Nat

\* A client has its connection and its socket for itself, and both numbers have been given away.
OwnPorts ==
    /\ \A c \in Client : connection[c] <= connections /\ socket[c] <= sockets
    /\ \A c, d \in Client : connection[c] = connection[d] => c = d \/ connection[c] = 0
    /\ \A c, d \in Client : socket[c] = socket[d] => c = d \/ socket[c] = 0
    /\ \A p \in Player : info[p].connection <= connections /\ info[p].addr <= sockets
    /\ \A r \in regs \cup answers : r.addr <= sockets

\* No two listed players have a name or a connection in common, and every connection has a player.
Listed == {players[i] : i \in DOMAIN players}
OnePlayerEach ==
    /\ \A i, j \in DOMAIN players : players[i] = players[j] => i = j
    /\ \A p, q \in Listed : info[p].connection = info[q].connection => p = q \/ info[p].connection = 0
    /\ \A p, q \in Listed : info[p].id = info[q].id => p = q \/ info[p].id = NoOne
    /\ \A k \in open : \E p \in Listed : info[p].connection = k

Online(c) == connection[c] \in open
Plays(p, c) == p \in Listed /\ info[p].id = c /\ info[p].connection = connection[c]
Named == \A c \in Client : named[c] /\ Online(c) => \E p \in Listed : Plays(p, c)

\* The address of a socket in use is at its client's player only, which is named; pooled players that keep
\* their addresses do not have it.
OwnAddress ==
    \A p \in Player, c \in Client :
        Online(c) /\ socket[c] # 0 /\ info[p].addr = socket[c] => named[c] /\ Plays(p, c)

\* A registration has its client's socket, unless that is not open; one that is answered is in force.
Known(c) == \E p \in Listed : Plays(p, c) /\ info[p].have /\ info[p].addr = socket[c]
InForce ==
    /\ \A r \in regs : socket[r.id] # 0 => r.addr = socket[r.id]
    /\ \A r \in regs, c \in Client : r.addr = socket[c] => r.id = c
    /\ \A r \in answers : r.addr = socket[r.id] => named[r.id] /\ (Online(r.id) => Known(r.id))
    /\ \A c \in Client : registered[c] => named[c] /\ socket[c] # 0 /\ (Online(c) => Known(c))

RegistrationInv == may = {} => Typed /\ OwnPorts /\ OnePlayerEach /\ Named /\ OwnAddress /\ InForce
=============================================================================
