---------------------------- MODULE ClientNetwork ----------------------------
(***************************************************************************)
(* UNetworkSystem, the client's connection to the server.  A thread of its *)
(* own connects (InitSocket), one receives by TCP, one by UDP, and the     *)
(* main thread of the game starts, stops and repairs the connection.       *)
(* All of them read and write the same fields without a lock; only         *)
(* ShutdownSocket has one, which a second caller does not wait for.        *)
(*                                                                         *)
(* A step is what one thread does up to its next access to a shared field. *)
(* The server and the network are external.                                *)
(***************************************************************************)
EXTENDS Integers, FiniteSets

CONSTANTS InitThread, TcpThread, UdpThread,
          None,
          EventSets,       \* the sets of events that a behaviour may have
          MaxFaults,       \* bound: registrations without an answer
          MaxOrders,       \* bound: requests of the server
          MaxDrops,        \* bound: connections lost
          MaxTries         \* tryMaxCounter of ConnectUDP

Main == "main"
Thread == {Main} \cup InitThread \cup TcpThread \cup UdpThread

\* Drop: an established connection is lost.  EarlyDrop: one is lost while UDP is registered.
\* UDPRequest: the server asks for a new UDP address.  TCPRequest: for a new connection.
\* UDPLoss: registrations of the UDP address stay without an answer.
\* Stop, Quit: the game gives up connecting, or ends.
Event == {"Drop", "EarlyDrop", "UDPLoss", "UDPRequest", "TCPRequest", "Stop", "Quit"}
NetworkAssumption ==
    /\ EventSets \subseteq SUBSET Event
    /\ MaxFaults \in Nat /\ MaxOrders \in Nat /\ MaxDrops \in Nat /\ MaxTries \in Nat \ {0}
    /\ None \notin Thread
    \* The threads are different ones.
    /\ Main \notin InitThread \cup TcpThread \cup UdpThread
    /\ InitThread \cap TcpThread = {} /\ InitThread \cap UdpThread = {} /\ TcpThread \cap UdpThread = {}

VARIABLES
    may,
    state,             \* currentInitState
    onServer,          \* bOnServer
    locker,            \* who holds shutdownLocker
    hInit, hTcp, hUdp, \* socketInitThread, hTcpThread, hUdpThread
    tcp,               \* tcpSock: "null", "up" or "lost"
    udp,               \* udpSock: 0 or the number of a socket
    at, ret,           \* place of each thread; where ShutdownSocket returns to
    on,                \* the UDP socket a receiving thread is blocked on
    tries, faults, drops, orders

handles == <<hInit, hTcp, hUdp>>
socks == <<tcp, udp>>
places == <<at, ret, on>>
counters == <<tries, faults, drops, orders>>
vars == <<may, state, onServer, locker, handles, socks, places, counters>>

Goto(t, place) == at' = [at EXCEPT ![t] = place] /\ UNCHANGED <<ret, on>>
Call(t, place, return) ==
    at' = [at EXCEPT ![t] = place] /\ ret' = [ret EXCEPT ![t] = return] /\ UNCHANGED on

\* new std::thread: one that nobody refers to any more.
Free(threads) == {t \in threads : at[t] = "dead" /\ t \notin {hInit, hTcp, hUdp}}
Start(t, place, new, first) ==
    at' = [at EXCEPT ![t] = place, ![new] = first] /\ UNCHANGED <<ret, on>>

Init ==
    /\ may \in EventSets
    /\ state = "START" /\ onServer = FALSE /\ locker = None
    /\ hInit = None /\ hTcp = None /\ hUdp = None
    /\ tcp = "null" /\ udp = 0
    /\ at = [t \in Thread |-> IF t = Main THEN "post" ELSE "dead"]
    /\ ret = [t \in Thread |-> "dead"]
    /\ on = [u \in UdpThread |-> 0]
    /\ tries = 0 /\ faults = 0 /\ drops = 0 /\ orders = 0

Fault == faults < MaxFaults /\ faults' = faults + 1
Order == orders < MaxOrders /\ orders' = orders + 1
-----------------------------------------------------------------------------
(* PostInitSocket, on the main thread or on the TCP thread. *)

PostInitSocket(t) ==
    /\ at[t] = "post"
    /\ IF hInit = None THEN Goto(t, "postStart") /\ UNCHANGED state
       ELSE state' = "FAILED" /\ Goto(t, "postJoin")
    /\ UNCHANGED <<may, onServer, locker, handles, socks, counters>>

\* std::thread::join returns.
Joined(h) == h \in {None} \cup {t \in Thread : at[t] = "dead"}

PostJoin(t) ==
    /\ at[t] = "postJoin"
    /\ Joined(hInit) /\ hInit' = None
    /\ Goto(t, "postStart")
    /\ UNCHANGED <<may, state, onServer, locker, hTcp, hUdp, socks, counters>>

PostStart(t) ==
    /\ at[t] = "postStart"
    /\ state' = "START"
    /\ Goto(t, "postNew")
    /\ UNCHANGED <<may, onServer, locker, handles, socks, counters>>

PostNew(t) ==
    /\ at[t] = "postNew"
    /\ \E i \in Free(InitThread) :
         hInit' = i /\ Start(t, IF t = Main THEN "idle" ELSE "dead", i, "init")
    /\ UNCHANGED <<may, state, onServer, locker, hTcp, hUdp, socks, counters>>

\* ShutdownSocket.  Who does not get the lock returns at once.
ShutdownSocket(t) ==
    /\ at[t] = "shut"
    /\ IF locker = None THEN locker' = t /\ Goto(t, "shutState")
                        ELSE Goto(t, ret[t]) /\ UNCHANGED locker
    /\ UNCHANGED <<may, state, onServer, handles, socks, counters>>

ShutState(t) ==
    /\ at[t] = "shutState"
    /\ state' = "FAILED"
    /\ Goto(t, "shutServer")
    /\ UNCHANGED <<may, onServer, locker, handles, socks, counters>>

ShutServer(t) ==
    /\ at[t] = "shutServer"
    /\ onServer' = FALSE
    /\ Goto(t, "joinInit")
    /\ UNCHANGED <<may, state, locker, handles, socks, counters>>

JoinInit(t) ==
    /\ at[t] = "joinInit"
    /\ IF hInit = t THEN UNCHANGED hInit ELSE Joined(hInit) /\ hInit' = None
    /\ Goto(t, "joinTcp")
    /\ UNCHANGED <<may, state, onServer, locker, hTcp, hUdp, socks, counters>>

JoinTcp(t) ==
    /\ at[t] = "joinTcp"
    /\ Joined(hTcp) /\ hTcp' = None
    /\ Goto(t, "joinUdp")
    /\ UNCHANGED <<may, state, onServer, locker, hInit, hUdp, socks, counters>>

JoinUdp(t) ==
    /\ at[t] = "joinUdp"
    /\ Joined(hUdp) /\ hUdp' = None
    /\ Goto(t, "closeSockets")
    /\ UNCHANGED <<may, state, onServer, locker, hInit, hTcp, socks, counters>>

CloseSockets(t) ==
    /\ at[t] = "closeSockets"
    /\ tcp' = "null" /\ udp' = 0
    /\ locker' = None
    /\ Goto(t, ret[t])
    /\ UNCHANGED <<may, state, onServer, handles, counters>>

Shutdown(t) ==
    \/ ShutdownSocket(t) \/ ShutState(t) \/ ShutServer(t) \/ JoinInit(t) \/ JoinTcp(t)
    \/ JoinUdp(t) \/ CloseSockets(t)
-----------------------------------------------------------------------------
(* InitSocket and InitTCP, on the thread that connects. *)

InitSocket(i) ==
    /\ at[i] = "init"
    /\ Goto(i, IF onServer THEN "dead" ELSE "loop")
    /\ UNCHANGED <<may, state, onServer, locker, handles, socks, counters>>

InitLoop(i) ==
    /\ at[i] = "loop"
    /\ Goto(i, IF state = "FAILED" THEN "dead" ELSE "enter")
    /\ UNCHANGED <<may, state, onServer, locker, handles, socks, counters>>

InitEnter(i) ==
    /\ at[i] = "enter"
    /\ onServer' = TRUE /\ tcp' = "null"
    /\ Goto(i, "connect")
    /\ UNCHANGED <<may, state, locker, handles, udp, counters>>

\* Tries until it is connected or cancelled; a refused connect changes nothing.
Connect(i) ==
    /\ at[i] = "connect"
    /\ Goto(i, IF state = "FAILED" THEN "failed" ELSE "connected")
    /\ UNCHANGED <<may, state, onServer, locker, handles, socks, counters>>

Connected(i) ==
    /\ at[i] = "connected"
    /\ IF state = "FAILED"
       THEN Goto(i, "failed") /\ UNCHANGED <<tcp, hTcp>>
       ELSE /\ tcp' = "up"
            /\ \E t \in Free(TcpThread) : hTcp' = t /\ Start(i, "udp", t, "tcp")
    /\ UNCHANGED <<may, state, onServer, locker, hInit, hUdp, udp, counters>>

\* A cancelled or failed attempt shuts down; only what looks cancelled is not tried again.
InitFailed(i) ==
    /\ at[i] = "failed"
    /\ Call(i, "shut", IF state = "FAILED" THEN "dead" ELSE "retry")
    /\ UNCHANGED <<may, state, onServer, locker, handles, socks, counters>>

Retry(i) ==
    /\ at[i] = "retry"
    /\ state' = "START"
    /\ Goto(i, "loop")
    /\ UNCHANGED <<may, onServer, locker, handles, socks, counters>>

InitReady(i) ==
    /\ at[i] = "ready"
    /\ Goto(i, IF state = "FAILED" THEN "dead" ELSE "succeed")
    /\ UNCHANGED <<may, state, onServer, locker, handles, socks, counters>>

\* Mutant: success is not announced.
InitSucceeds_Silent(i) ==
    /\ at[i] = "succeed"
    /\ Goto(i, "dead")
    /\ UNCHANGED <<may, state, onServer, locker, handles, socks, counters>>

InitSucceeds(i) ==
    /\ at[i] = "succeed"
    /\ state' = "SUCCESS"
    /\ Goto(i, "dead")
    /\ UNCHANGED <<may, onServer, locker, handles, socks, counters>>
-----------------------------------------------------------------------------
(* InitUDP and ConnectUDP, on the connecting thread or, when the server asks, on the main one. *)

InitUDP(t) ==
    /\ at[t] = "udp"
    /\ udp' = 0
    /\ Goto(t, "udpOpen")
    /\ UNCHANGED <<may, state, onServer, locker, handles, tcp, counters>>

OpenUDP(t) ==
    /\ at[t] = "udpOpen"
    /\ \E s \in 1 .. Cardinality(UdpThread) + 1 :
         udp' = s /\ s \notin {on[u] : u \in {v \in UdpThread : at[v] = "udpRecv"}}
    /\ tries' = 0
    /\ Goto(t, "register")
    /\ UNCHANGED <<may, state, onServer, locker, handles, tcp, faults, drops, orders>>

\* An answer, or something else, or none in time.
ConnectUDP(t) ==
    LET failed == IF t = Main THEN "reconnectFailed" ELSE "failed"
    IN  /\ at[t] = "register"
        /\ \/ state # "START" /\ Goto(t, failed) /\ UNCHANGED <<tries, faults>>
           \/ /\ state = "START" /\ tcp # "null"
              /\ Goto(t, "registered") /\ UNCHANGED <<tries, faults>>
           \/ /\ state = "START"
              /\ IF tcp = "up" THEN "UDPLoss" \in may /\ Fault ELSE UNCHANGED faults
              /\ IF tries + 1 = MaxTries THEN Goto(t, failed) ELSE UNCHANGED places
              /\ tries' = (tries + 1) % MaxTries
        /\ UNCHANGED <<may, state, onServer, locker, handles, socks, drops, orders>>

Registered(t) ==
    /\ at[t] = "registered"
    /\ \E u \in Free(UdpThread) :
         hUdp' = u /\ Start(t, IF t = Main THEN "reconnected" ELSE "ready", u, "udp")
    /\ UNCHANGED <<may, state, onServer, locker, hInit, hTcp, socks, counters>>
-----------------------------------------------------------------------------
(* The receiving threads. *)

Listen(t, place) ==
    Goto(t, IF onServer /\ state # "FAILED" THEN place ELSE "dead")

TCPRecvThread(t) ==
    /\ at[t] = "tcp"
    /\ Listen(t, "tcpRecv")
    /\ UNCHANGED <<may, state, onServer, locker, handles, socks, counters>>

TCPRecv(t) ==
    /\ at[t] = "tcpRecv"
    /\ Goto(t, IF tcp = "lost" THEN "dropped" ELSE "tcp")
    /\ UNCHANGED <<may, state, onServer, locker, handles, socks, counters>>

\* The connection is lost: with a client that was connected the thread reconnects it.
Dropped(t) ==
    /\ at[t] = "dropped"
    /\ Goto(t, IF state = "SUCCESS" THEN "unhook" ELSE "dead")
    /\ UNCHANGED <<may, state, onServer, locker, handles, socks, counters>>

\* Mutant: the handle stays, and the thread waits for itself.
Unhook_KeepsHandle(t) ==
    /\ at[t] = "unhook"
    /\ Call(t, "shut", "post")
    /\ UNCHANGED <<may, state, onServer, locker, handles, socks, counters>>

Unhook(t) ==
    /\ at[t] = "unhook"
    /\ hTcp' = None
    /\ Call(t, "shut", "post")
    /\ UNCHANGED <<may, state, onServer, locker, hInit, hUdp, socks, counters>>

UDPRecvThread(u) ==
    /\ at[u] = "udp"
    /\ LET place == IF onServer /\ state # "FAILED" /\ udp # 0 THEN "udpRecv" ELSE "dead"
       IN  at' = [at EXCEPT ![u] = place]
    /\ on' = [on EXCEPT ![u] = udp]
    /\ UNCHANGED <<may, state, onServer, locker, handles, socks, ret, counters>>

\* A closed socket ends the thread.
UDPRecv(u) ==
    /\ at[u] = "udpRecv"
    /\ Goto(u, IF on[u] = udp THEN "udp" ELSE "dead")
    /\ UNCHANGED <<may, state, onServer, locker, handles, socks, counters>>
-----------------------------------------------------------------------------
(* The main thread. *)

\* UDP_UDPReconnectRequest: it came by TCP.
ReconnectUDP ==
    /\ at[Main] = "idle" /\ "UDPRequest" \in may /\ tcp = "up" /\ Order
    /\ state' = "START"
    /\ Goto(Main, "udp")
    /\ UNCHANGED <<may, onServer, locker, handles, socks, tries, faults, drops>>

UDPReconnected ==
    /\ at[Main] \in {"reconnected", "reconnectFailed"}
    /\ state' = IF at[Main] = "reconnected" THEN "SUCCESS" ELSE "FAILED"
    /\ Goto(Main, "idle")
    /\ UNCHANGED <<may, onServer, locker, handles, socks, counters>>

\* UDP_TCPReconnectRequest: it came by UDP.  Shutdown, Sleep, Init.
ReconnectTCP ==
    /\ at[Main] = "idle" /\ "TCPRequest" \in may /\ Order
    /\ \E u \in UdpThread : at[u] # "dead"
    /\ Call(Main, "shut", "restart")
    /\ UNCHANGED <<may, state, onServer, locker, handles, socks, tries, faults, drops>>

Restart ==
    /\ at[Main] = "restart"
    /\ state' = "FAILED"
    /\ Goto(Main, "post")
    /\ UNCHANGED <<may, onServer, locker, handles, socks, counters>>

StopToInit ==
    /\ at[Main] = "idle" /\ "Stop" \in may
    /\ IF hInit = None THEN Goto(Main, "stopped") /\ UNCHANGED state
       ELSE state' = "FAILED" /\ Goto(Main, "stopJoin")
    /\ UNCHANGED <<may, onServer, locker, handles, socks, counters>>

StopJoin ==
    /\ at[Main] = "stopJoin"
    /\ Joined(hInit) /\ hInit' = None
    /\ Goto(Main, "stopped")
    /\ UNCHANGED <<may, state, onServer, locker, hTcp, hUdp, socks, counters>>

Quit ==
    /\ at[Main] = "idle" /\ "Quit" \in may
    /\ Call(Main, "shut", "stopped")
    /\ UNCHANGED <<may, state, onServer, locker, handles, socks, counters>>

\* Mutant: the state is not set again after the join.
Stopped_NotFailed ==
    /\ at[Main] = "stopped"
    /\ Goto(Main, "off")
    /\ UNCHANGED <<may, state, onServer, locker, handles, socks, counters>>

Stopped ==
    /\ at[Main] = "stopped"
    /\ state' = "FAILED"
    /\ Goto(Main, "off")
    /\ UNCHANGED <<may, onServer, locker, handles, socks, counters>>

\* The network.
Drop ==
    /\ tcp = "up" /\ drops < MaxDrops
    /\ \/ "EarlyDrop" \in may
       \/ "Drop" \in may /\ state = "SUCCESS"
    /\ tcp' = "lost" /\ drops' = drops + 1
    /\ UNCHANGED <<may, state, onServer, locker, handles, udp, places, tries, faults, orders>>
-----------------------------------------------------------------------------
Post(t) == PostInitSocket(t) \/ PostJoin(t) \/ PostStart(t) \/ PostNew(t)

RegisterUDP(t) == InitUDP(t) \/ OpenUDP(t) \/ ConnectUDP(t) \/ Registered(t)

InitStep(i) ==
    \/ InitSocket(i) \/ InitLoop(i) \/ InitEnter(i) \/ Connect(i) \/ Connected(i)
    \/ InitFailed(i) \/ Retry(i) \/ InitReady(i) \/ InitSucceeds(i)
    \/ RegisterUDP(i) \/ Shutdown(i)

TcpStep(t) ==
    TCPRecvThread(t) \/ TCPRecv(t) \/ Dropped(t) \/ Unhook(t) \/ Shutdown(t) \/ Post(t)

UdpStep(u) == UDPRecvThread(u) \/ UDPRecv(u)

\* What the main thread has begun, it goes on with.
MainStep ==
    \/ Post(Main) \/ Shutdown(Main) \/ RegisterUDP(Main)
    \/ UDPReconnected \/ Restart \/ StopJoin \/ Stopped

Next ==
    \/ MainStep \/ ReconnectUDP \/ ReconnectTCP \/ StopToInit \/ Quit
    \/ \E i \in InitThread : InitStep(i)
    \/ \E t \in TcpThread : TcpStep(t)
    \/ \E u \in UdpThread : UdpStep(u)
    \/ Drop

Spec == Init /\ [][Next]_vars

Fairness ==
    /\ WF_vars(MainStep)
    /\ \A i \in InitThread : WF_vars(InitStep(i))
    /\ \A t \in TcpThread : WF_vars(TcpStep(t))
    /\ \A u \in UdpThread : WF_vars(UdpStep(u))

FairSpec == Spec /\ Fairness
-----------------------------------------------------------------------------
(* Properties. *)

\* What a thread is waiting for in join().
Awaits(t) ==
    (IF at[t] \in {"postJoin", "joinInit", "stopJoin"} /\ hInit # t THEN {hInit}
     ELSE IF at[t] = "joinTcp" THEN {hTcp}
     ELSE IF at[t] = "joinUdp" THEN {hUdp} ELSE {}) \ {None}

\* No thread joins itself or a thread that another one joins, unless the main thread interferes
\* while the TCP thread replaces a lost connection.
OrderEvents == {"UDPRequest", "TCPRequest", "Stop", "Quit"}
JoinedOnce ==
    may \cap OrderEvents = {} \/ may \cap {"Drop", "EarlyDrop"} = {} =>
        \A t \in Thread : /\ t \notin Awaits(t)
                          /\ \A v \in Thread \ {t} : Awaits(t) \cap Awaits(v) = {}

Undisturbed == may \subseteq {"Drop", "UDPLoss"}
Listens == /\ onServer
           /\ \E t \in TcpThread : at[t] # "dead"
           /\ \E u \in UdpThread : at[u] # "dead"
Online == state = "SUCCESS" /\ tcp = "up" /\ Listens

\* Undisturbed, and unless its connection is lost while it registers for UDP, a client comes back
\* whenever its connection is lost, and listens by TCP and UDP; so does one that is told to
\* connect again.
Persists == Undisturbed \/ may = {"TCPRequest"}
StaysOnline == Persists => []<>Online

\* When the game has given up or quit, its threads end.  (Unless, when it quits, the connecting
\* thread is shutting down a failed attempt, or when it gives up, a lost connection is replaced.)
GivesUp == may \in {{"Quit"}, {"Stop"}, {"Stop", "UDPLoss"}}
Off == at[Main] = "off"
AllEnded == \A t \in Thread \ {Main} : at[t] = "dead"
OffEndsAll == GivesUp => (Off ~> AllEnded)

-----------------------------------------------------------------------------
(* Why no thread is joined twice (proved in ClientProofs). *)
Held == {"shutState", "shutServer", "joinInit", "joinTcp", "joinUdp", "closeSockets"}
Shutting == {"shut"} \cup Held
Early == {"init", "loop", "enter", "connect", "connected", "retry"}
Registering == {"udp", "udpOpen", "register", "registered"}
Working == {"tcp", "tcpRecv", "dropped"}
Repairing == {"unhook", "post", "postJoin", "postStart", "postNew"} \cup Shutting

Typed ==
    /\ hInit \in InitThread \cup {None} /\ hTcp \in TcpThread \cup {None} /\ hUdp \in UdpThread \cup {None}
    /\ locker \in Thread \cup {None} /\ DOMAIN at = Thread /\ DOMAIN ret = Thread
    /\ \A i \in InitThread : at[i] \in {"dead", "failed", "ready", "succeed"} \cup Early \cup Registering \cup Shutting
    /\ \A t \in TcpThread : at[t] \in {"dead"} \cup Working \cup Repairing
    /\ \A u \in UdpThread : at[u] \in {"dead", "udp", "udpRecv"}
    /\ \A i \in InitThread : at[i] \in Shutting => ret[i] \in {"dead", "retry"}
    /\ \A t \in TcpThread : at[t] \in Shutting => ret[t] = "post"
    /\ at[Main] \in Shutting => ret[Main] \in {"restart", "stopped"}

\* One thread at a time shuts down; a thread that connects is referred to, and the next one is started when
\* nobody is.
Exclusive ==
    /\ \A t \in Thread : at[t] \in Held <=> locker = t
    /\ \A i \in InitThread : at[i] # "dead" => hInit = i
    /\ \A t \in Thread : at[t] \in {"postStart", "postNew"} => hInit = None

Ended(threads) == \A t \in threads : at[t] = "dead"

\* Without orders the main thread rests, and of the others one is in charge at a time: the one that connects,
\* or the TCP thread that replaces its connection, when no other TCP thread is left.
InCharge ==
    /\ at[Main] \in {"post", "postStart", "postNew", "idle"}
    /\ at[Main] # "idle" => hInit = None /\ hTcp = None /\ Ended(TcpThread)
    /\ \A t \in TcpThread : at[t] \in Working => hTcp = t
    /\ \A t \in TcpThread : at[t] \in Repairing =>
         at[Main] = "idle" /\ Ended(InitThread) /\ Ended(TcpThread \ {t}) /\ (at[t] # "unhook" => hTcp = None)
    /\ \A i \in InitThread : at[i] \in Early \cup {"joinUdp", "closeSockets"} => Ended(TcpThread)
    /\ state = "SUCCESS" => Ended(InitThread) /\ at[Main] = "idle"
    /\ \A t \in Thread : at[t] = "postNew" => state # "SUCCESS"

\* Without losses the TCP threads only receive.
OnlyReceive == tcp # "lost" /\ \A t \in TcpThread : at[t] \in {"dead", "tcp", "tcpRecv"}

Ordered == may \cap OrderEvents # {}
Losing == may \cap {"Drop", "EarlyDrop"} # {}
JoinInv ==
    ~(Ordered /\ Losing) => Typed /\ Exclusive /\ (~Ordered => InCharge) /\ (~Losing => OnlyReceive)
=============================================================================
