---------------------------- MODULE ClientProofs ----------------------------
(***************************************************************************)
(* What is proved of the parts of the client, for every number of threads, *)
(* clients and players, and of events of each kind.                        *)
(***************************************************************************)
EXTENDS MCClient, SequenceTheorems, WellFoundedInduction, TLAPS

(***************************************************************************)
(* The threads of the connection (ClientNetwork).                          *)
(***************************************************************************)
Apart == ~(Net!Ordered /\ Net!Losing)
NetInv == part = "net" => Net!JoinInv

\* The threads are different ones.
LEMMA NetThreads ==
    /\ Net!Thread = {"main"} \cup InitThread \cup TcpThread \cup UdpThread
    /\ "main" \notin InitThread \cup TcpThread \cup UdpThread
    /\ InitThread \cap TcpThread = {} /\ InitThread \cap UdpThread = {} /\ TcpThread \cap UdpThread = {}
    /\ None \notin {"main"} \cup InitThread \cup TcpThread \cup UdpThread
BY ClientAssumption DEF ClientAssumption, Net!NetworkAssumption, Net!Thread, Net!Main

NetGood ==
    /\ Net!Typed /\ Net!Exclusive /\ may' = may /\ Apart
    /\ ~Net!Ordered => Net!InCharge
    /\ ~Net!Losing => Net!OnlyReceive
NetKept ==
    /\ Net!Typed' /\ Net!Exclusive'
    /\ ~Net!Ordered => Net!InCharge'
    /\ ~Net!Losing => Net!OnlyReceive'

\* The thread that connects.
LEMMA NetConnects ==
    ASSUME NetGood, NEW i \in InitThread,
           \/ Net!InitSocket(i) \/ Net!InitLoop(i) \/ Net!InitEnter(i) \/ Net!Connect(i)
           \/ Net!InitFailed(i) \/ Net!Retry(i) \/ Net!InitReady(i) \/ Net!InitSucceeds(i)
    PROVE  NetKept
<1> USE NetThreads DEF NetGood, Net!Goto, Net!Call, Net!Main
<1> USE DEF Net!InitSocket, Net!InitLoop, Net!InitEnter, Net!Connect, Net!InitFailed, Net!Retry, Net!InitReady,
            Net!InitSucceeds
<1>1. Net!Typed'
  BY DEF Net!Typed, Net!handles, Net!Held, Net!Shutting, Net!Early, Net!Registering
<1>2. Net!Exclusive'
  BY DEF Net!Typed, Net!handles, Net!Held, Net!Exclusive
<1>3. ~Net!Ordered => Net!InCharge'
  BY DEF Net!Typed, Net!handles, Net!Held, Net!Shutting, Net!Early, Net!Working, Net!Repairing, Net!InCharge, Net!Ended, Net!Exclusive
<1>4. ~Net!Losing => Net!OnlyReceive'
  BY DEF Net!Typed, Net!handles, Net!socks, Net!OnlyReceive
<1> QED
  BY <1>1, <1>2, <1>3, <1>4 DEF NetKept

\* It registers for UDP, as the main thread does when it is told to.
LEMMA NetRegisters ==
    ASSUME NetGood, NEW t \in InitThread \cup {"main"}, Net!RegisterUDP(t)
    PROVE  NetKept
<1> USE NetThreads DEF NetGood, Net!Goto, Net!Start, Net!Free, Net!Main
<1>1. Net!Typed'
  <2>1. CASE Net!InitUDP(t)
    BY <2>1 DEF Net!InitUDP, Net!Typed, Net!handles, Net!places, Net!Held, Net!Shutting, Net!Early, Net!Registering
  <2>2. CASE Net!OpenUDP(t)
    BY <2>2 DEF Net!OpenUDP, Net!Typed, Net!handles, Net!places, Net!Held, Net!Shutting, Net!Early, Net!Registering
  <2>3. CASE Net!ConnectUDP(t)
    BY <2>3 DEF Net!ConnectUDP, Net!Typed, Net!handles, Net!places, Net!Held, Net!Shutting, Net!Early, Net!Registering
  <2>4. CASE Net!Registered(t)
    BY <2>4 DEF Net!Registered, Net!Typed, Net!handles, Net!places, Net!Held, Net!Shutting, Net!Early, Net!Registering
  <2> QED
    BY <2>1, <2>2, <2>3, <2>4 DEF Net!RegisterUDP
<1>2. Net!Exclusive'
  <2>1. CASE Net!InitUDP(t)
    BY <2>1 DEF Net!InitUDP, Net!Typed, Net!handles, Net!places, Net!Held, Net!Exclusive
  <2>2. CASE Net!OpenUDP(t)
    BY <2>2 DEF Net!OpenUDP, Net!Typed, Net!handles, Net!places, Net!Held, Net!Exclusive
  <2>3. CASE Net!ConnectUDP(t)
    BY <2>3 DEF Net!ConnectUDP, Net!Typed, Net!handles, Net!places, Net!Held, Net!Exclusive
  <2>4. CASE Net!Registered(t)
    BY <2>4 DEF Net!Registered, Net!Typed, Net!handles, Net!places, Net!Held, Net!Exclusive
  <2> QED
    BY <2>1, <2>2, <2>3, <2>4 DEF Net!RegisterUDP
<1>3. ~Net!Ordered => Net!InCharge'
  <2>1. CASE Net!InitUDP(t)
    BY <2>1 DEF Net!InitUDP, Net!Typed, Net!handles, Net!places, Net!Held, Net!Shutting, Net!Early, Net!Working, Net!Repairing,
             Net!InCharge, Net!Ended, Net!Exclusive
  <2>2. CASE Net!OpenUDP(t)
    BY <2>2 DEF Net!OpenUDP, Net!Typed, Net!handles, Net!places, Net!Held, Net!Shutting, Net!Early, Net!Working, Net!Repairing,
             Net!InCharge, Net!Ended, Net!Exclusive
  <2>3. CASE Net!ConnectUDP(t)
    BY <2>3 DEF Net!ConnectUDP, Net!Typed, Net!handles, Net!places, Net!Held, Net!Shutting, Net!Early, Net!Working, Net!Repairing,
             Net!InCharge, Net!Ended, Net!Exclusive
  <2>4. CASE Net!Registered(t)
    BY <2>4 DEF Net!Registered, Net!Typed, Net!handles, Net!places, Net!Held, Net!Shutting, Net!Early, Net!Working, Net!Repairing,
             Net!InCharge, Net!Ended, Net!Exclusive
  <2> QED
    BY <2>1, <2>2, <2>3, <2>4 DEF Net!RegisterUDP
<1>4. ~Net!Losing => Net!OnlyReceive'
  <2>1. CASE Net!InitUDP(t)
    BY <2>1 DEF Net!InitUDP, Net!Typed, Net!handles, Net!places, Net!socks, Net!OnlyReceive
  <2>2. CASE Net!OpenUDP(t)
    BY <2>2 DEF Net!OpenUDP, Net!Typed, Net!handles, Net!places, Net!socks, Net!OnlyReceive
  <2>3. CASE Net!ConnectUDP(t)
    BY <2>3 DEF Net!ConnectUDP, Net!Typed, Net!handles, Net!places, Net!socks, Net!OnlyReceive
  <2>4. CASE Net!Registered(t)
    BY <2>4 DEF Net!Registered, Net!Typed, Net!handles, Net!places, Net!socks, Net!OnlyReceive
  <2> QED
    BY <2>1, <2>2, <2>3, <2>4 DEF Net!RegisterUDP
<1> QED
  BY <1>1, <1>2, <1>3, <1>4 DEF NetKept

\* It is connected, and starts the TCP thread.
LEMMA NetConnected ==
    ASSUME NetGood, NEW i \in InitThread, Net!Connected(i)
    PROVE  NetKept
<1> USE NetThreads DEF NetGood, Net!Goto, Net!Start, Net!Free, Net!Main, Net!Connected
<1>1. Net!Typed'
  BY DEF Net!Typed, Net!places, Net!Held, Net!Shutting, Net!Early, Net!Registering, Net!Working
<1>2. Net!Exclusive'
  BY DEF Net!Typed, Net!places, Net!Held, Net!Exclusive
<1>3. ~Net!Ordered => Net!InCharge'
  BY DEF Net!Typed, Net!places, Net!Held, Net!Shutting, Net!Early, Net!Working, Net!Repairing, Net!InCharge, Net!Ended, Net!Exclusive
<1>4. ~Net!Losing => Net!OnlyReceive'
  BY DEF Net!Typed, Net!places, Net!OnlyReceive
<1> QED
  BY <1>1, <1>2, <1>3, <1>4 DEF NetKept

\* The receiving threads, while they receive, and the network.
LEMMA NetReceives ==
    ASSUME NetGood,
           \/ \E t \in TcpThread : Net!TCPRecvThread(t) \/ Net!TCPRecv(t) \/ Net!Dropped(t) \/ Net!Unhook(t)
           \/ \E u \in UdpThread : Net!UDPRecvThread(u) \/ Net!UDPRecv(u)
           \/ Net!Drop
    PROVE  NetKept
<1> USE NetThreads DEF NetGood, Net!Goto, Net!Call, Net!Main, Net!Listen
<1> USE DEF Net!TCPRecvThread, Net!TCPRecv, Net!Dropped, Net!Unhook, Net!UDPRecvThread, Net!UDPRecv, Net!Drop
<1>1. Net!Typed'
  BY DEF Net!Typed, Net!handles, Net!places, Net!Held, Net!Shutting, Net!Working, Net!Repairing
<1>2. Net!Exclusive'
  BY DEF Net!Typed, Net!handles, Net!places, Net!Held, Net!Exclusive
<1>3. ~Net!Ordered => Net!InCharge'
  BY DEF Net!Typed, Net!handles, Net!places, Net!Held, Net!Shutting, Net!Early, Net!Working, Net!Repairing, Net!InCharge, Net!Ended, Net!Exclusive
<1>4. ~Net!Losing => Net!OnlyReceive'
  BY DEF Net!Typed, Net!handles, Net!places, Net!socks, Net!OnlyReceive, Net!Losing
<1> QED
  BY <1>1, <1>2, <1>3, <1>4 DEF NetKept

\* A thread that shuts the connection down, or finds that another one does.
LEMMA NetShuts ==
    ASSUME NetGood, NEW t \in {"main"} \cup InitThread \cup TcpThread, Net!Shutdown(t)
    PROVE  NetKept
<1> USE NetThreads DEF NetGood, Net!Goto, Net!Main, Net!Joined
<1>1. Net!Typed'
  <2>1. CASE Net!ShutdownSocket(t)
    BY <2>1 DEF Net!ShutdownSocket, Net!Typed, Net!handles, Net!Held, Net!Shutting, Net!Working, Net!Repairing, Net!Early
  <2>2. CASE Net!ShutState(t)
    BY <2>2 DEF Net!ShutState, Net!Typed, Net!handles, Net!Held, Net!Shutting, Net!Working, Net!Repairing, Net!Early
  <2>3. CASE Net!ShutServer(t)
    BY <2>3 DEF Net!ShutServer, Net!Typed, Net!handles, Net!Held, Net!Shutting, Net!Working, Net!Repairing, Net!Early
  <2>4. CASE Net!JoinInit(t)
    BY <2>4 DEF Net!JoinInit, Net!Typed, Net!handles, Net!Held, Net!Shutting, Net!Working, Net!Repairing, Net!Early
  <2>5. CASE Net!JoinTcp(t)
    BY <2>5 DEF Net!JoinTcp, Net!Typed, Net!handles, Net!Held, Net!Shutting, Net!Working, Net!Repairing, Net!Early
  <2>6. CASE Net!JoinUdp(t)
    BY <2>6 DEF Net!JoinUdp, Net!Typed, Net!handles, Net!Held, Net!Shutting, Net!Working, Net!Repairing, Net!Early
  <2>7. CASE Net!CloseSockets(t)
    BY <2>7 DEF Net!CloseSockets, Net!Typed, Net!handles, Net!Held, Net!Shutting, Net!Working, Net!Repairing, Net!Early
  <2> QED
    BY <2>1, <2>2, <2>3, <2>4, <2>5, <2>6, <2>7 DEF Net!Shutdown
<1>2. Net!Exclusive'
  <2>1. CASE Net!ShutdownSocket(t)
    BY <2>1 DEF Net!ShutdownSocket, Net!Typed, Net!handles, Net!Held, Net!Shutting, Net!Exclusive
  <2>2. CASE Net!ShutState(t)
    BY <2>2 DEF Net!ShutState, Net!Typed, Net!handles, Net!Held, Net!Shutting, Net!Exclusive
  <2>3. CASE Net!ShutServer(t)
    BY <2>3 DEF Net!ShutServer, Net!Typed, Net!handles, Net!Held, Net!Shutting, Net!Exclusive
  <2>4. CASE Net!JoinInit(t)
    BY <2>4 DEF Net!JoinInit, Net!Typed, Net!handles, Net!Held, Net!Shutting, Net!Exclusive
  <2>5. CASE Net!JoinTcp(t)
    BY <2>5 DEF Net!JoinTcp, Net!Typed, Net!handles, Net!Held, Net!Shutting, Net!Exclusive
  <2>6. CASE Net!JoinUdp(t)
    BY <2>6 DEF Net!JoinUdp, Net!Typed, Net!handles, Net!Held, Net!Shutting, Net!Exclusive
  <2>7. CASE Net!CloseSockets(t)
    BY <2>7 DEF Net!CloseSockets, Net!Typed, Net!handles, Net!Held, Net!Shutting, Net!Exclusive
  <2> QED
    BY <2>1, <2>2, <2>3, <2>4, <2>5, <2>6, <2>7 DEF Net!Shutdown
<1>3. ~Net!Ordered => Net!InCharge'
  <2>1. CASE Net!ShutdownSocket(t)
    <3> SUFFICES ASSUME ~Net!Ordered
                 PROVE  Net!InCharge'
      OBVIOUS
    <3>1. at[t] = "shut" /\ at[t] \in Net!Repairing /\ t # "main" /\ Net!InCharge
      BY <2>1 DEF Net!ShutdownSocket, Net!InCharge, Net!Repairing, Net!Shutting
    <3>2. t \in InitThread => locker = None
      <4> SUFFICES ASSUME t \in InitThread, locker # None
                   PROVE  FALSE
        OBVIOUS
      <4>1. locker \in Net!Thread /\ at[locker] \in Net!Held
        BY DEF Net!Typed, Net!Exclusive
      <4>2. locker # t /\ at[t] # "dead" /\ hInit = t
        BY <3>1, <4>1 DEF Net!Held, Net!Exclusive
      <4>3. locker \notin InitThread
        BY <4>1, <4>2 DEF Net!Exclusive, Net!Held
      <4>4. locker \notin TcpThread
        BY <3>1, <4>1, <4>2 DEF Net!InCharge, Net!Repairing, Net!Shutting, Net!Ended
      <4>5. locker \notin UdpThread /\ locker # "main"
        BY <3>1, <4>1 DEF Net!Typed, Net!InCharge, Net!Held
      <4> QED
        BY <4>1, <4>3, <4>4, <4>5
    <3>3. PICK b : at' = [at EXCEPT ![t] = b] /\ (b = "shutState" \/ (b = "post" /\ t \in TcpThread))
      BY <2>1, <3>1, <3>2 DEF Net!ShutdownSocket, Net!Typed, Net!Shutting
    <3>4. state' = state /\ hInit' = hInit /\ hTcp' = hTcp
      BY <2>1 DEF Net!ShutdownSocket, Net!handles
    <3> QED
      BY <3>1, <3>3, <3>4 DEF Net!Typed, Net!Held, Net!Shutting, Net!Early, Net!Working, Net!Repairing,
             Net!InCharge, Net!Ended
  <2>2. CASE Net!ShutState(t)
    BY <2>2 DEF Net!ShutState, Net!Typed, Net!handles, Net!Held, Net!Shutting, Net!Early, Net!Working, Net!Repairing,
             Net!InCharge, Net!Ended, Net!Exclusive
  <2>3. CASE Net!ShutServer(t)
    BY <2>3 DEF Net!ShutServer, Net!Typed, Net!handles, Net!Held, Net!Shutting, Net!Early, Net!Working, Net!Repairing,
             Net!InCharge, Net!Ended, Net!Exclusive
  <2>4. CASE Net!JoinInit(t)
    BY <2>4 DEF Net!JoinInit, Net!Typed, Net!handles, Net!Held, Net!Shutting, Net!Early, Net!Working, Net!Repairing,
             Net!InCharge, Net!Ended, Net!Exclusive
  <2>5. CASE Net!JoinTcp(t)
    BY <2>5 DEF Net!JoinTcp, Net!Typed, Net!handles, Net!Held, Net!Shutting, Net!Early, Net!Working, Net!Repairing,
             Net!InCharge, Net!Ended, Net!Exclusive
  <2>6. CASE Net!JoinUdp(t)
    BY <2>6 DEF Net!JoinUdp, Net!Typed, Net!handles, Net!Held, Net!Shutting, Net!Early, Net!Working, Net!Repairing,
             Net!InCharge, Net!Ended, Net!Exclusive
  <2>7. CASE Net!CloseSockets(t)
    BY <2>7 DEF Net!CloseSockets, Net!Typed, Net!handles, Net!Held, Net!Shutting, Net!Early, Net!Working, Net!Repairing,
             Net!InCharge, Net!Ended, Net!Exclusive
  <2> QED
    BY <2>1, <2>2, <2>3, <2>4, <2>5, <2>6, <2>7 DEF Net!Shutdown
<1>4. ~Net!Losing => Net!OnlyReceive'
  <2>1. CASE Net!ShutdownSocket(t)
    BY <2>1 DEF Net!ShutdownSocket, Net!Typed, Net!handles, Net!Held, Net!Shutting, Net!socks, Net!OnlyReceive
  <2>2. CASE Net!ShutState(t)
    BY <2>2 DEF Net!ShutState, Net!Typed, Net!handles, Net!Held, Net!Shutting, Net!socks, Net!OnlyReceive
  <2>3. CASE Net!ShutServer(t)
    BY <2>3 DEF Net!ShutServer, Net!Typed, Net!handles, Net!Held, Net!Shutting, Net!socks, Net!OnlyReceive
  <2>4. CASE Net!JoinInit(t)
    BY <2>4 DEF Net!JoinInit, Net!Typed, Net!handles, Net!Held, Net!Shutting, Net!socks, Net!OnlyReceive
  <2>5. CASE Net!JoinTcp(t)
    BY <2>5 DEF Net!JoinTcp, Net!Typed, Net!handles, Net!Held, Net!Shutting, Net!socks, Net!OnlyReceive
  <2>6. CASE Net!JoinUdp(t)
    BY <2>6 DEF Net!JoinUdp, Net!Typed, Net!handles, Net!Held, Net!Shutting, Net!socks, Net!OnlyReceive
  <2>7. CASE Net!CloseSockets(t)
    BY <2>7 DEF Net!CloseSockets, Net!Typed, Net!handles, Net!Held, Net!Shutting, Net!socks, Net!OnlyReceive
  <2> QED
    BY <2>1, <2>2, <2>3, <2>4, <2>5, <2>6, <2>7 DEF Net!Shutdown
<1> QED
  BY <1>1, <1>2, <1>3, <1>4 DEF NetKept

\* The connection begins anew, on the main thread or on the TCP thread that lost it.
LEMMA NetPosts ==
    ASSUME NetGood, NEW t \in {"main"} \cup TcpThread, Net!Post(t)
    PROVE  NetKept
<1> USE NetThreads DEF NetGood, Net!Goto, Net!Start, Net!Free, Net!Main, Net!Joined
<1>1. Net!Typed'
  <2>1. CASE Net!PostInitSocket(t)
    BY <2>1 DEF Net!PostInitSocket, Net!Typed, Net!handles, Net!Held, Net!Shutting, Net!Working, Net!Repairing, Net!Early
  <2>2. CASE Net!PostJoin(t)
    BY <2>2 DEF Net!PostJoin, Net!Typed, Net!handles, Net!Held, Net!Shutting, Net!Working, Net!Repairing, Net!Early
  <2>3. CASE Net!PostStart(t)
    BY <2>3 DEF Net!PostStart, Net!Typed, Net!handles, Net!Held, Net!Shutting, Net!Working, Net!Repairing, Net!Early
  <2>4. CASE Net!PostNew(t)
    BY <2>4 DEF Net!PostNew, Net!Typed, Net!handles, Net!Held, Net!Shutting, Net!Working, Net!Repairing, Net!Early
  <2> QED
    BY <2>1, <2>2, <2>3, <2>4 DEF Net!Post
<1>2. Net!Exclusive'
  <2>1. CASE Net!PostInitSocket(t)
    BY <2>1 DEF Net!PostInitSocket, Net!Typed, Net!handles, Net!Held, Net!Exclusive, Net!OnlyReceive, Net!InCharge, Net!Repairing, Net!Ended
  <2>2. CASE Net!PostJoin(t)
    BY <2>2 DEF Net!PostJoin, Net!Typed, Net!handles, Net!Held, Net!Exclusive, Net!OnlyReceive, Net!InCharge, Net!Repairing, Net!Ended
  <2>3. CASE Net!PostStart(t)
    BY <2>3 DEF Net!PostStart, Net!Typed, Net!handles, Net!Held, Net!Exclusive, Net!OnlyReceive, Net!InCharge, Net!Repairing, Net!Ended
  <2>4. CASE Net!PostNew(t)
    <3>1. PICK i \in InitThread :
            /\ at[i] = "dead" /\ hInit' = i /\ at[t] = "postNew" /\ locker' = locker
            /\ at' = [at EXCEPT ![t] = IF t = "main" THEN "idle" ELSE "dead", ![i] = "init"]
      <4>1. PICK i \in Net!Free(InitThread) :
              hInit' = i /\ Net!Start(t, IF t = Net!Main THEN "idle" ELSE "dead", i, "init")
        BY <2>4 DEF Net!PostNew
      <4>2. at[t] = "postNew" /\ locker' = locker
        BY <2>4 DEF Net!PostNew
      <4> QED
        BY <4>1, <4>2
    <3>2. hInit = None /\ \A j \in InitThread : at[j] = "dead"
      BY <3>1 DEF Net!Exclusive
    <3>3. \A v \in Net!Thread \ {t} : at[v] \notin {"postStart", "postNew"}
      BY <3>2, <3>1 DEF Net!Typed, Net!OnlyReceive, Net!InCharge, Net!Repairing, Net!Ended, Apart
    <3>4. \A v \in Net!Thread : at'[v] = IF v = i THEN "init" ELSE IF v = t THEN (IF t = "main" THEN "idle" ELSE "dead")
                                           ELSE at[v]
      BY <3>1 DEF Net!Typed
    <3>5. i \in Net!Thread /\ t \in Net!Thread /\ i # t
      OBVIOUS
    <3>6. \A v \in Net!Thread : at'[v] \in Net!Held <=> locker' = v
      <4>1. locker # t /\ locker # i
        BY <3>1, <3>5 DEF Net!Exclusive, Net!Held
      <4>2. \A v \in Net!Thread : at[v] \in Net!Held <=> locker = v
        BY DEF Net!Exclusive
      <4>3. {"init", "idle", "dead"} \cap Net!Held = {}
        BY DEF Net!Held
      <4>4. ASSUME NEW v \in Net!Thread
            PROVE  at'[v] \in Net!Held <=> locker' = v
        BY <3>1, <3>4, <4>1, <4>3, <3>5, <4>2
      <4> QED
        BY <4>4
    <3>7. \A j \in InitThread : at'[j] # "dead" => hInit' = j
      BY <3>1, <3>2, <3>4, <3>5
    <3>8. \A v \in Net!Thread : at'[v] \in {"postStart", "postNew"} => hInit' = None
      BY <3>3, <3>4, <3>5
    <3> QED
      BY <3>6, <3>7, <3>8 DEF Net!Exclusive, Net!Held
  <2> QED
    BY <2>1, <2>2, <2>3, <2>4 DEF Net!Post
<1>3. ~Net!Ordered => Net!InCharge'
  <2>1. CASE Net!PostInitSocket(t)
    BY <2>1 DEF Net!PostInitSocket, Net!Typed, Net!handles, Net!Held, Net!Shutting, Net!Early, Net!Working, Net!Repairing,
             Net!InCharge, Net!Ended, Net!Exclusive
  <2>2. CASE Net!PostJoin(t)
    BY <2>2 DEF Net!PostJoin, Net!Typed, Net!handles, Net!Held, Net!Shutting, Net!Early, Net!Working, Net!Repairing,
             Net!InCharge, Net!Ended, Net!Exclusive
  <2>3. CASE Net!PostStart(t)
    BY <2>3 DEF Net!PostStart, Net!Typed, Net!handles, Net!Held, Net!Shutting, Net!Early, Net!Working, Net!Repairing,
             Net!InCharge, Net!Ended, Net!Exclusive
  <2>4. CASE Net!PostNew(t)
    BY <2>4 DEF Net!PostNew, Net!Typed, Net!handles, Net!Held, Net!Shutting, Net!Early, Net!Working, Net!Repairing,
             Net!InCharge, Net!Ended, Net!Exclusive
  <2> QED
    BY <2>1, <2>2, <2>3, <2>4 DEF Net!Post
<1>4. ~Net!Losing => Net!OnlyReceive'
  BY DEF Net!PostInitSocket, Net!Typed, Net!handles, Net!socks, Net!OnlyReceive, Net!PostJoin, Net!PostStart,
    Net!PostNew, Net!Post
<1> QED
  BY <1>1, <1>2, <1>3, <1>4 DEF NetKept

\* What the main thread is told, and how it goes on.
LEMMA NetOrdered ==
    ASSUME NetGood,
           \/ Net!ReconnectUDP \/ Net!UDPReconnected \/ Net!ReconnectTCP \/ Net!Restart
           \/ Net!StopToInit \/ Net!StopJoin \/ Net!Quit \/ Net!Stopped
    PROVE  NetKept
<1> USE NetThreads DEF NetGood, Net!Goto, Net!Call, Net!Main, Net!Joined
<1> USE DEF Net!ReconnectUDP, Net!UDPReconnected, Net!ReconnectTCP, Net!Restart, Net!StopToInit, Net!StopJoin,
            Net!Quit, Net!Stopped
<1>1. Net!Typed'
  BY DEF Net!Typed, Net!handles, Net!Held, Net!Shutting
<1>2. Net!Exclusive'
  BY DEF Net!Typed, Net!handles, Net!Held, Net!Exclusive
<1>3. ~Net!Ordered => Net!InCharge'
  BY DEF Net!Typed, Net!handles, Net!Ordered, Net!OrderEvents, Net!InCharge
<1>4. ~Net!Losing => Net!OnlyReceive'
  BY DEF Net!Typed, Net!handles, Net!socks, Net!OnlyReceive
<1> QED
  BY <1>1, <1>2, <1>3, <1>4 DEF NetKept

\* The client starts with no thread but the main one.
LEMMA NetInit == Net!Init => Net!JoinInv
<1> SUFFICES ASSUME Net!Init
             PROVE  Net!JoinInv
  OBVIOUS
<1> USE NetThreads DEF Net!Init, Net!Main
<1>1. \A t \in Net!Thread : at[t] = IF t = "main" THEN "post" ELSE "dead"
  OBVIOUS
<1>2. Net!Typed
  BY <1>1 DEF Net!Typed, Net!Shutting, Net!Held
<1>3. Net!Exclusive
  BY <1>1 DEF Net!Exclusive, Net!Held
<1>4. Net!InCharge
  BY <1>1 DEF Net!InCharge, Net!Ended, Net!Working, Net!Repairing, Net!Early, Net!Shutting, Net!Held
<1>5. Net!OnlyReceive
  BY <1>1 DEF Net!OnlyReceive
<1> QED
  BY <1>2, <1>3, <1>4, <1>5 DEF Net!JoinInv

\* Every step of a thread keeps the others' work apart.
LEMMA NetSteps ==
    ASSUME NetGood, Net!Next
    PROVE  NetKept
<1>1. CASE Net!MainStep
  BY <1>1, NetPosts, NetShuts, NetRegisters, NetOrdered DEF Net!MainStep, Net!Main
<1>2. CASE Net!ReconnectUDP \/ Net!ReconnectTCP \/ Net!StopToInit \/ Net!Quit
  BY <1>2, NetOrdered
<1>3. ASSUME NEW i \in InitThread, Net!InitStep(i)
      PROVE  NetKept
  BY <1>3, NetConnects, NetConnected, NetRegisters, NetShuts DEF Net!InitStep
<1>4. ASSUME NEW t \in TcpThread, Net!TcpStep(t)
      PROVE  NetKept
  BY <1>4, NetReceives, NetShuts, NetPosts DEF Net!TcpStep
<1>5. ASSUME NEW u \in UdpThread, Net!UdpStep(u)
      PROVE  NetKept
  BY <1>5, NetReceives DEF Net!UdpStep
<1>6. CASE Net!Drop
  BY <1>6, NetReceives
<1> QED
  BY <1>1, <1>2, <1>3, <1>4, <1>5, <1>6 DEF Net!Next

\* No step changes what a behaviour may have.
LEMMA NetMay == Net!Next => may' = may
<1> SUFFICES ASSUME Net!Next
             PROVE  may' = may
  OBVIOUS
<1>1. ASSUME NEW t, Net!Post(t) \/ Net!Shutdown(t) \/ Net!RegisterUDP(t)
      PROVE  may' = may
  BY <1>1 DEF Net!Post, Net!Shutdown, Net!RegisterUDP, Net!PostInitSocket, Net!PostJoin, Net!PostStart, Net!PostNew,
      Net!ShutdownSocket, Net!ShutState, Net!ShutServer, Net!JoinInit, Net!JoinTcp, Net!JoinUdp, Net!CloseSockets,
      Net!InitUDP, Net!OpenUDP, Net!ConnectUDP, Net!Registered
<1>2. CASE Net!MainStep
  BY <1>1, <1>2 DEF Net!MainStep, Net!UDPReconnected, Net!Restart, Net!StopJoin, Net!Stopped
<1>3. CASE Net!ReconnectUDP \/ Net!ReconnectTCP \/ Net!StopToInit \/ Net!Quit
  BY <1>3 DEF Net!ReconnectUDP, Net!ReconnectTCP, Net!StopToInit, Net!Quit
<1>4. ASSUME NEW i \in InitThread, Net!InitStep(i)
      PROVE  may' = may
  BY <1>1, <1>4 DEF Net!InitStep, Net!InitSocket, Net!InitLoop, Net!InitEnter, Net!Connect, Net!Connected,
      Net!InitFailed, Net!Retry, Net!InitReady, Net!InitSucceeds
<1>5. ASSUME NEW t \in TcpThread, Net!TcpStep(t)
      PROVE  may' = may
  BY <1>1, <1>5 DEF Net!TcpStep, Net!TCPRecvThread, Net!TCPRecv, Net!Dropped, Net!Unhook
<1>6. ASSUME NEW u \in UdpThread, Net!UdpStep(u)
      PROVE  may' = may
  BY <1>6 DEF Net!UdpStep, Net!UDPRecvThread, Net!UDPRecv
<1>7. CASE Net!Drop
  BY <1>7 DEF Net!Drop
<1> QED
  BY <1>2, <1>3, <1>4, <1>5, <1>6, <1>7 DEF Net!Next

\* The invariant holds in every state of the client.
LEMMA NetStep == NetInv /\ [Next]_vars => NetInv'
<1> SUFFICES ASSUME NetInv, [Next]_vars, part' = "net"
             PROVE  Net!JoinInv'
  BY DEF NetInv
<1>1. CASE UNCHANGED vars
  <2>1. Net!JoinInv
    BY <1>1 DEF vars, NetInv
  <2>2. /\ may' = may /\ state' = state /\ locker' = locker /\ hInit' = hInit /\ hTcp' = hTcp /\ hUdp' = hUdp
        /\ tcp' = tcp /\ at' = at /\ ret' = ret
    BY <1>1 DEF vars, netOnly
  <2> QED
    BY <2>1, <2>2 DEF Net!JoinInv, Net!Typed, Net!Exclusive, Net!InCharge, Net!OnlyReceive, Net!Ordered, Net!Losing,
        Net!Ended
<1>2. CASE Next
  BY <1>2, NetMay, NetSteps DEF Next, NetInv, Net!Ordered, Net!Losing, NetGood, Net!JoinInv, Apart, NetKept
<1> QED
  BY <1>1, <1>2

\* Then nobody waits for a thread that another one waits for.
LEMMA NetJoinsOnce == Net!JoinInv => Net!JoinedOnce
<1> SUFFICES ASSUME Net!JoinInv, ~(Net!Ordered /\ Net!Losing)
             PROVE  \A t \in Net!Thread : /\ t \notin Net!Awaits(t)
                                         /\ \A v \in Net!Thread \ {t} : Net!Awaits(t) \cap Net!Awaits(v) = {}
  BY DEF Net!JoinedOnce, Net!Ordered, Net!Losing
<1> USE NetThreads DEF Net!Main
<1>1. Net!Typed /\ Net!Exclusive /\ (~Net!Ordered => Net!InCharge) /\ (~Net!Losing => Net!OnlyReceive)
  BY DEF Net!JoinInv
<1> DEFINE ForInit(t) == at[t] \in {"postJoin", "joinInit", "stopJoin"} /\ hInit # t /\ hInit # None
<1>2. \A t \in Net!Thread : Net!Awaits(t) \subseteq
        {h \in {hInit} : ForInit(t)} \cup {h \in {hTcp} : at[t] = "joinTcp"} \cup {h \in {hUdp} : at[t] = "joinUdp"}
  BY DEF Net!Awaits
<1>3. \A t \in Net!Thread : t \notin Net!Awaits(t)
  <2> SUFFICES ASSUME NEW t \in Net!Thread, t \in Net!Awaits(t)
               PROVE  FALSE
    OBVIOUS
  <2>1. (at[t] = "joinTcp" /\ hTcp = t) \/ (at[t] = "joinUdp" /\ hUdp = t)
    BY <1>2
  <2>2. t \in TcpThread /\ at[t] = "joinTcp" /\ hTcp = t
    BY <1>1, <2>1 DEF Net!Typed
  <2>3. CASE ~Net!Ordered
    BY <1>1, <2>2, <2>3 DEF Net!InCharge, Net!Repairing, Net!Shutting, Net!Held
  <2>4. CASE ~Net!Losing
    BY <1>1, <2>2, <2>4 DEF Net!OnlyReceive
  <2> QED
    BY <2>3, <2>4
<1>4. \A t \in Net!Thread : \A v \in Net!Thread \ {t} : ForInit(t) => ~ForInit(v)
  <2> SUFFICES ASSUME NEW t \in Net!Thread, NEW v \in Net!Thread \ {t}, ForInit(t), ForInit(v)
               PROVE  FALSE
    OBVIOUS
  <2>1. t \notin InitThread /\ v \notin InitThread
    BY <1>1 DEF Net!Exclusive
  <2>2. t \notin UdpThread /\ v \notin UdpThread
    BY <1>1 DEF Net!Typed
  <2>3. CASE ~Net!Ordered
    BY <1>1, <2>1, <2>2, <2>3 DEF Net!InCharge, Net!Ended, Net!Repairing, Net!Shutting, Net!Held, Net!Typed
  <2>4. CASE ~Net!Losing
    BY <1>1, <2>1, <2>2, <2>4 DEF Net!OnlyReceive
  <2> QED
    BY <2>3, <2>4
<1>5. \A t \in Net!Thread : \A v \in Net!Thread \ {t} :
        at[t] \in {"joinTcp", "joinUdp"} => at[v] \notin {"joinTcp", "joinUdp"}
  BY <1>1 DEF Net!Exclusive, Net!Held
<1>6. /\ hInit \in InitThread \cup {None} /\ hTcp \in TcpThread \cup {None} /\ hUdp \in UdpThread \cup {None}
      /\ \A t \in Net!Thread : None \notin Net!Awaits(t)
  BY <1>1 DEF Net!Typed, Net!Awaits
<1> HIDE DEF ForInit
<1>7. \A t \in Net!Thread : \A v \in Net!Thread \ {t} : Net!Awaits(t) \cap Net!Awaits(v) = {}
  <2> SUFFICES ASSUME NEW t \in Net!Thread, NEW v \in Net!Thread \ {t}, NEW h \in Net!Awaits(t) \cap Net!Awaits(v)
               PROVE  FALSE
    OBVIOUS
  <2>1. CASE h \in InitThread
    BY <1>2, <1>6, <2>1, <1>4
  <2>2. CASE h \notin InitThread
    BY <1>2, <1>6, <2>2, <1>5
  <2> QED
    BY <2>1, <2>2
<1> QED
  BY <1>3, <1>7

\* UNetworkSystem: whatever the connecting thread, the receiving ones and the main one do, no thread joins
\* itself, and no two join the same one, as long as the main thread is not told to shut down or to reconnect
\* where connections are lost.
THEOREM JoinedOnceHolds == Spec => []JoinedOnce
<1>1. Init => NetInv
  BY NetInit DEF Init, NetInv
<1>2. NetInv /\ [Next]_vars => NetInv'
  BY NetStep
<1>3. NetInv => JoinedOnce
  BY NetJoinsOnce DEF NetInv, JoinedOnce
<1>4. Spec => Init /\ [][Next]_vars
  BY PTL DEF Spec
<1> QED
  BY <1>1, <1>2, <1>3, <1>4, PTL


(***************************************************************************)
(* The registration of UDP addresses (UDPRegistration).                    *)
(***************************************************************************)
UdpInv == part = "udp" => Udp!RegistrationInv

LEMMA LeastNumber ==
    ASSUME NEW T, T \subseteq Nat, T # {}
    PROVE  \E x \in T : \A y \in T : x <= y
<1> DEFINE R == OpToRel(<, Nat)
<1>1. IsWellFoundedOn(R, Nat)
  BY NatLessThanWellFounded
<1>2. \A x, y \in Nat : y < x => <<y, x>> \in R
  BY DEF OpToRel
<1> HIDE DEF R
<1>3. PICK x \in T : \A y \in T : ~ (<<y, x>> \in R)
  BY <1>1, WFMin
<1>4. \A y \in T : ~ (y < x)
  BY <1>2, <1>3
<1> QED BY <1>3, <1>4

\* The loops over the vector find its first player with a number, name or address.
LEMMA UdpFound ==
    ASSUME players \in Seq(Player), NEW S, S \subseteq DOMAIN players
    PROVE  S # {} => (CHOOSE i \in S : \A j \in S : i <= j) \in S
<1> SUFFICES ASSUME S # {}
             PROVE  \E i \in S : \A j \in S : i <= j
  OBVIOUS
<1>1. DOMAIN players = 1 .. Len(players) /\ Len(players) \in Nat
  BY LenProperties
<1> QED BY <1>1, LeastNumber

LEMMA UdpLookups ==
    ASSUME players \in Seq(Player), Udp!RegistrationAssumption
    PROVE  /\ Udp!Listed \subseteq Player /\ NoOne \notin Udp!Listed
           /\ \A k : LET p == Udp!GetPlayerBySocket(k) IN
                \/ p = NoOne /\ \A q \in Udp!Listed : info[q].connection # k
                \/ p \in Udp!Listed /\ info[p].connection = k
           /\ \A c : LET p == Udp!GetPlayerById(c) IN
                \/ p = NoOne /\ \A q \in Udp!Listed : info[q].id # c
                \/ p \in Udp!Listed /\ info[p].id = c
           /\ \A c : LET p == Udp!GetNoUDPPlayerById(c) IN
                \/ p = NoOne
                \/ p \in Udp!Listed /\ info[p].id = c
           /\ \A a : LET p == Udp!GetPlayerByUDPAddr(a) IN
                \/ p = NoOne /\ \A q \in Udp!Listed : ~(info[q].have /\ info[q].addr = a)
                \/ p \in Udp!Listed /\ info[p].have /\ info[p].addr = a
<1>1. Udp!Listed \subseteq Player /\ NoOne \notin Udp!Listed
  BY DEF Udp!Listed, Udp!RegistrationAssumption
<1>2. ASSUME NEW k
      PROVE  LET p == Udp!GetPlayerBySocket(k) IN
                \/ p = NoOne /\ \A q \in Udp!Listed : info[q].connection # k
                \/ p \in Udp!Listed /\ info[p].connection = k
  <2> DEFINE S == {i \in DOMAIN players : info[players[i]].connection = k}
  <2>1. S # {} => (CHOOSE i \in S : \A j \in S : i <= j) \in S
    BY UdpFound
  <2>2. Udp!GetPlayerBySocket(k) = IF S = {} THEN NoOne ELSE players[CHOOSE i \in S : \A j \in S : i <= j]
    BY DEF Udp!GetPlayerBySocket, Udp!First
  <2> QED BY <2>1, <2>2 DEF Udp!Listed
<1>3. ASSUME NEW c
      PROVE  LET p == Udp!GetPlayerById(c) IN
                \/ p = NoOne /\ \A q \in Udp!Listed : info[q].id # c
                \/ p \in Udp!Listed /\ info[p].id = c
  <2> DEFINE S == {i \in DOMAIN players : info[players[i]].id = c}
  <2>1. S # {} => (CHOOSE i \in S : \A j \in S : i <= j) \in S
    BY UdpFound
  <2>2. Udp!GetPlayerById(c) = IF S = {} THEN NoOne ELSE players[CHOOSE i \in S : \A j \in S : i <= j]
    BY DEF Udp!GetPlayerById, Udp!First
  <2> QED BY <2>1, <2>2 DEF Udp!Listed
<1>4. ASSUME NEW c
      PROVE  LET p == Udp!GetNoUDPPlayerById(c) IN
                \/ p = NoOne
                \/ p \in Udp!Listed /\ info[p].id = c
  <2> DEFINE S == {i \in DOMAIN players : info[players[i]].id = c /\ ~info[players[i]].have}
  <2>1. S # {} => (CHOOSE i \in S : \A j \in S : i <= j) \in S
    BY UdpFound
  <2>2. Udp!GetNoUDPPlayerById(c) = IF S = {} THEN NoOne ELSE players[CHOOSE i \in S : \A j \in S : i <= j]
    BY DEF Udp!GetNoUDPPlayerById, Udp!First
  <2> QED BY <2>1, <2>2 DEF Udp!Listed
<1>5. ASSUME NEW a
      PROVE  LET p == Udp!GetPlayerByUDPAddr(a) IN
                \/ p = NoOne /\ \A q \in Udp!Listed : ~(info[q].have /\ info[q].addr = a)
                \/ p \in Udp!Listed /\ info[p].have /\ info[p].addr = a
  <2> DEFINE S == {i \in DOMAIN players : info[players[i]].have /\ info[players[i]].addr = a}
  <2>1. S # {} => (CHOOSE i \in S : \A j \in S : i <= j) \in S
    BY UdpFound
  <2>2. Udp!GetPlayerByUDPAddr(a) = IF S = {} THEN NoOne ELSE players[CHOOSE i \in S : \A j \in S : i <= j]
    BY DEF Udp!GetPlayerByUDPAddr, Udp!First
  <2> QED BY <2>1, <2>2 DEF Udp!Listed
<1> QED
  BY <1>1, <1>2, <1>3, <1>4, <1>5

Once == \A i, j \in DOMAIN players : players[i] = players[j] => i = j

\* A player more, and a player less.
LEMMA UdpAppends ==
    ASSUME players \in Seq(Player), Once, NEW p \in Player \ Udp!Listed, players' = Append(players, p)
    PROVE  players' \in Seq(Player) /\ Once' /\ Udp!Listed' = Udp!Listed \cup {p}
  BY AppendProperties, LenProperties DEF Udp!Listed, Once

LEMMA UdpRemoves ==
    ASSUME players \in Seq(Player), Once, NEW p \in Udp!Listed, players' = Udp!Without(p)
    PROVE  players' \in Seq(Player) /\ Once' /\ Udp!Listed' = Udp!Listed \ {p}
<1> DEFINE n == Len(players)
           k == CHOOSE i \in DOMAIN players : players[i] = p
           e == [i \in 1 .. n - 1 |-> players[IF i < k THEN i ELSE i + 1]]
<1>1. n \in Nat /\ DOMAIN players = 1 .. n /\ \A i \in 1 .. n : players[i] \in Player
  BY LenProperties, ElementOfSeq
<1>2. k \in 1 .. n /\ players[k] = p
  BY <1>1 DEF Udp!Listed
<1>3. players' = e
  BY DEF Udp!Without
<1> HIDE DEF k
<1>4. e \in Seq(Player) /\ DOMAIN e = 1 .. n - 1
  BY <1>1, <1>2, IsASeq
<1>5. \A i \in 1 .. n - 1 : e[i] = IF i < k THEN players[i] ELSE players[i + 1]
  OBVIOUS
<1> HIDE DEF e
<1>6. Once'
  <2> SUFFICES ASSUME NEW i \in 1 .. n - 1, NEW j \in 1 .. n - 1, e[i] = e[j]
               PROVE  i = j
    BY <1>3, <1>4 DEF Once
  <2>1. \A a, b \in 1 .. n : players[a] = players[b] => a = b
    BY <1>1 DEF Once
  <2>2. (IF i < k THEN i ELSE i + 1) \in 1 .. n /\ (IF j < k THEN j ELSE j + 1) \in 1 .. n
    BY <1>1, <1>2
  <2>3. players[IF i < k THEN i ELSE i + 1] = players[IF j < k THEN j ELSE j + 1]
    BY <1>5
  <2>4. (IF i < k THEN i ELSE i + 1) = (IF j < k THEN j ELSE j + 1)
    BY <2>1, <2>2, <2>3
  <2> QED BY <1>1, <1>2, <2>4
<1>7. Udp!Listed' \subseteq Udp!Listed \ {p}
  <2> SUFFICES ASSUME NEW i \in 1 .. n - 1
               PROVE  e[i] \in Udp!Listed /\ e[i] # p
    BY <1>3, <1>4 DEF Udp!Listed
  <2>1. PICK j \in 1 .. n : e[i] = players[j] /\ j # k
    BY <1>1, <1>2, <1>5
  <2> QED BY <1>1, <1>2, <2>1 DEF Once, Udp!Listed
<1>8. ASSUME NEW q \in Udp!Listed \ {p}
      PROVE  q \in Udp!Listed'
  <2>1. PICK i \in 1 .. n : players[i] = q
    BY <1>1 DEF Udp!Listed
  <2>2. CASE i < k
    <3>1. i \in 1 .. n - 1 /\ e[i] = q
      BY <1>1, <1>2, <1>5, <2>1, <2>2
    <3> QED BY <1>3, <1>4, <3>1 DEF Udp!Listed
  <2>3. CASE i > k
    <3>1. i - 1 \in 1 .. n - 1 /\ e[i - 1] = q
      BY <1>1, <1>2, <1>5, <2>1, <2>3
    <3> QED BY <1>3, <1>4, <3>1 DEF Udp!Listed
  <2> QED BY <1>1, <1>2, <2>1, <2>2, <2>3
<1> QED BY <1>3, <1>4, <1>6, <1>7, <1>8

UdpGood ==
    /\ Udp!Typed /\ Udp!OwnPorts /\ Udp!OnePlayerEach /\ Udp!Named /\ Udp!OwnAddress /\ Udp!InForce
UdpKept ==
    /\ Udp!Typed' /\ Udp!OwnPorts' /\ Udp!OnePlayerEach' /\ Udp!Named' /\ Udp!OwnAddress' /\ Udp!InForce'

LEMMA UdpNames == Udp!RegistrationAssumption /\ NoOne \notin Client \cup Player
BY ClientAssumption DEF ClientAssumption, Udp!RegistrationAssumption

\* A new connection gets a pooled player: it keeps its address, which nobody uses.
LEMMA UdpConnects ==
    ASSUME UdpGood, NEW c \in Client, Udp!Connect(c)
    PROVE  UdpKept
<1> USE DEF UdpGood
<1> DEFINE n == connections + 1
<1>1. n \in Nat /\ n > connections /\ connections' = n /\ open' = open \cup {n} /\ regs' = regs /\ answers' = answers
      /\ sockets' = sockets
  BY DEF Udp!Connect, Udp!Typed
<1>2. PICK p \in Player \ Udp!Listed :
        /\ players' = Append(players, p)
        /\ info' = [info EXCEPT ![p] = [id |-> NoOne, connection |-> n, have |-> FALSE, addr |-> info[p].addr]]
  BY DEF Udp!Connect, Udp!Listed
<1>3. players' \in Seq(Player) /\ Once' /\ Udp!Listed' = Udp!Listed \cup {p}
  BY <1>2, UdpAppends DEF Udp!Typed, Udp!OnePlayerEach, Once
<1>4. /\ info' \in [Player -> Udp!Info] /\ \A q \in Player \ {p} : info'[q] = info[q]
      /\ info'[p].id = NoOne /\ info'[p].connection = n /\ ~info'[p].have /\ info'[p].addr = info[p].addr
  BY <1>1, <1>2 DEF Udp!Typed, Udp!Info
<1>5. /\ connection' \in [Client -> Nat] /\ socket' \in [Client -> Nat]
      /\ named' \in [Client -> BOOLEAN] /\ registered' \in [Client -> BOOLEAN]
      /\ connection'[c] = n /\ socket'[c] = 0 /\ ~named'[c] /\ ~registered'[c]
      /\ \A d \in Client \ {c} : /\ connection'[d] = connection[d] /\ socket'[d] = socket[d]
                                 /\ named'[d] = named[d] /\ registered'[d] = registered[d]
  BY <1>1 DEF Udp!Connect, Udp!Typed
<1>6. Udp!Listed \subseteq Player /\ p \notin Udp!Listed
  BY UdpLookups, UdpNames DEF Udp!Typed
<1> HIDE DEF n
<1>7. Udp!Typed'
  BY <1>1, <1>3, <1>4, <1>5 DEF Udp!Typed
<1>8. Udp!OwnPorts'
  <2>1. \A d \in Client : connection'[d] <= connections' /\ socket'[d] <= sockets'
    <3> SUFFICES ASSUME NEW d \in Client
                 PROVE  connection'[d] <= connections' /\ socket'[d] <= sockets'
      OBVIOUS
    <3>1. connection[d] \in Nat /\ connection[d] <= connections /\ connections \in Nat
          /\ socket[d] \in Nat /\ socket[d] <= sockets /\ sockets \in Nat
      BY DEF Udp!Typed, Udp!OwnPorts
    <3> QED BY <1>1, <1>5, <3>1
  <2>2. \A d, e \in Client : connection'[d] = connection'[e] => d = e \/ connection'[d] = 0
    BY SMTT(60), <1>1, <1>5 DEF Udp!Typed, Udp!OwnPorts
  <2>3. \A d, e \in Client : socket'[d] = socket'[e] => d = e \/ socket'[d] = 0
    BY SMTT(60), <1>1, <1>5 DEF Udp!Typed, Udp!OwnPorts
  <2>4. \A q \in Player : info'[q].connection <= connections' /\ info'[q].addr <= sockets'
    <3> SUFFICES ASSUME NEW q \in Player
                 PROVE  info'[q].connection <= connections' /\ info'[q].addr <= sockets'
      OBVIOUS
    <3>1. info[q].connection \in Nat /\ info[q].connection <= connections /\ info[q].addr <= sockets
      BY DEF Udp!Typed, Udp!OwnPorts, Udp!Info
    <3>2. info'[q].addr = info[q].addr /\ (info'[q].connection = info[q].connection \/ info'[q].connection = n)
      BY <1>4
    <3> QED BY <1>1, <3>1, <3>2 DEF Udp!Typed
  <2> QED BY <1>1, <2>1, <2>2, <2>3, <2>4 DEF Udp!OwnPorts
<1>9. Udp!OnePlayerEach'
  <2>1. \A q \in Udp!Listed : info'[q] = info[q] /\ info[q].connection < n
    BY <1>1, <1>4, <1>6 DEF Udp!OwnPorts, n, Udp!Typed, Udp!Info
  <2>2. \A q, r \in Udp!Listed' : info'[q].connection = info'[r].connection => q = r \/ info'[q].connection = 0
    <3>1. \A q \in Udp!Listed : info'[q].connection # n
      BY <1>1, <2>1, <1>6 DEF Udp!Typed, Udp!Info
    <3> QED BY <1>3, <1>4, <2>1, <3>1 DEF Udp!OnePlayerEach
  <2>3. \A q, r \in Udp!Listed' : info'[q].id = info'[r].id => q = r \/ info'[q].id = NoOne
    BY <1>3, <1>4, <2>1 DEF Udp!OnePlayerEach
  <2>4. \A k \in open' : \E q \in Udp!Listed' : info'[q].connection = k
    BY <1>1, <1>3, <1>4, <2>1 DEF Udp!OnePlayerEach
  <2> QED BY <1>3, <2>2, <2>3, <2>4 DEF Udp!OnePlayerEach, Once
<1>10. \A d \in Client \ {c} : (Udp!Online(d)' <=> Udp!Online(d)) /\ \A q \in Udp!Listed : Udp!Plays(q, d) => Udp!Plays(q, d)'
  BY <1>1, <1>3, <1>4, <1>5, <1>6 DEF Udp!Online, Udp!Plays, Udp!OwnPorts, Udp!Typed, n
<1>11. Udp!Named'
  BY <1>3, <1>5, <1>10 DEF Udp!Named
<1>12. Udp!OwnAddress'
  <2> SUFFICES ASSUME NEW q \in Player, NEW d \in Client,
                      Udp!Online(d)', socket'[d] # 0, info'[q].addr = socket'[d]
               PROVE  named'[d] /\ Udp!Plays(q, d)'
    BY DEF Udp!OwnAddress
  <2>1. d # c /\ info[q].addr = socket[d]
    BY <1>4, <1>5
  <2>2. named[d] /\ Udp!Plays(q, d)
    BY <1>5, <1>10, <2>1 DEF Udp!OwnAddress
  <2> QED BY <1>5, <1>10, <2>1, <2>2 DEF Udp!Plays
<1>13. \A d \in Client \ {c} : Udp!Known(d) => Udp!Known(d)'
  BY <1>3, <1>4, <1>5, <1>6, <1>10 DEF Udp!Known
<1>14. Udp!InForce'
  <2>1. \A r \in regs \cup answers : r.id \in Client /\ r.addr \in Nat \ {0}
    BY DEF Udp!Typed, Udp!Datagram
  <2>2. \A r \in regs' : socket'[r.id] # 0 => r.addr = socket'[r.id]
    BY <1>1, <1>5, <2>1 DEF Udp!InForce
  <2>3. \A r \in regs', d \in Client : r.addr = socket'[d] => r.id = d
    BY <1>1, <1>5, <2>1 DEF Udp!InForce
  <2>4. \A r \in answers' : r.addr = socket'[r.id] => named'[r.id] /\ (Udp!Online(r.id)' => Udp!Known(r.id)')
    <3> SUFFICES ASSUME NEW r \in answers, r.addr = socket'[r.id]
                 PROVE  named'[r.id] /\ (Udp!Online(r.id)' => Udp!Known(r.id)')
      BY <1>1
    <3>1. r.id \in Client \ {c}
      BY <1>5, <2>1
    <3> QED BY <1>5, <1>10, <1>13, <3>1 DEF Udp!InForce
  <2>5. \A d \in Client : registered'[d] => named'[d] /\ socket'[d] # 0 /\ (Udp!Online(d)' => Udp!Known(d)')
    BY <1>5, <1>10, <1>13 DEF Udp!InForce
  <2> QED BY <2>2, <2>3, <2>4, <2>5 DEF Udp!InForce
<1> QED
  BY <1>7, <1>8, <1>9, <1>11, <1>12, <1>14 DEF UdpKept

\* The client names itself: its new player is its player, or the one it had before takes the connection over.
LEMMA UdpAnswers ==
    ASSUME UdpGood, NEW c \in Client, Udp!AnswerId(c)
    PROVE  UdpKept
<1> USE DEF UdpGood
<1>0. PICK me, old : me = Udp!GetPlayerBySocket(connection[c]) /\ old = Udp!GetPlayerById(c)
  OBVIOUS
<1>1. /\ connection[c] \in open /\ ~named[c] /\ named' = [named EXCEPT ![c] = TRUE]
      /\ connection' = connection /\ socket' = socket /\ registered' = registered /\ regs' = regs /\ answers' = answers
      /\ connections' = connections /\ sockets' = sockets
  BY DEF Udp!AnswerId
<1>2. connection[c] \in Nat \ {0} /\ connection[c] <= connections
  BY <1>1 DEF Udp!Typed, Udp!OwnPorts
<1>3. me \in Udp!Listed /\ info[me].connection = connection[c] /\ Udp!Listed \subseteq Player /\ NoOne \notin Udp!Listed
  BY <1>0, UdpLookups, UdpNames DEF Udp!AnswerId, Udp!Typed
<1>4. IF old = NoOne \/ old = me
      THEN info' = [info EXCEPT ![me].id = c] /\ players' = players /\ open' = open
      ELSE /\ info' = [info EXCEPT ![old].connection = connection[c], ![old].addr = info[me].addr,
                                   ![me].connection = 0]
           /\ players' = Udp!Without(me)
           /\ open' = open \ {info[old].connection}
  BY <1>0 DEF Udp!AnswerId
<1>5. \/ old = NoOne /\ \A q \in Udp!Listed : info[q].id # c
      \/ old \in Udp!Listed /\ info[old].id = c
  BY <1>0, UdpLookups, UdpNames DEF Udp!Typed
\* Nobody's live address is at the new player, and the one it had before is not live.
<1>6. \A d \in Client : Udp!Online(d) /\ socket[d] # 0 => info[me].addr # socket[d]
  BY <1>1, <1>2, <1>3 DEF Udp!OwnAddress, Udp!Plays, Udp!OwnPorts
<1>7. \A d \in Client : d # c /\ named[d] /\ Udp!Online(d) => /\ ~Udp!Plays(me, d) /\ ~Udp!Plays(old, d)
  <2> SUFFICES ASSUME NEW d \in Client, d # c, Udp!Online(d)
               PROVE  ~Udp!Plays(me, d) /\ ~Udp!Plays(old, d)
    OBVIOUS
  <2>1. connection[d] # connection[c]
    BY <1>2 DEF Udp!OwnPorts
  <2> QED BY <1>3, <1>5, <2>1 DEF Udp!Plays
<1>8. /\ named' \in [Client -> BOOLEAN] /\ named'[c] /\ \A d \in Client \ {c} : named'[d] = named[d]
  BY <1>1 DEF Udp!Typed
<1>9. \A q \in Udp!Listed : info[q].id \in Client \cup {NoOne} /\ info[q].connection \in Nat /\ info[q].addr \in Nat
  BY <1>3 DEF Udp!Typed, Udp!Info
<1>10. CASE old = NoOne \/ old = me
  <2>1. /\ info' \in [Player -> Udp!Info] /\ \A q \in Player \ {me} : info'[q] = info[q]
        /\ info'[me].id = c /\ info'[me].connection = connection[c] /\ info'[me].addr = info[me].addr
    <3>1. info' = [info EXCEPT ![me] = [info[me] EXCEPT !.id = c]] /\ me \in Player /\ info[me] \in Udp!Info
      BY <1>3, <1>4, <1>10 DEF Udp!Typed
    <3>2. [info[me] EXCEPT !.id = c] \in Udp!Info
      BY <3>1 DEF Udp!Info
    <3>3. info'[me] = [info[me] EXCEPT !.id = c] /\ \A q \in Player \ {me} : info'[q] = info[q]
      BY <3>1 DEF Udp!Typed
    <3>4. info'[me].id = c /\ info'[me].connection = info[me].connection /\ info'[me].addr = info[me].addr
      BY <3>1, <3>3 DEF Udp!Info
    <3> QED BY <1>3, <3>1, <3>2, <3>3, <3>4 DEF Udp!Typed
  <2>2. players' = players /\ open' = open /\ Udp!Listed' = Udp!Listed
    BY <1>4, <1>10 DEF Udp!Listed
  <2>3. Udp!Typed'
    BY <1>1, <1>8, <2>1, <2>2 DEF Udp!Typed
  <2>4. Udp!OwnPorts'
    BY <1>1, <1>3, <1>8, <2>1, <2>2 DEF Udp!Typed, Udp!OwnPorts
  <2>5. Udp!OnePlayerEach'
    BY <1>3, <2>1, <1>5, <1>10, <2>2 DEF Udp!OnePlayerEach
  <2>6. \A d \in Client \ {c}, q \in Player : named[d] /\ Udp!Online(d) /\ Udp!Plays(q, d) => q # me /\ Udp!Plays(q, d)'
    BY <1>1, <1>7, <2>1, <2>2 DEF Udp!Plays
  <2>7. \A d \in Client : Udp!Online(d)' <=> Udp!Online(d)
    BY <1>1, <2>2 DEF Udp!Online
  <2>8. Udp!Named'
    BY <1>1, <1>3, <2>1, <2>2, <1>8, <2>6, <2>7 DEF Udp!Plays, Udp!Named
  <2>9. Udp!OwnAddress'
    <3> SUFFICES ASSUME NEW q \in Player, NEW d \in Client,
                        Udp!Online(d)', socket'[d] # 0, info'[q].addr = socket'[d]
                 PROVE  named'[d] /\ Udp!Plays(q, d)'
      BY DEF Udp!OwnAddress
    <3>1. q # me /\ named[d] /\ Udp!Plays(q, d)
      BY <1>1, <1>6, <2>1, <2>7 DEF Udp!OwnAddress
    <3> QED BY <1>1, <1>8, <2>6, <2>7, <3>1
  <2>10. \A d \in Client \ {c} : named[d] /\ Udp!Online(d) /\ Udp!Known(d) => Udp!Known(d)'
    BY <1>1, <1>3, <2>1, <2>2, <2>6 DEF Udp!Known
  <2>11. Udp!InForce'
    BY <1>1, <1>8, <2>7, <2>10 DEF Udp!InForce, Udp!Typed, Udp!Datagram
  <2> QED
    BY <2>3, <2>4, <2>5, <2>8, <2>9, <2>11 DEF UdpKept
<1>11. CASE ~(old = NoOne \/ old = me)
  <2>1. old \in Udp!Listed /\ info[old].id = c /\ old # me
    BY <1>5, <1>11
  <2>2. /\ info' \in [Player -> Udp!Info] /\ \A q \in Player \ {me, old} : info'[q] = info[q]
        /\ info'[old].id = c /\ info'[old].connection = connection[c] /\ info'[old].addr = info[me].addr
        /\ info'[me].connection = 0 /\ info'[me].addr = info[me].addr
    <3> DEFINE new == [info[old] EXCEPT !.connection = connection[c], !.addr = info[me].addr]
               gone == [info[me] EXCEPT !.connection = 0]
    <3>1. me \in Player /\ old \in Player /\ info[me] \in Udp!Info /\ info[old] \in Udp!Info
      BY <1>3, <2>1 DEF Udp!Typed
    <3>2. info' = [info EXCEPT ![old] = new, ![me] = gone]
      BY <1>4, <1>11, <2>1, <3>1 DEF Udp!Typed
    <3>3. new \in Udp!Info /\ gone \in Udp!Info
      BY <1>2, <3>1 DEF Udp!Info
    <3>4. /\ new.id = c /\ new.connection = connection[c] /\ new.addr = info[me].addr
          /\ gone.connection = 0 /\ gone.addr = info[me].addr
      BY <2>1, <3>1 DEF Udp!Info
    <3> HIDE DEF new, gone
    <3>5. info'[old] = new /\ info'[me] = gone /\ \A q \in Player \ {me, old} : info'[q] = info[q]
      BY <2>1, <3>1, <3>2 DEF Udp!Typed
    <3>6. info' \in [Player -> Udp!Info]
      BY <3>1, <3>2, <3>3 DEF Udp!Typed
    <3> QED BY <3>4, <3>5, <3>6
  <2>3. players' \in Seq(Player) /\ Once' /\ Udp!Listed' = Udp!Listed \ {me}
    BY <1>3, <1>4, <1>11, UdpRemoves DEF Udp!Typed, Udp!OnePlayerEach, Once
  <2>4. open' = open \ {info[old].connection} /\ info[old].connection # connection[c]
    BY <1>2, <1>3, <1>4, <1>11, <2>1 DEF Udp!OnePlayerEach
  <2>5. Udp!Typed'
    BY <1>1, <1>8, <2>2, <2>3, <2>4 DEF Udp!Typed
  <2>6. Udp!OwnPorts'
    <3>1. \A q \in Player : info'[q].connection <= connections' /\ info'[q].addr <= sockets'
      <4> SUFFICES ASSUME NEW q \in Player
                   PROVE  info'[q].connection <= connections' /\ info'[q].addr <= sockets'
        OBVIOUS
      <4>1. \A r \in Player : info[r].connection <= connections /\ info[r].addr <= sockets
        BY DEF Udp!OwnPorts
      <4>2. info'[q].connection \in {info[q].connection, connection[c], 0}
            /\ (info'[q].addr = info[q].addr \/ info'[q].addr = info[me].addr)
        BY <2>1, <2>2
      <4>3. me \in Player /\ connections \in Nat
        BY <1>3 DEF Udp!Typed
      <4> QED BY <1>1, <1>2, <4>1, <4>2, <4>3
    <3> QED BY <1>1, <3>1 DEF Udp!OwnPorts
  <2>7. Udp!OnePlayerEach'
    <3>1. \A q, r \in Udp!Listed' : info'[q].connection = info'[r].connection => q = r \/ info'[q].connection = 0
      BY <1>2, <1>3, <2>1, <2>2, <2>3 DEF Udp!OnePlayerEach
    <3>2. \A q, r \in Udp!Listed' : info'[q].id = info'[r].id => q = r \/ info'[q].id = NoOne
      BY <1>3, <2>1, <2>2, <2>3 DEF Udp!OnePlayerEach
    <3>3. \A k \in open' : \E q \in Udp!Listed' : info'[q].connection = k
      <4> SUFFICES ASSUME NEW k \in open, k # info[old].connection
                   PROVE  \E q \in Udp!Listed' : info'[q].connection = k
        BY <2>4
      <4>1. PICK q \in Udp!Listed : info[q].connection = k
        BY DEF Udp!OnePlayerEach
      <4>2. CASE q = me
        BY <1>3, <2>1, <2>2, <2>3, <4>1, <4>2
      <4>3. CASE q # me
        BY <1>3, <2>1, <2>2, <2>3, <4>1, <4>3
      <4> QED BY <4>2, <4>3
    <3> QED BY <2>3, <3>1, <3>2, <3>3 DEF Udp!OnePlayerEach, Once
  <2>8. \A d \in Client \ {c}, q \in Player : named[d] /\ Udp!Online(d) /\ Udp!Plays(q, d) =>
          q \notin {me, old} /\ Udp!Plays(q, d)'
    BY <1>1, <1>7, <2>2, <2>3 DEF Udp!Plays
  <2>9. \A d \in Client : Udp!Online(d)' => Udp!Online(d)
    BY <1>1, <2>4 DEF Udp!Online
  <2>10. Udp!Named'
    BY <1>1, <2>1, <2>2, <2>3, <1>3, <1>8, <2>8, <2>9 DEF Udp!Plays, Udp!Named
  <2>11. Udp!OwnAddress'
    <3> SUFFICES ASSUME NEW q \in Player, NEW d \in Client,
                        Udp!Online(d)', socket'[d] # 0, info'[q].addr = socket'[d]
                 PROVE  named'[d] /\ Udp!Plays(q, d)'
      BY DEF Udp!OwnAddress
    <3>1. q \notin {me, old} /\ named[d] /\ Udp!Plays(q, d)
      BY <1>1, <1>6, <2>2, <2>9 DEF Udp!OwnAddress
    <3> QED BY <1>1, <1>8, <2>8, <2>9, <3>1
  <2>12. \A d \in Client \ {c} : named[d] /\ Udp!Online(d) /\ Udp!Known(d) => Udp!Known(d)'
    BY <1>1, <1>3, <2>2, <2>3, <2>8 DEF Udp!Known
  <2>13. Udp!InForce'
    BY <1>1, <1>8, <2>9, <2>12 DEF Udp!InForce, Udp!Typed, Udp!Datagram
  <2> QED
    BY <2>5, <2>6, <2>7, <2>10, <2>11, <2>13 DEF UdpKept
<1> QED
  BY <1>10, <1>11

\* A connection ends: its player goes, or stays without address and connection.
LEMMA UdpCloses ==
    ASSUME UdpGood, NEW k \in open, Udp!OnCloseMessage(k)
    PROVE  UdpKept
<1> USE DEF UdpGood
<1>0. PICK p : p = Udp!GetPlayerBySocket(k)
  OBVIOUS
<1>1. /\ open' = open \ {k} /\ k \in Nat \ {0}
      /\ connection' = connection /\ socket' = socket /\ named' = named /\ registered' = registered
      /\ regs' = regs /\ answers' = answers /\ connections' = connections /\ sockets' = sockets
  BY DEF Udp!OnCloseMessage, Udp!clients, Udp!Typed
<1>2. p \in Udp!Listed /\ info[p].connection = k /\ Udp!Listed \subseteq Player
  BY <1>0, UdpLookups, UdpNames DEF Udp!OnePlayerEach, Udp!Typed
<1>3. \/ info' = [info EXCEPT ![p] = [info[p] EXCEPT !.have = FALSE, !.connection = 0]] /\ players' = players
      \/ info' = info /\ players' = Udp!Without(p)
  BY <1>0, <1>2 DEF Udp!OnCloseMessage, Udp!Typed
<1>4. /\ info' \in [Player -> Udp!Info] /\ \A q \in Player \ {p} : info'[q] = info[q]
      /\ info'[p].id = info[p].id /\ info'[p].connection \in {0, k} /\ info'[p].addr = info[p].addr
      /\ Udp!Listed' \in {Udp!Listed, Udp!Listed \ {p}} /\ (p \in Udp!Listed' => info'[p].connection = 0)
      /\ players' \in Seq(Player) /\ Once'
  <2>1. CASE info' = [info EXCEPT ![p] = [info[p] EXCEPT !.have = FALSE, !.connection = 0]] /\ players' = players
    <3> DEFINE new == [info[p] EXCEPT !.have = FALSE, !.connection = 0]
    <3>1. info[p] \in Udp!Info /\ p \in Player
      BY <1>2 DEF Udp!Typed
    <3>2. new \in Udp!Info /\ new.id = info[p].id /\ new.connection = 0 /\ new.addr = info[p].addr
      BY <3>1 DEF Udp!Info
    <3> HIDE DEF new
    <3>3. info'[p] = new /\ info' \in [Player -> Udp!Info] /\ \A q \in Player \ {p} : info'[q] = info[q]
      BY <2>1, <3>1, <3>2 DEF Udp!Typed, new
    <3>4. Udp!Listed' = Udp!Listed /\ Once' /\ players' \in Seq(Player)
      BY <2>1 DEF Udp!Listed, Udp!OnePlayerEach, Once, Udp!Typed
    <3> QED BY <3>2, <3>3, <3>4
  <2>2. CASE info' = info /\ players' = Udp!Without(p)
    BY <1>2, <2>2, UdpRemoves DEF Udp!Typed, Udp!OnePlayerEach, Once
  <2> QED BY <1>3, <2>1, <2>2
<1>5. \A d \in Client : (Udp!Online(d)' => Udp!Online(d) /\ connection[d] # k)
  BY <1>1 DEF Udp!Online
<1>6. \A q \in Player, d \in Client : Udp!Plays(q, d) /\ connection[d] # k => q # p /\ Udp!Plays(q, d)'
  BY <1>1, <1>2, <1>4 DEF Udp!Plays
<1>7. Udp!Typed'
  BY <1>1, <1>4 DEF Udp!Typed
<1>8. Udp!OwnPorts'
  <2>1. \A q \in Player : info'[q].connection <= connections' /\ info'[q].addr <= sockets'
    <3> SUFFICES ASSUME NEW q \in Player
                 PROVE  info'[q].connection <= connections' /\ info'[q].addr <= sockets'
      OBVIOUS
    <3>1. info[q].connection <= connections /\ info[q].addr <= sockets /\ connections \in Nat
      BY DEF Udp!OwnPorts, Udp!Typed
    <3>2. info'[q].connection \in {info[q].connection, 0} /\ info'[q].addr = info[q].addr
      BY <1>2, <1>4
    <3> QED BY <1>1, <3>1, <3>2
  <2> QED BY <1>1, <2>1 DEF Udp!OwnPorts
<1>9. Udp!OnePlayerEach'
  BY <1>2, <1>4, <1>1 DEF Udp!OnePlayerEach, Once
<1>10. Udp!Named'
  <2> SUFFICES ASSUME NEW d \in Client, named[d], Udp!Online(d)'
               PROVE  \E q \in Udp!Listed' : Udp!Plays(q, d)'
    BY <1>1 DEF Udp!Named
  <2>1. PICK q \in Udp!Listed : Udp!Plays(q, d)
    BY <1>5 DEF Udp!Named
  <2> QED BY <1>2, <1>5, <1>6, <2>1 DEF Udp!Plays
<1>11. Udp!OwnAddress'
  <2> SUFFICES ASSUME NEW q \in Player, NEW d \in Client,
                      Udp!Online(d)', socket'[d] # 0, info'[q].addr = socket'[d]
               PROVE  named'[d] /\ Udp!Plays(q, d)'
    BY DEF Udp!OwnAddress
  <2>1. info[q].addr = socket[d] /\ Udp!Online(d) /\ connection[d] # k
    BY <1>1, <1>4, <1>5
  <2>2. named[d] /\ Udp!Plays(q, d)
    BY <1>1, <2>1 DEF Udp!OwnAddress
  <2> QED BY <1>1, <1>6, <2>1, <2>2
<1>12. \A d \in Client : Udp!Known(d) /\ Udp!Online(d)' => Udp!Known(d)'
  <2> SUFFICES ASSUME NEW d \in Client, Udp!Known(d), Udp!Online(d)'
               PROVE  Udp!Known(d)'
    OBVIOUS
  <2>1. PICK q \in Udp!Listed : Udp!Plays(q, d) /\ info[q].have /\ info[q].addr = socket[d]
    BY DEF Udp!Known
  <2>2. q # p /\ Udp!Plays(q, d)'
    BY <1>2, <1>5, <1>6, <2>1
  <2>3. q \in Udp!Listed' /\ info'[q] = info[q]
    BY <1>2, <1>4, <2>2
  <2> QED BY <1>1, <2>1, <2>2, <2>3 DEF Udp!Known
<1>13. Udp!InForce'
  BY <1>1, <1>5, <1>12 DEF Udp!InForce, Udp!Typed, Udp!Datagram
<1> QED
  BY <1>7, <1>8, <1>9, <1>10, <1>11, <1>13 DEF UdpKept

\* The client opens a new socket, which nobody has had, and forgets what it sent from the one before.
LEMMA UdpRegisters ==
    ASSUME UdpGood, may = {}, NEW c \in Client, Udp!Register(c)
    PROVE  UdpKept
<1> USE DEF UdpGood
<1> DEFINE n == sockets + 1
           new == [id |-> c, addr |-> n]
<1>1. /\ n \in Nat /\ n > sockets /\ n # 0 /\ sockets' = n
      /\ players' = players /\ info' = info /\ open' = open /\ connection' = connection /\ named' = named
      /\ answers' = answers /\ connections' = connections
      /\ regs' = {r \in regs : r.id # c} \cup {new}
  BY DEF Udp!Register, Udp!Typed
<1>2. /\ socket' \in [Client -> Nat] /\ registered' \in [Client -> BOOLEAN]
      /\ socket'[c] = n /\ ~registered'[c]
      /\ \A d \in Client \ {c} : socket'[d] = socket[d] /\ registered'[d] = registered[d]
  BY <1>1 DEF Udp!Register, Udp!Typed
<1>3. new \in Udp!Datagram /\ new.id = c /\ new.addr = n
  BY <1>1 DEF Udp!Datagram
<1> HIDE DEF new
<1>4. \A r \in regs \cup answers : r.id \in Client /\ r.addr \in Nat \ {0} /\ r.addr # n
  BY <1>1 DEF Udp!Typed, Udp!Datagram, Udp!OwnPorts
<1>5. \A d \in Client : socket[d] \in Nat /\ socket[d] # n
  BY <1>1 DEF Udp!Typed, Udp!OwnPorts
<1>6. \A q \in Player : info[q].addr \in Nat /\ info[q].addr # n /\ info[q].addr <= n
  BY <1>1 DEF Udp!Typed, Udp!OwnPorts, Udp!Info
<1>7. \A r \in regs \cup answers : r.addr <= n
  BY <1>1, <1>4 DEF Udp!OwnPorts, Udp!Typed
<1>8. \A d \in Client : socket[d] <= n
  BY <1>1, <1>5 DEF Udp!OwnPorts, Udp!Typed
<1>9. n <= n
  BY <1>1
<1> HIDE DEF n
<1>10. Udp!Typed'
  BY <1>1, <1>2, <1>3 DEF Udp!Typed
<1>11. Udp!OwnPorts'
  BY <1>2, <1>5, <1>1, <1>8, <1>9, <1>3, <1>7, <1>6 DEF Udp!OwnPorts
<1>12. Udp!Listed' = Udp!Listed
  BY <1>1 DEF Udp!Listed
<1>13. Udp!OnePlayerEach'
  BY <1>1, <1>12 DEF Udp!OnePlayerEach
<1>14. \A d \in Client : (Udp!Online(d)' <=> Udp!Online(d)) /\ \A q \in Player : Udp!Plays(q, d)' <=> Udp!Plays(q, d)
  BY <1>1, <1>12 DEF Udp!Online, Udp!Plays
<1>15. Udp!Named'
  BY <1>1, <1>12, <1>14, UdpLookups, UdpNames DEF Udp!Named, Udp!Typed
<1>16. Udp!OwnAddress'
  BY <1>1, <1>2, <1>6, <1>14 DEF Udp!OwnAddress
<1>17. \A d \in Client \ {c} : Udp!Known(d) => Udp!Known(d)'
  BY <1>1, <1>2, <1>12, <1>14, UdpLookups, UdpNames DEF Udp!Known, Udp!Typed
<1>18. Udp!InForce'
  <2>1. \A r \in regs' : socket'[r.id] # 0 => r.addr = socket'[r.id]
    BY <1>1, <1>2, <1>3, <1>4 DEF Udp!InForce
  <2>2. \A r \in regs', d \in Client : r.addr = socket'[d] => r.id = d
    BY <1>1, <1>2, <1>3, <1>4, <1>5 DEF Udp!InForce
  <2>3. \A r \in answers' : r.addr = socket'[r.id] => named'[r.id] /\ (Udp!Online(r.id)' => Udp!Known(r.id)')
    <3> SUFFICES ASSUME NEW r \in answers, r.addr = socket'[r.id]
                 PROVE  named'[r.id] /\ (Udp!Online(r.id)' => Udp!Known(r.id)')
      BY <1>1
    <3>1. r.id \in Client \ {c}
      BY <1>2, <1>4
    <3> QED BY <1>1, <1>2, <1>14, <1>17, <3>1 DEF Udp!InForce
  <2>4. \A d \in Client : registered'[d] => named'[d] /\ socket'[d] # 0 /\ (Udp!Online(d)' => Udp!Known(d)')
    BY <1>1, <1>2, <1>14, <1>17 DEF Udp!InForce
  <2> QED BY <2>1, <2>2, <2>3, <2>4 DEF Udp!InForce
<1> QED
  BY <1>10, <1>11, <1>13, <1>15, <1>16, <1>18 DEF UdpKept

\* A registration is handled: the named player of the client gets the address of its socket.
LEMMA UdpRegistered ==
    ASSUME UdpGood, may = {}, NEW r \in regs, Udp!UDPReg(r)
    PROVE  UdpKept
<1> USE DEF UdpGood
<1> DEFINE c == r.id
<1>0. PICK p : p = IF Udp!GetNoUDPPlayerById(c) # NoOne THEN Udp!GetNoUDPPlayerById(c) ELSE Udp!GetPlayerById(c)
  OBVIOUS
<1>1. /\ named[c] /\ regs' = regs \ {r}
      /\ players' = players /\ open' = open /\ connection' = connection /\ socket' = socket /\ named' = named
      /\ registered' = registered /\ connections' = connections /\ sockets' = sockets
  BY DEF Udp!UDPReg, Udp!clients
<1>2. \/ info' = info /\ answers' = answers
      \/ /\ p # NoOne /\ info' = [info EXCEPT ![p] = [info[p] EXCEPT !.addr = r.addr, !.have = TRUE]]
         /\ answers' = answers \cup {r}
  <2>1. IF Udp!GetPlayerByUDPAddr(r.addr) # NoOne \/ p = NoOne
        THEN UNCHANGED <<info, answers>>
        ELSE info' = Udp!SetUDPAddr(p, r.addr) /\ answers' = answers \cup {r}
    BY <1>0 DEF Udp!UDPReg
  <2>2. p # NoOne => p \in Player
    BY <1>0, UdpLookups, UdpNames DEF Udp!Typed
  <2>3. p \in Player => Udp!SetUDPAddr(p, r.addr) = [info EXCEPT ![p] = [info[p] EXCEPT !.addr = r.addr, !.have = TRUE]]
    BY DEF Udp!SetUDPAddr, Udp!Typed
  <2> QED BY <2>1, <2>2, <2>3
<1>3. c \in Client /\ r.addr \in Nat \ {0} /\ r.addr <= sockets
  BY DEF Udp!Typed, Udp!Datagram, Udp!OwnPorts
<1>4. Udp!Listed' = Udp!Listed /\ Udp!Listed \subseteq Player
  BY <1>1, UdpLookups, UdpNames DEF Udp!Listed, Udp!Typed
<1>5. \A d \in Client : (Udp!Online(d)' <=> Udp!Online(d))
  BY <1>1 DEF Udp!Online
<1>6. CASE info' = info /\ answers' = answers
  <2>1. \A d \in Client : (Udp!Known(d)' <=> Udp!Known(d)) /\ \A q \in Player : Udp!Plays(q, d)' <=> Udp!Plays(q, d)
    BY <1>1, <1>4, <1>6 DEF Udp!Known, Udp!Plays
  <2>2. Udp!Typed' /\ Udp!OwnPorts' /\ Udp!OnePlayerEach'
    BY <1>1, <1>4, <1>6 DEF Udp!Typed, Udp!OwnPorts, Udp!OnePlayerEach
  <2>3. Udp!Named' /\ Udp!OwnAddress'
    BY <1>1, <1>4, <1>5, <1>6, <2>1 DEF Udp!Named, Udp!OwnAddress
  <2>4. Udp!InForce'
    BY <1>1, <1>5, <1>6, <2>1 DEF Udp!InForce, Udp!Typed, Udp!Datagram
  <2> QED BY <2>2, <2>3, <2>4 DEF UdpKept
<1>7. CASE /\ p # NoOne /\ info' = [info EXCEPT ![p] = [info[p] EXCEPT !.addr = r.addr, !.have = TRUE]]
           /\ answers' = answers \cup {r}
  <2>1. p \in Udp!Listed /\ info[p].id = c
    BY <1>0, <1>7, UdpLookups, UdpNames DEF Udp!Typed
  <2>2. /\ info' \in [Player -> Udp!Info] /\ \A q \in Player \ {p} : info'[q] = info[q]
        /\ info'[p].id = c /\ info'[p].connection = info[p].connection /\ info'[p].addr = r.addr /\ info'[p].have
    <3> DEFINE new == [info[p] EXCEPT !.addr = r.addr, !.have = TRUE]
    <3>1. info[p] \in Udp!Info /\ p \in Player
      BY <1>4, <2>1 DEF Udp!Typed
    <3>2. new \in Udp!Info /\ new.id = c /\ new.connection = info[p].connection /\ new.addr = r.addr /\ new.have
      BY <1>3, <2>1, <3>1 DEF Udp!Info
    <3> HIDE DEF new
    <3>3. info' = [info EXCEPT ![p] = new]
      BY <1>7 DEF new
    <3> QED BY <3>1, <3>2, <3>3 DEF Udp!Typed
  <2>3. \A d \in Client, q \in Player : Udp!Plays(q, d)' <=> Udp!Plays(q, d)
    BY <1>1, <1>4, <2>1, <2>2 DEF Udp!Plays
  <2>4. Udp!Online(c) => Udp!Plays(p, c)
    <3> SUFFICES ASSUME Udp!Online(c)
                 PROVE  Udp!Plays(p, c)
      OBVIOUS
    <3>1. PICK q \in Udp!Listed : Udp!Plays(q, c)
      BY <1>1, <1>3 DEF Udp!Named
    <3>2. q = p
      BY <1>3, <2>1, <3>1, UdpNames DEF Udp!OnePlayerEach, Udp!Plays
    <3> QED BY <3>1, <3>2
  <2>5. Udp!Typed'
    BY <1>1, <1>7, <2>2 DEF Udp!Typed
  <2>6. Udp!OwnPorts'
    BY <1>1, <1>3, <1>4, <2>1, <2>2, <1>7 DEF Udp!OwnPorts
  <2>7. Udp!OnePlayerEach'
    BY <1>4, <2>1, <2>2, <1>1 DEF Udp!OnePlayerEach
  <2>8. Udp!Named'
    BY <1>1, <1>4, <1>5, <2>3 DEF Udp!Named
  <2>9. Udp!OwnAddress'
    <3> SUFFICES ASSUME NEW q \in Player, NEW d \in Client,
                        Udp!Online(d)', socket'[d] # 0, info'[q].addr = socket'[d]
                 PROVE  named'[d] /\ Udp!Plays(q, d)'
      BY DEF Udp!OwnAddress
    <3>1. CASE q = p
      BY <1>1, <2>2, <3>1, <1>5, <2>3, <2>4 DEF Udp!InForce
    <3>2. CASE q # p
      BY <1>1, <1>5, <2>2, <2>3, <3>2 DEF Udp!OwnAddress
    <3> QED BY <3>1, <3>2
  <2>10. \A d \in Client \ {c} : Udp!Known(d) => Udp!Known(d)'
    <3> SUFFICES ASSUME NEW d \in Client \ {c}, Udp!Known(d)
                 PROVE  Udp!Known(d)'
      OBVIOUS
    <3>1. PICK q \in Udp!Listed : Udp!Plays(q, d) /\ info[q].have /\ info[q].addr = socket[d]
      BY DEF Udp!Known
    <3>2. q # p
      BY <2>1, <3>1 DEF Udp!Plays
    <3> QED BY <1>1, <1>4, <2>2, <2>3, <3>1, <3>2 DEF Udp!Known
  <2>11. r.addr = socket[c] /\ Udp!Online(c) => Udp!Known(c)'
    BY <1>1, <1>3, <1>4, <2>1, <2>2, <2>3, <2>4 DEF Udp!Known
  <2>12. socket[c] # 0 => r.addr = socket[c]
    BY DEF Udp!InForce
  <2>13. Udp!InForce'
    <3>1. \A s \in answers' : s.addr = socket'[s.id] => named'[s.id] /\ (Udp!Online(s.id)' => Udp!Known(s.id)')
      <4> SUFFICES ASSUME NEW s \in answers \cup {r}, s.addr = socket[s.id]
                   PROVE  named[s.id] /\ (Udp!Online(s.id) => Udp!Known(s.id)')
        BY <1>1, <1>5, <1>7 DEF Udp!Typed, Udp!Datagram
      <4>1. s.id \in Client /\ s.addr \in Nat \ {0}
        BY DEF Udp!Typed, Udp!Datagram
      <4>2. CASE s.id = c
        BY <1>1, <2>11, <2>12, <4>1, <4>2
      <4>3. CASE s.id # c
        BY <2>10, <4>1, <4>3 DEF Udp!InForce
      <4> QED BY <4>2, <4>3
    <3>2. \A d \in Client : registered'[d] => named'[d] /\ socket'[d] # 0 /\ (Udp!Online(d)' => Udp!Known(d)')
      BY <1>1, <1>5, <2>10, <2>11, <2>12 DEF Udp!InForce
    <3> QED BY <1>1, <3>1, <3>2 DEF Udp!InForce
  <2> QED BY <2>5, <2>6, <2>7, <2>8, <2>9, <2>13 DEF UdpKept
<1> QED
  BY <1>2, <1>6, <1>7

\* Registrations are repeated, and answered.
LEMMA UdpRepeats ==
    ASSUME UdpGood, NEW c \in Client, Udp!SendAgain(c)
    PROVE  UdpKept
<1> USE DEF UdpGood
<1> DEFINE new == [id |-> c, addr |-> socket[c]]
<1>1. /\ socket[c] # 0 /\ regs' = regs \cup {new}
      /\ players' = players /\ info' = info /\ open' = open /\ connection' = connection /\ named' = named
      /\ socket' = socket /\ registered' = registered
      /\ answers' = answers /\ connections' = connections /\ sockets' = sockets
  BY DEF Udp!SendAgain, Udp!clients
<1>2. new \in Udp!Datagram /\ new.id = c /\ new.addr = socket[c]
  BY <1>1 DEF Udp!Datagram, Udp!Typed
<1> HIDE DEF new
<1>3. Udp!Listed' = Udp!Listed
  BY <1>1 DEF Udp!Listed
<1>4. \A d \in Client : /\ (Udp!Online(d)' <=> Udp!Online(d)) /\ (Udp!Known(d)' <=> Udp!Known(d))
                        /\ \A q : Udp!Plays(q, d)' <=> Udp!Plays(q, d)
  BY <1>1, <1>3 DEF Udp!Online, Udp!Plays, Udp!Known
<1>5. Udp!Typed' /\ Udp!OnePlayerEach'
  BY <1>1, <1>2, <1>3 DEF Udp!Typed, Udp!OnePlayerEach
<1>6. Udp!OwnPorts'
  BY <1>1, <1>2 DEF Udp!OwnPorts
<1>7. Udp!Named' /\ Udp!OwnAddress'
  BY <1>1, <1>3, <1>4 DEF Udp!Named, Udp!OwnAddress
<1>8. Udp!InForce'
  BY <1>1, <1>2, <1>4 DEF Udp!InForce, Udp!OwnPorts, Udp!Typed, Udp!Datagram
<1> QED
  BY <1>5, <1>6, <1>7, <1>8 DEF UdpKept

LEMMA UdpResponds ==
    ASSUME UdpGood, NEW r \in answers, Udp!UDPResponse(r)
    PROVE  UdpKept
<1> USE DEF UdpGood
<1>1. /\ answers' = answers \ {r} /\ regs' = regs
      /\ players' = players /\ info' = info /\ open' = open /\ connection' = connection /\ named' = named
      /\ socket' = socket /\ connections' = connections /\ sockets' = sockets
  BY DEF Udp!UDPResponse
<1>2. r.id \in Client /\ r.addr \in Nat \ {0}
  BY DEF Udp!Typed, Udp!Datagram
<1>3. /\ registered' \in [Client -> BOOLEAN]
      /\ \A d \in Client : registered'[d] <=> registered[d] \/ (d = r.id /\ socket[d] = r.addr)
  BY <1>2 DEF Udp!UDPResponse, Udp!Typed
<1>4. Udp!Listed' = Udp!Listed
  BY <1>1 DEF Udp!Listed
<1>5. \A d \in Client : /\ (Udp!Online(d)' <=> Udp!Online(d)) /\ (Udp!Known(d)' <=> Udp!Known(d))
                        /\ \A q : Udp!Plays(q, d)' <=> Udp!Plays(q, d)
  BY <1>1, <1>4 DEF Udp!Online, Udp!Plays, Udp!Known
<1>6. Udp!Typed' /\ Udp!OnePlayerEach'
  BY <1>1, <1>3, <1>4 DEF Udp!Typed, Udp!OnePlayerEach
<1>7. Udp!OwnPorts'
  BY <1>1 DEF Udp!OwnPorts
<1>8. Udp!Named' /\ Udp!OwnAddress'
  BY <1>1, <1>4, <1>5 DEF Udp!Named, Udp!OwnAddress
<1>9. Udp!InForce'
  <2>1. \A d \in Client : registered'[d] => named'[d] /\ socket'[d] # 0 /\ (Udp!Online(d)' => Udp!Known(d)')
    <3> SUFFICES ASSUME NEW d \in Client, registered'[d]
                 PROVE  named[d] /\ socket[d] # 0 /\ (Udp!Online(d) => Udp!Known(d))
      BY <1>1, <1>5
    <3>1. CASE registered[d]
      BY <3>1 DEF Udp!InForce
    <3>2. CASE d = r.id /\ socket[d] = r.addr
      BY <1>2, <3>2 DEF Udp!InForce
    <3> QED BY <1>3, <3>1, <3>2
  <2>2. \A s \in answers' : s.addr = socket'[s.id] => named'[s.id] /\ (Udp!Online(s.id)' => Udp!Known(s.id)')
    BY <1>1, <1>5 DEF Udp!InForce, Udp!Typed, Udp!Datagram
  <2> QED BY <1>1, <2>1, <2>2 DEF Udp!InForce
<1> QED
  BY <1>6, <1>7, <1>8, <1>9 DEF UdpKept

\* At first nobody is connected.
LEMMA UdpInit == Udp!Init => Udp!RegistrationInv
<1> SUFFICES ASSUME Udp!Init
             PROVE  UdpGood
  BY DEF Udp!RegistrationInv, UdpGood
<1> USE DEF Udp!Init
<1>1. Udp!Listed = {} /\ players \in Seq(Player) /\ \A c : ~Udp!Online(c)
  BY EmptySeq DEF Udp!Listed, Udp!Online
<1>2. info \in [Player -> Udp!Info]
  BY DEF Udp!Info
<1>3. Udp!Typed
  BY <1>1, <1>2 DEF Udp!Typed
<1>4. Udp!OwnPorts
  BY DEF Udp!OwnPorts
<1>5. Udp!OnePlayerEach
  BY <1>1 DEF Udp!OnePlayerEach
<1>6. Udp!Named /\ Udp!OwnAddress /\ Udp!InForce
  BY <1>1 DEF Udp!Named, Udp!OwnAddress, Udp!InForce
<1> QED
  BY <1>3, <1>4, <1>5, <1>6 DEF UdpGood

LEMMA UdpStep == UdpInv /\ [Next]_vars => UdpInv'
<1> SUFFICES ASSUME UdpInv, [Next]_vars, part' = "udp", may' = {}
             PROVE  UdpKept
  BY DEF UdpInv, Udp!RegistrationInv, UdpKept
<1>1. CASE UNCHANGED vars
  <2>1. UdpGood
    BY <1>1 DEF vars, UdpInv, Udp!RegistrationInv, UdpGood
  <2>2. /\ players' = players /\ info' = info /\ open' = open /\ connection' = connection /\ named' = named
        /\ socket' = socket /\ registered' = registered /\ regs' = regs
        /\ answers' = answers /\ connections' = connections /\ sockets' = sockets
    BY <1>1 DEF vars, udpOnly
  <2>3. Udp!Listed' = Udp!Listed
    BY <2>2 DEF Udp!Listed
  <2>4. \A d \in Client : /\ (Udp!Online(d)' <=> Udp!Online(d)) /\ (Udp!Known(d)' <=> Udp!Known(d))
                          /\ \A q : Udp!Plays(q, d)' <=> Udp!Plays(q, d)
    BY <2>2, <2>3 DEF Udp!Online, Udp!Plays, Udp!Known
  <2>5. Udp!Typed' /\ Udp!OwnPorts' /\ Udp!OnePlayerEach'
    BY <2>1, <2>2, <2>3 DEF UdpGood, Udp!Typed, Udp!OwnPorts, Udp!OnePlayerEach
  <2>6. Udp!Named' /\ Udp!OwnAddress'
    BY <2>1, <2>2, <2>3, <2>4 DEF UdpGood, Udp!Named, Udp!OwnAddress
  <2>7. Udp!InForce'
    BY <2>1, <2>2, <2>4 DEF UdpGood, Udp!InForce, Udp!Typed, Udp!Datagram
  <2> QED BY <2>5, <2>6, <2>7 DEF UdpKept
<1>2. CASE Next
  <2>1. part = "udp" /\ Udp!Next
    BY <1>2 DEF Next
  <2>2. may' = may
    BY <2>1 DEF Udp!Next, Udp!Connect, Udp!AnswerId, Udp!Register, Udp!SendAgain, Udp!OnCloseMessage, Udp!UDPReg,
        Udp!UDPResponse
  <2>3. UdpGood /\ may = {}
    BY <2>1, <2>2 DEF UdpInv, Udp!RegistrationInv, UdpGood
  <2> QED
    BY <2>1, <2>3, UdpConnects, UdpAnswers, UdpRegisters, UdpRepeats, UdpCloses, UdpRegistered, UdpResponds DEF Udp!Next
<1> QED
  BY <1>1, <1>2

\* UDPRegistration: as long as no registration overtakes the name of its client or comes from a closed
\* socket, the datagrams of a client that was told it is registered are taken for those of its own player:
\* no player, listed or pooled with the address it had, shares the address of a socket in use.
THEOREM RegisteredIsAttributedHolds == Spec => []RegisteredIsAttributed
<1>1. Init => UdpInv
  BY UdpInit DEF Init, UdpInv
<1>2. UdpInv /\ [Next]_vars => UdpInv'
  BY UdpStep
<1>3. UdpInv => RegisteredIsAttributed
  <2> SUFFICES ASSUME UdpGood, NEW c \in Client, registered[c], named[c], connection[c] \in open
               PROVE  LET p == Udp!GetPlayerByUDPAddr(socket[c])
                      IN  p # NoOne /\ info[p].id = c /\ info[p].connection = connection[c]
    BY DEF UdpInv, Udp!RegistrationInv, UdpGood, RegisteredIsAttributed, Udp!RegisteredIsAttributed
  <2>1. PICK p : p = Udp!GetPlayerByUDPAddr(socket[c])
    OBVIOUS
  <2>2. socket[c] # 0 /\ Udp!Online(c) /\ Udp!Known(c)
    BY DEF UdpGood, Udp!InForce, Udp!Online
  <2>3. p \in Udp!Listed /\ info[p].addr = socket[c] /\ Udp!Listed \subseteq Player /\ NoOne \notin Udp!Listed
    BY <2>1, <2>2, UdpLookups, UdpNames DEF UdpGood, Udp!Typed, Udp!Known
  <2>4. Udp!Plays(p, c)
    BY <2>2, <2>3 DEF UdpGood, Udp!OwnAddress
  <2> QED BY <2>1, <2>3, <2>4 DEF Udp!Plays
<1>4. Spec => Init /\ [][Next]_vars
  BY PTL DEF Spec
<1> QED
  BY <1>1, <1>2, <1>3, <1>4, PTL


(***************************************************************************)
(* The places of actors (Transforms).                                      *)
(***************************************************************************)
MovPacket == [number : Nat \ {0}, at : Int]
MovMover == [at : Int, saved : Int, on : BOOLEAN]
MovShadow == [at : Int, saved : Int, recv : Int, moving : BOOLEAN, time : Nat, on : BOOLEAN, seen : Nat]

MovTyped ==
    /\ kind \in {"location", "rotation", "control"} /\ last \in Nat
    /\ mover \in MovMover /\ shadow \in MovShadow /\ shadow.seen <= last
    /\ up \subseteq MovPacket /\ down \subseteq MovPacket /\ relayed \in Seq(MovPacket)

\* The last datagram, wherever it is, has the last place that was sent.
MovTells(packet) == packet.number <= last /\ (packet.number = last => packet.at = mover.saved)
MovTold ==
    /\ \A packet \in up \cup down : MovTells(packet)
    /\ \A i \in 1 .. Len(relayed) : MovTells(relayed[i])

\* Who has seen it stands there, or is on the way to it.
MovWay ==
    /\ kind = "control" => shadow.on
    /\ last > 0 /\ shadow.seen = last =>
         IF kind = "control" THEN shadow.at = mover.saved
         ELSE shadow.recv = mover.saved /\ (shadow.moving \/ shadow.at = shadow.recv)

MovGood == MovTyped /\ MovTold /\ MovWay
MovInv == part = "move" => MovGood

\* The parts of a way: after all of them the actor is at its end.
LEMMA MovArrives ==
    ASSUME NEW a \in Int, NEW b \in Int
    PROVE  /\ \A t \in Nat : a + ((b - a) * t) \div Steps \in Int
           /\ a + ((b - a) * Steps) \div Steps = b
  BY ClientAssumption DEF ClientAssumption, Mov!TransformsAssumption

\* At the beginning nobody has moved and nothing is under way.
LEMMA MovBegins == Mov!Init => MovGood
<1> SUFFICES ASSUME Mov!Init
             PROVE  MovGood
  OBVIOUS
<1>1. Kinds \subseteq {"location", "rotation", "control"} /\ Places \subseteq Int
  BY ClientAssumption DEF ClientAssumption, Mov!TransformsAssumption
<1>2. PICK place \in Places : /\ mover = [at |-> place, saved |-> 0, on |-> TRUE]
                              /\ shadow = [at |-> place, saved |-> 0, recv |-> place, moving |-> FALSE, time |-> 0,
                                           on |-> TRUE, seen |-> 0]
  BY DEF Mov!Init
<1>3. kind \in {"location", "rotation", "control"} /\ last = 0 /\ up = {} /\ down = {} /\ relayed = << >>
  BY <1>1 DEF Mov!Init
<1>4. MovTyped
  BY <1>2, <1>1, <1>3 DEF MovMover, MovShadow, MovTyped
<1>5. MovTold
  BY <1>3 DEF MovTold
<1>6. MovWay
  BY <1>2, <1>3 DEF MovWay
<1> QED BY <1>4, <1>5, <1>6 DEF MovGood

\* The other client is told a place.
LEMMA MovReceives ==
    ASSUME MovGood, NEW packet \in MovPacket, MovTells(packet), shadow' = Mov!Received(packet),
           kind' = kind, mover' = mover, last' = last
    PROVE  shadow' \in MovShadow /\ shadow'.seen <= last' /\ MovWay'
<1>1. packet.number \in Nat /\ packet.number # 0 /\ packet.at \in Int
  BY DEF MovPacket
<1>2. /\ shadow.at \in Int /\ shadow.saved \in Int /\ shadow.recv \in Int /\ shadow.moving \in BOOLEAN
      /\ shadow.time \in Nat /\ shadow.on \in BOOLEAN /\ shadow.seen \in Nat
      /\ shadow = [at |-> shadow.at, saved |-> shadow.saved, recv |-> shadow.recv, moving |-> shadow.moving,
                   time |-> shadow.time, on |-> shadow.on, seen |-> shadow.seen]
  BY DEF MovGood, MovTyped, MovShadow
<1>3. ASSUME NEW place \in Int, NEW saved1 \in Int, NEW recv \in Int, NEW moving \in BOOLEAN, NEW time \in Nat,
             shadow' = [at |-> place, saved |-> saved1, recv |-> recv, moving |-> moving, time |-> time,
                        on |-> shadow.on, seen |-> packet.number],
             IF kind = "control" THEN place = packet.at ELSE recv = packet.at /\ moving = TRUE
      PROVE  shadow' \in MovShadow /\ shadow'.seen <= last' /\ MovWay'
  BY <1>1, <1>2, <1>3 DEF MovShadow, MovGood, MovWay, MovTells
<1>4. CASE kind = "control"
  <2>1. shadow' = [[shadow EXCEPT !.seen = packet.number] EXCEPT !.at = packet.at]
    BY <1>4 DEF Mov!Received, Mov!RPCSyncControlRotation
  <2>2. shadow' = [at |-> packet.at, saved |-> shadow.saved, recv |-> shadow.recv, moving |-> shadow.moving,
                   time |-> shadow.time, on |-> shadow.on, seen |-> packet.number]
    BY <1>2, <2>1
  <2> QED BY <1>1, <1>2, <1>3, <1>4, <2>2
<1>5. CASE kind # "control"
  <2> DEFINE w == [shadow EXCEPT !.seen = packet.number]
  <2>1. shadow' = Mov!Lead(w, packet.at) \/ shadow' = Mov!Lead([w EXCEPT !.at = packet.at], packet.at)
    BY <1>5 DEF Mov!Received, Mov!RPCSyncLocation, Mov!RPCSyncRotation, MovGood, MovTyped
  <2>2. CASE shadow' = Mov!Lead(w, packet.at)
    <3>1. shadow' = [at |-> shadow.at, saved |-> shadow.at, recv |-> packet.at, moving |-> TRUE,
                     time |-> 0, on |-> shadow.on, seen |-> packet.number]
      BY <1>2, <2>2 DEF Mov!Lead
    <3> QED BY <1>1, <1>2, <1>3, <1>5, <3>1
  <2>3. CASE shadow' = Mov!Lead([w EXCEPT !.at = packet.at], packet.at)
    <3>1. shadow' = [at |-> packet.at, saved |-> packet.at, recv |-> packet.at, moving |-> TRUE,
                     time |-> 0, on |-> shadow.on, seen |-> packet.number]
      BY <1>2, <2>3 DEF Mov!Lead
    <3> QED BY <1>1, <1>2, <1>3, <1>5, <3>1
  <2> QED BY <2>1, <2>2, <2>3
<1> QED BY <1>4, <1>5

\* Every move, throw, place sent, relay and place received keeps it.
LEMMA MovStep == MovGood /\ [Mov!Next]_(Mov!vars) => MovGood'
<1> SUFFICES ASSUME MovGood, [Mov!Next]_(Mov!vars)
             PROVE  MovGood'
  OBVIOUS
<1> USE DEF MovGood
<1>0. Places \subseteq Int /\ Steps \in Nat \ {0}
  BY ClientAssumption DEF ClientAssumption, Mov!TransformsAssumption
<1>1. /\ mover.at \in Int /\ mover.saved \in Int /\ mover.on \in BOOLEAN /\ last \in Nat
      /\ mover = [at |-> mover.at, saved |-> mover.saved, on |-> mover.on]
      /\ shadow.at \in Int /\ shadow.saved \in Int /\ shadow.recv \in Int /\ shadow.moving \in BOOLEAN
      /\ shadow.time \in Nat /\ shadow.on \in BOOLEAN /\ shadow.seen \in Nat
      /\ shadow = [at |-> shadow.at, saved |-> shadow.saved, recv |-> shadow.recv, moving |-> shadow.moving,
                   time |-> shadow.time, on |-> shadow.on, seen |-> shadow.seen]
  BY DEF MovTyped, MovMover, MovShadow
<1>2. ASSUME NEW place \in Int, NEW on1 \in BOOLEAN, mover' = [at |-> place, saved |-> mover.saved, on |-> on1],
             UNCHANGED <<kind, shadow, up, down, relayed, last>>
      PROVE  MovGood'
  BY <1>1, <1>2 DEF MovMover, MovTyped, MovTold, MovTells, MovWay
<1>3. CASE Mov!Move
  <2>1. PICK place \in Places : mover' = [mover EXCEPT !.at = place]
    BY <1>3 DEF Mov!Move
  <2>2. mover' = [at |-> place, saved |-> mover.saved, on |-> mover.on]
    BY <1>1, <2>1
  <2>3. UNCHANGED <<kind, shadow, up, down, relayed, last>>
    BY <1>3 DEF Mov!Move
  <2> QED BY <1>0, <1>1, <1>2, <2>1, <2>2, <2>3
<1>4. CASE Mov!Tick
  <2>0. PICK new : new = [number |-> last + 1, at |-> mover.at]
    OBVIOUS
  <2>1. /\ mover' = [at |-> mover.at, saved |-> mover.at, on |-> mover.on] /\ last' = last + 1
        /\ up' = up \cup {new} /\ UNCHANGED <<kind, shadow, down, relayed>>
    BY <1>1, <1>4, <2>0 DEF Mov!Tick
  <2>2. new \in MovPacket /\ mover' \in MovMover /\ mover'.saved = mover.at
    BY <1>1, <2>0, <2>1 DEF MovPacket, MovMover
  <2>3. MovTyped'
    BY <1>1, <2>1, <2>2 DEF MovTyped
  <2>4. MovTold'
    <3>1. new.number = last + 1 /\ new.at = mover.at
      BY <2>0
    <3>2. \A packet \in MovPacket : packet.number \in Nat
      BY DEF MovPacket
    <3>3. \A packet \in MovPacket : MovTells(packet) => MovTells(packet)'
      BY <1>1, <2>1, <3>2 DEF MovTells
    <3>4. new.number <= last' /\ (new.number = last' => new.at = mover'.saved)
      BY <1>1, <2>1, <2>2, <3>1
    <3>5. \A packet \in up \cup {new} \cup down :
            packet.number <= last' /\ (packet.number = last' => packet.at = mover'.saved)
      BY <3>3, <3>4 DEF MovTold, MovTyped, MovTells
    <3>6. \A i \in 1 .. Len(relayed) : relayed[i] \in MovPacket
      BY DEF MovTyped
    <3>7. \A i \in 1 .. Len(relayed) :
            relayed[i].number <= last' /\ (relayed[i].number = last' => relayed[i].at = mover'.saved)
      BY <3>3, <3>6 DEF MovTold, MovTells
    <3> QED BY <2>1, <3>5, <3>7 DEF MovTold, MovTells
  <2>5. MovWay'
    BY <1>1, <2>1 DEF MovWay, MovTyped
  <2> QED BY <2>3, <2>4, <2>5
<1>5. CASE Mov!InGame_RPC
  <2>1. PICK packet \in up : up' = up \ {packet} /\ Mov!SendToOtherMember(packet)
    BY <1>5 DEF Mov!InGame_RPC
  <2>2. UNCHANGED <<kind, mover, shadow, last>>
    BY <1>5 DEF Mov!InGame_RPC
  <2>3. packet \in MovPacket /\ MovTells(packet)
    BY DEF MovTyped, MovTold
  <2>4. \/ down' = down \cup {packet} /\ relayed' = relayed
        \/ relayed' = Append(relayed, packet) /\ down' = down
    BY <2>1 DEF Mov!SendToOtherMember
  <2>5. MovTyped'
    BY <2>1, <2>2, <2>3, <2>4 DEF MovTyped
  <2>6. \A q : MovTells(q)' <=> MovTells(q)
    BY <2>2 DEF MovTells
  <2>7. MovTold'
    BY <2>3, <2>4, <2>1, <2>6 DEF MovTyped, MovTold
  <2>8. MovWay'
    BY <2>2 DEF MovWay
  <2> QED BY <2>5, <2>7, <2>8
<1>6. CASE Mov!Lose
  BY <1>6 DEF Mov!Lose, MovTyped, MovTold, MovTells, MovWay
<1>7. CASE Mov!RecvUDP
  <2>1. PICK packet \in down : down' = down \ {packet} /\ shadow' = Mov!Received(packet)
    BY <1>7 DEF Mov!RecvUDP
  <2>2. UNCHANGED <<kind, mover, up, relayed, last>>
    BY <1>7 DEF Mov!RecvUDP
  <2>3. packet \in MovPacket /\ MovTells(packet)
    BY DEF MovTyped, MovTold
  <2>4. shadow' \in MovShadow /\ shadow'.seen <= last' /\ MovWay'
    BY <2>1, <2>2, <2>3, MovReceives
  <2> QED BY <2>1, <2>2, <2>4 DEF MovTyped, MovTold, MovTells
<1>8. CASE Mov!RecvTCP
  BY <1>8, MovReceives DEF Mov!RecvTCP, MovTyped, MovTold, MovTells
<1>9. ASSUME NEW w \in MovShadow, shadow' = w, UNCHANGED <<kind, mover, up, down, relayed, last>>,
             w.seen <= last, MovWay'
      PROVE  MovGood'
  BY <1>9 DEF MovTyped, MovTold, MovTells
<1>10. CASE Mov!_UpdateTransform
  <2>1. UNCHANGED <<kind, mover, up, down, relayed, last>> /\ kind # "control"
    BY <1>10 DEF Mov!_UpdateTransform
  <2>2. CASE shadow' = Mov!Hold(shadow)
    <3>1. shadow' = [at |-> shadow.at, saved |-> shadow.at, recv |-> shadow.at, moving |-> shadow.moving,
                     time |-> shadow.time, on |-> shadow.on, seen |-> 0]
      BY <1>1, <2>2 DEF Mov!Hold
    <3>2. shadow' \in MovShadow /\ shadow'.seen = 0
      BY <1>1, <3>1 DEF MovShadow
    <3>3. MovWay'
      BY <1>1, <2>1, <3>2 DEF MovWay
    <3> QED BY <1>1, <1>9, <2>1, <3>2, <3>3
  <2>3. ASSUME NEW delta \in 1 .. Steps + 1, shadow' = Mov!Led(shadow, delta), shadow.moving
        PROVE  MovGood'
    <3>1. PICK time : time = IF shadow.time + delta > Steps THEN Steps ELSE shadow.time + delta
      OBVIOUS
    <3>2. PICK place : place = shadow.saved + ((shadow.recv - shadow.saved) * time) \div Steps
      OBVIOUS
    <3>3. PICK moving : moving = (shadow.time + delta <= Steps)
      OBVIOUS
    <3>4. shadow' = [at |-> place, saved |-> shadow.saved, recv |-> shadow.recv, moving |-> moving,
                     time |-> time, on |-> shadow.on, seen |-> shadow.seen]
      BY <1>1, <2>3, <3>1, <3>2, <3>3 DEF Mov!Led
    <3>5. time \in Nat /\ place \in Int /\ moving \in BOOLEAN
      <4>1. time \in Nat
        BY <1>0, <1>1, <3>1
      <4> QED BY <1>1, <3>2, <3>3, <4>1, MovArrives
    <3>6. moving \/ place = shadow.recv
      <4>1. ASSUME ~moving
            PROVE  time = Steps
        <5>1. ~(shadow.time + delta <= Steps)
          BY <3>3, <4>1, Zenon
        <5> QED BY <1>0, <1>1, <3>1, <5>1
      <4> QED BY <1>1, <3>2, <4>1, MovArrives
    <3>7. shadow' \in MovShadow
      BY <1>1, <3>4, <3>5 DEF MovShadow
    <3>8. MovWay'
      BY <1>1, <2>1, <3>4, <3>6 DEF MovWay
    <3> QED BY <1>9, <2>1, <3>4, <3>7, <3>8 DEF MovTyped
  <2> QED BY <1>10, <2>2, <2>3 DEF Mov!_UpdateTransform
<1>11. CASE Mov!PlayDisableSyncTimer
  <2>1. /\ UNCHANGED <<kind, up, down, relayed, last>> /\ kind = "location"
        /\ \E place \in Places :
             \/ mover' = [mover EXCEPT !.at = place, !.on = FALSE] /\ shadow' = shadow
             \/ shadow' = [shadow EXCEPT !.at = place, !.on = FALSE, !.seen = 0] /\ mover' = mover
    BY <1>11 DEF Mov!PlayDisableSyncTimer
  <2>2. PICK place \in Places :
             \/ mover' = [mover EXCEPT !.at = place, !.on = FALSE] /\ shadow' = shadow
             \/ shadow' = [shadow EXCEPT !.at = place, !.on = FALSE, !.seen = 0] /\ mover' = mover
    BY <2>1
  <2>3. CASE mover' = [mover EXCEPT !.at = place, !.on = FALSE] /\ shadow' = shadow
    BY <1>1, <2>3, <1>0, <1>2, <2>1
  <2>4. CASE shadow' = [shadow EXCEPT !.at = place, !.on = FALSE, !.seen = 0] /\ mover' = mover
    <3>1. shadow' = [at |-> place, saved |-> shadow.saved, recv |-> shadow.recv, moving |-> shadow.moving,
                     time |-> shadow.time, on |-> FALSE, seen |-> 0]
      BY <1>1, <2>4
    <3>2. shadow' \in MovShadow /\ shadow'.seen = 0
      BY <1>0, <1>1, <3>1 DEF MovShadow
    <3>3. MovWay'
      BY <1>1, <2>1, <3>2 DEF MovWay
    <3>4. UNCHANGED <<kind, mover, up, down, relayed, last>> /\ shadow'.seen <= last
      BY <1>1, <2>1, <2>4, <3>2
    <3> QED BY <1>9, <3>2, <3>3, <3>4
  <2> QED BY SMTT(60), <2>2, <2>3, <2>4
<1>12. CASE Mov!_OnDisableSyncEnd
  <2>1. CASE mover' = [mover EXCEPT !.on = TRUE] /\ shadow' = shadow
    BY <1>1, <2>1, <1>2, <1>12 DEF Mov!_OnDisableSyncEnd
  <2>2. CASE shadow' = [shadow EXCEPT !.on = TRUE] /\ mover' = mover
    <3>1. shadow' = [at |-> shadow.at, saved |-> shadow.saved, recv |-> shadow.recv, moving |-> shadow.moving,
                     time |-> shadow.time, on |-> TRUE, seen |-> shadow.seen]
      BY <1>1, <2>2
    <3>2. shadow' \in MovShadow /\ shadow'.seen = shadow.seen /\ shadow'.on
      BY <1>1, <3>1 DEF MovShadow
    <3>3. UNCHANGED <<kind, up, down, relayed, last>>
      BY <1>12 DEF Mov!_OnDisableSyncEnd
    <3>4. MovWay'
      BY <2>2, <3>1, <3>3 DEF MovWay
    <3> QED BY <1>9, <2>2, <3>2, <3>3, <3>4 DEF MovTyped
  <2> QED BY <1>12, <2>1, <2>2 DEF Mov!_OnDisableSyncEnd
<1>13. CASE UNCHANGED Mov!vars
  BY <1>13 DEF Mov!vars, MovTyped, MovTold, MovTells, MovWay
<1> QED BY <1>3, <1>4, <1>5, <1>6, <1>7, <1>8, <1>10, <1>11, <1>12, <1>13 DEF Mov!Next

\* The last place has arrived: the actor is at the end of its way, or moved there at once.
LEMMA MovHolds == MovGood => Mov!Follows
<1> SUFFICES ASSUME MovGood, Mov!Quiet, last > 0, shadow.seen = last
             PROVE  Mov!Distance(shadow.at, mover.at) <= Gap
  BY DEF Mov!Follows
<1>1. Gap \in Nat
  BY ClientAssumption DEF ClientAssumption, Mov!TransformsAssumption
<1>2. mover.at \in Int /\ mover.saved \in Int /\ shadow.at \in Int
  BY DEF MovGood, MovTyped, MovMover, MovShadow
<1>3. shadow.at = mover.saved
  BY DEF MovGood, MovWay, Mov!Quiet
<1> QED BY <1>1, <1>2, <1>3 DEF Mov!Quiet, Mov!Distance

(***************************************************************************)
(* The objects of a game on both machines (Replication).                   *)
(***************************************************************************)
\* Messages about object o: values, calls that know the value they were made with, and the order
\* that gives away the authority.
RepSync(q, i, o) == q[i].object = o /\ q[i].kind = "sync"
RepCall(q, i, o) == q[i].object = o /\ q[i].kind = "call" /\ q[i].arg # -1
RepOrder(q, i, o) == q[i].object = o /\ q[i].kind = "authority"

\* Who has value v has value e when the first n messages of q have come.
RepAfter(q, n, o, v, e) ==
    \/ e = v /\ \A i \in 1 .. n : ~RepSync(q, i, o)
    \/ \E j \in 1 .. n : RepSync(q, j, o) /\ q[j].arg = e /\ \A h \in j + 1 .. n : ~RepSync(q, h, o)

\* Each call finds the value it was made with.
RepRuns(q, o, v) == \A i \in 1 .. Len(q) : RepCall(q, i, o) => RepAfter(q, i - 1, o, v, q[i].arg)
RepSilent(q, o) == \A i \in 1 .. Len(q) : ~RepSync(q, i, o) /\ ~RepCall(q, i, o)

\* The master gives an object away once (p), to a; the slave takes b for its owner.
RepOwned(o, p, a, b, q0, q1) ==
    /\ b \in {0, a} /\ (~p => a = 0)
    /\ \A i \in 1 .. Len(q0) : ~RepOrder(q0, i, o)
    /\ \A i \in 1 .. Len(q1) : RepOrder(q1, i, o) => p /\ q1[i].arg = a
    /\ b # a => \E i \in 1 .. Len(q1) : RepOrder(q1, i, o)

\* The owner is sent no values; the other machine will have the owner's.  What is sent to the slave
\* after it was made the owner is nothing but calls.
RepEnds(q, o, v, e) == RepRuns(q, o, v) /\ RepAfter(q, Len(q), o, v, e)
RepLeft(q, o) ==
    \A i \in 1 .. Len(q) : RepOrder(q, i, o) => \A j \in i + 1 .. Len(q) : ~RepSync(q, j, o) /\ ~RepCall(q, j, o)
RepValued(o, a, b, v0, v1, q0, q1) ==
    IF b = 1 THEN RepEnds(q0, o, v0, v1) /\ RepSilent(q1, o)
    ELSE RepEnds(q1, o, v1, v0) /\ RepSilent(q0, o) /\ (a = 1 => RepLeft(q1, o))

RepFine(ordered, w0, w1, q0, q1) ==
    \A o \in Object :
        /\ RepOwned(o, o \in w0.player, w0.authority[o], w1.authority[o], q0, q1)
        /\ ordered => RepValued(o, w0.authority[o], w1.authority[o], w0.value[o], w1.value[o], q0, q1)

\* What is saved waits for an object that is not there, or stopped.
RepResting(w) == \A i \in 1 .. Len(w.saved) : w.saved[i].object \notin w.begun \ w.stopped

RepKinds == {"sync", "call", "destroy", "authority"}
RepMsg == [kind : RepKinds, object : Object, arg : Int]
RepMachine == [begun : SUBSET Object, stopped : SUBSET Object, player : SUBSET Object, odd : BOOLEAN,
               saved : Seq(RepMsg), value : [Object -> Int], authority : [Object -> Int]]

\* r is q without message k.
RepDrop(q, k, r) ==
    /\ r \in Seq(RepMsg) /\ Len(r) = Len(q) - 1
    /\ \A i \in 1 .. Len(q) - 1 : r[i] = IF i < k THEN q[i] ELSE q[i + 1]

\* A message taken out changes nothing for those before it.
LEMMA RepDropsBefore ==
    ASSUME NEW q \in Seq(RepMsg), NEW k \in 1 .. Len(q), NEW r, RepDrop(q, k, r), NEW o, NEW v, NEW e,
           NEW n \in 0 .. Len(q), n < k, RepAfter(q, n, o, v, e)
    PROVE  RepAfter(r, n, o, v, e)
<1>1. Len(q) \in Nat /\ \A i \in 1 .. n : r[i] = q[i]
  BY DEF RepDrop
<1> QED BY <1>1 DEF RepAfter, RepSync

\* Those after it find the value it brought, or the one there was.
LEMMA RepDropsAfter ==
    ASSUME NEW q \in Seq(RepMsg), NEW k \in 1 .. Len(q), NEW r, RepDrop(q, k, r), NEW o, NEW v, NEW e,
           NEW n \in k .. Len(q), RepAfter(q, n, o, v, e)
    PROVE  /\ ~RepSync(q, k, o) => RepAfter(r, n - 1, o, v, e)
           /\ RepSync(q, k, o) /\ (\A i \in 1 .. k - 1 : ~RepSync(q, i, o)) => RepAfter(r, n - 1, o, q[k].arg, e)
<1>1. /\ Len(q) \in Nat /\ k \in Nat /\ n \in Nat /\ k >= 1 /\ k <= n
      /\ \A i \in 1 .. n - 1 : i < k => r[i] = q[i]
      /\ \A i \in 1 .. n - 1 : ~(i < k) => r[i] = q[i + 1]
  BY DEF RepDrop
<1>2. \A i \in 1 .. n - 1 : /\ i < k => (RepSync(r, i, o) <=> RepSync(q, i, o))
                            /\ ~(i < k) => (RepSync(r, i, o) <=> RepSync(q, i + 1, o))
  BY <1>1 DEF RepSync
<1>3. CASE e = v /\ \A i \in 1 .. n : ~RepSync(q, i, o)
  BY <1>1, <1>2, <1>3 DEF RepAfter
<1>4. ASSUME NEW j \in 1 .. n, RepSync(q, j, o), q[j].arg = e, \A h \in j + 1 .. n : ~RepSync(q, h, o)
      PROVE  /\ ~RepSync(q, k, o) => RepAfter(r, n - 1, o, v, e)
             /\ RepSync(q, k, o) /\ (\A i \in 1 .. k - 1 : ~RepSync(q, i, o)) => RepAfter(r, n - 1, o, q[k].arg, e)
  <2>1. CASE j < k
    BY <1>1, <1>4, <2>1, <1>2 DEF RepAfter
  <2>2. CASE j = k
    <3>1. ASSUME \A i \in 1 .. k - 1 : ~RepSync(q, i, o)
          PROVE  \A i \in 1 .. n - 1 : ~RepSync(r, i, o)
      BY <1>1, <1>2, <1>4, <2>2, <3>1
    <3> QED BY <1>4, <2>2, <3>1 DEF RepAfter
  <2>3. CASE j > k
    <3>1. j - 1 \in 1 .. n - 1 /\ ~(j - 1 < k) /\ (j - 1) + 1 = j
      BY <1>1, <2>3
    <3>2. RepSync(r, j - 1, o) /\ r[j - 1].arg = e
      BY <1>1, <1>2, <1>4, <3>1
    <3>3. \A h \in (j - 1) + 1 .. n - 1 : h \in 1 .. n - 1 /\ ~(h < k) /\ h + 1 \in j + 1 .. n
      BY <1>1, <2>3
    <3>4. \A h \in (j - 1) + 1 .. n - 1 : ~RepSync(r, h, o)
      BY <1>2, <1>4, <3>3
    <3> QED BY <3>1, <3>2, <3>4 DEF RepAfter
  <2> QED BY <1>1, <2>1, <2>2, <2>3
<1> QED BY <1>3, <1>4 DEF RepAfter

\* The first message about an object is taken, and what is left runs from there.
LEMMA RepTakesFirst ==
    ASSUME NEW q \in Seq(RepMsg), NEW k \in 1 .. Len(q), NEW r, RepDrop(q, k, r), NEW o, NEW v, NEW e,
           RepEnds(q, o, v, e), \A i \in 1 .. k - 1 : q[i].object # o
    PROVE  /\ ~RepSync(q, k, o) => RepEnds(r, o, v, e)
           /\ RepSync(q, k, o) => RepEnds(r, o, q[k].arg, e)
           /\ RepCall(q, k, o) => q[k].arg = v
<1>1. /\ Len(q) \in Nat /\ k \in Nat /\ k >= 1 /\ k <= Len(q) /\ Len(r) = Len(q) - 1
      /\ \A i \in 1 .. Len(r) : /\ i < k => r[i] = q[i]
                                /\ ~(i < k) => r[i] = q[i + 1]
  BY DEF RepDrop
<1>2. \A i \in 1 .. k - 1 : ~RepSync(q, i, o) /\ ~RepCall(q, i, o)
  BY DEF RepSync, RepCall
<1>3. RepCall(q, k, o) => q[k].arg = v
  BY <1>2 DEF RepEnds, RepRuns, RepAfter
<1>4. /\ ~RepSync(q, k, o) => RepAfter(r, Len(r), o, v, e)
      /\ RepSync(q, k, o) => RepAfter(r, Len(r), o, q[k].arg, e)
  BY <1>1, <1>2, RepDropsAfter DEF RepEnds
<1>5. ASSUME NEW i \in 1 .. Len(r), RepCall(r, i, o)
      PROVE  /\ ~RepSync(q, k, o) => RepAfter(r, i - 1, o, v, r[i].arg)
             /\ RepSync(q, k, o) => RepAfter(r, i - 1, o, q[k].arg, r[i].arg)
  <2>1. ~(i < k)
    <3> SUFFICES ASSUME i < k PROVE FALSE
      OBVIOUS
    <3>1. i \in 1 .. k - 1 /\ r[i] = q[i]
      BY <1>1
    <3> QED BY <1>2, <1>5, <3>1 DEF RepCall
  <2>2. i + 1 \in 1 .. Len(q) /\ i \in k .. Len(q) /\ r[i] = q[i + 1] /\ (i + 1) - 1 = i
    BY <1>1, <2>1
  <2>3. RepAfter(q, i, o, v, r[i].arg)
    BY <1>5, <2>2 DEF RepEnds, RepRuns, RepCall
  <2> QED BY <1>2, <2>2, <2>3, RepDropsAfter
<1> QED BY <1>3, <1>4, <1>5 DEF RepEnds, RepRuns

\* A message about another object is taken.
LEMMA RepTakesOther ==
    ASSUME NEW q \in Seq(RepMsg), NEW k \in 1 .. Len(q), NEW r, RepDrop(q, k, r), NEW o, NEW v, NEW e,
           RepEnds(q, o, v, e), q[k].object # o
    PROVE  RepEnds(r, o, v, e)
<1>1. /\ Len(q) \in Nat /\ k \in Nat /\ k >= 1 /\ k <= Len(q) /\ Len(r) = Len(q) - 1
      /\ \A i \in 1 .. Len(r) : /\ i < k => r[i] = q[i]
                                /\ ~(i < k) => r[i] = q[i + 1]
  BY DEF RepDrop
<1>2. ~RepSync(q, k, o)
  BY DEF RepSync
<1>3. RepAfter(r, Len(r), o, v, e)
  BY <1>1, <1>2, RepDropsAfter DEF RepEnds
<1>4. ASSUME NEW i \in 1 .. Len(r), RepCall(r, i, o)
      PROVE  RepAfter(r, i - 1, o, v, r[i].arg)
  <2>1. CASE i < k
    BY <1>1, <2>1, <1>4, RepDropsBefore DEF RepEnds, RepRuns, RepCall
  <2>2. CASE ~(i < k)
    BY <1>1, <2>2, <1>4, <1>2, RepDropsAfter DEF RepEnds, RepRuns, RepCall
  <2> QED BY <2>1, <2>2
<1> QED BY <1>3, <1>4 DEF RepEnds, RepRuns

\* What does not depend on the order of messages.
LEMMA RepDropsAny ==
    ASSUME NEW q \in Seq(RepMsg), NEW k \in 1 .. Len(q), NEW r, RepDrop(q, k, r), NEW o
    PROVE  /\ \A i \in 1 .. Len(r) : \E j \in 1 .. Len(q) : r[i] = q[j]
           /\ \A j \in 1 .. Len(q) : j # k => \E i \in 1 .. Len(r) : r[i] = q[j]
           /\ RepSilent(q, o) => RepSilent(r, o)
           /\ RepLeft(q, o) => RepLeft(r, o)
<1>1. /\ Len(q) \in Nat /\ k \in Nat /\ k >= 1 /\ k <= Len(q) /\ Len(r) = Len(q) - 1
      /\ \A i \in 1 .. Len(r) : /\ i < k => r[i] = q[i]
                                /\ ~(i < k) => r[i] = q[i + 1]
  BY DEF RepDrop
<1>2. \A i \in 1 .. Len(r) : \E j \in 1 .. Len(q) : r[i] = q[j]
  <2>1. \A i \in 1 .. Len(r) : i \in 1 .. Len(q) /\ i + 1 \in 1 .. Len(q)
    BY <1>1
  <2> QED BY <1>1, <2>1
<1>3. ASSUME NEW j \in 1 .. Len(q), j # k
      PROVE  \E i \in 1 .. Len(r) : r[i] = q[j]
  <2>1. CASE j < k
    BY <1>1, <2>1
  <2>2. CASE ~(j < k)
    <3>1. j - 1 \in 1 .. Len(r) /\ ~(j - 1 < k) /\ (j - 1) + 1 = j
      BY <1>1, <1>3, <2>2
    <3>2. r[j - 1] = q[j]
      BY <1>1, <3>1
    <3> QED BY <3>1, <3>2
  <2> QED BY <2>1, <2>2
<1>4. RepSilent(q, o) => RepSilent(r, o)
  BY <1>2 DEF RepSilent, RepSync, RepCall
<1>5. ASSUME RepLeft(q, o), NEW i \in 1 .. Len(r), RepOrder(r, i, o), NEW j \in i + 1 .. Len(r)
      PROVE  ~RepSync(r, j, o) /\ ~RepCall(r, j, o)
  <2>1. PICK a \in 1 .. Len(q) : a = IF i < k THEN i ELSE i + 1
    BY <1>1
  <2>2. PICK b \in 1 .. Len(q) : b = IF j < k THEN j ELSE j + 1
    BY <1>1
  <2>3. b \in a + 1 .. Len(q)
    BY <1>1, <2>1, <2>2
  <2>4. r[i] = q[a] /\ r[j] = q[b]
    BY <1>1, <2>1, <2>2
  <2>5. ~RepSync(q, b, o) /\ ~RepCall(q, b, o)
    BY <1>5, <2>1, <2>3, <2>4 DEF RepLeft, RepOrder
  <2> QED BY <2>4, <2>5 DEF RepSync, RepCall
<1> QED BY <1>2, <1>3, <1>4, <1>5 DEF RepLeft

\* Whoever hears nothing keeps its value, and has the value of the owner when no value is under way.
LEMMA RepSays ==
    ASSUME NEW q \in Seq(RepMsg), NEW o, NEW v, NEW e
    PROVE  /\ RepSilent(q, o) => RepEnds(q, o, v, v)
           /\ RepEnds(q, o, v, e) /\ (\A i \in 1 .. Len(q) : ~RepSync(q, i, o)) => e = v
  BY DEF RepSilent, RepEnds, RepRuns, RepAfter

\* t is q with a message behind it.
RepAdd(q, msg, t) ==
    /\ t \in Seq(RepMsg) /\ Len(t) = Len(q) + 1
    /\ \A i \in 1 .. Len(q) : t[i] = q[i]
    /\ t[Len(q) + 1] = msg

\* What a message sent at the end of a queue adds to what the queue means.
LEMMA RepAdds ==
    ASSUME NEW q \in Seq(RepMsg), NEW msg, NEW t, RepAdd(q, msg, t), NEW o, NEW v, NEW e
    PROVE  /\ \A i \in 1 .. Len(t) : t[i] = msg \/ \E j \in 1 .. Len(q) : t[i] = q[j]
           /\ \A i \in 1 .. Len(q) : i \in 1 .. Len(t) /\ t[i] = q[i]
           /\ Len(t) \in 1 .. Len(t) /\ t[Len(t)] = msg
           /\ msg.object # o \/ msg.kind \notin {"sync", "call"} \/ (msg.kind = "call" /\ msg.arg = -1) =>
                /\ RepSilent(q, o) => RepSilent(t, o)
                /\ RepLeft(q, o) => RepLeft(t, o)
           /\ RepEnds(q, o, v, e) =>
                /\ msg.object # o \/ msg.kind # "sync" =>
                     ((msg.object = o /\ msg.kind = "call" => msg.arg \in {-1, e}) => RepEnds(t, o, v, e))
                /\ msg.object = o /\ msg.kind = "sync" => RepEnds(t, o, v, msg.arg)
<1>1. /\ Len(q) \in Nat /\ Len(t) = Len(q) + 1 /\ \A i \in 1 .. Len(q) : t[i] = q[i] /\ i \in 1 .. Len(t)
      /\ t[Len(t)] = msg /\ Len(t) \in 1 .. Len(t)
      /\ \A i \in 1 .. Len(t) : i = Len(t) \/ i \in 1 .. Len(q)
  BY DEF RepAdd
<1>2. \A i \in 1 .. Len(q) : /\ RepSync(t, i, o) <=> RepSync(q, i, o)
                             /\ RepCall(t, i, o) <=> RepCall(q, i, o)
                             /\ RepOrder(t, i, o) <=> RepOrder(q, i, o)
  BY <1>1 DEF RepSync, RepCall, RepOrder
<1>3. ASSUME NEW n \in 0 .. Len(q), NEW f, RepAfter(q, n, o, v, f)
      PROVE  RepAfter(t, n, o, v, f)
  <2>1. \A i \in 1 .. n : i \in 1 .. Len(q)
    BY <1>1
  <2>2. CASE f = v /\ \A i \in 1 .. n : ~RepSync(q, i, o)
    BY <1>2, <2>1, <2>2 DEF RepAfter
  <2>3. ASSUME NEW j \in 1 .. n, RepSync(q, j, o), q[j].arg = f, \A h \in j + 1 .. n : ~RepSync(q, h, o)
        PROVE  RepAfter(t, n, o, v, f)
    BY <1>1, <1>2, <2>1, <2>3 DEF RepAfter
  <2> QED BY <1>3, <2>2, <2>3 DEF RepAfter
<1>4. ASSUME msg.object # o \/ msg.kind \notin {"sync", "call"} \/ (msg.kind = "call" /\ msg.arg = -1)
      PROVE  /\ RepSilent(q, o) => RepSilent(t, o)
             /\ RepLeft(q, o) => RepLeft(t, o)
  <2>1. ~RepSync(t, Len(t), o) /\ ~RepCall(t, Len(t), o)
    BY <1>1, <1>4 DEF RepSync, RepCall
  <2>2. RepSilent(q, o) => RepSilent(t, o)
    BY <1>1, <1>2, <2>1 DEF RepSilent
  <2>3. ASSUME RepLeft(q, o), NEW i \in 1 .. Len(t), RepOrder(t, i, o), NEW j \in i + 1 .. Len(t)
        PROVE  ~RepSync(t, j, o) /\ ~RepCall(t, j, o)
    BY <2>1, <1>1, <1>2, <2>3 DEF RepLeft
  <2> QED BY <2>2, <2>3 DEF RepLeft
<1>5. ASSUME RepEnds(q, o, v, e), msg.object # o \/ msg.kind # "sync",
             msg.object = o /\ msg.kind = "call" => msg.arg \in {-1, e}
      PROVE  RepEnds(t, o, v, e)
  <2>1. ~RepSync(t, Len(t), o)
    BY <1>1, <1>5 DEF RepSync
  <2>2. Len(q) \in 0 .. Len(q) /\ RepAfter(t, Len(q), o, v, e)
    BY <1>1, <1>3, <1>5 DEF RepEnds
  <2>3. RepAfter(t, Len(t), o, v, e)
    <3>1. CASE e = v /\ \A i \in 1 .. Len(q) : ~RepSync(t, i, o)
      BY <1>1, <2>1, <3>1 DEF RepAfter
    <3>2. ASSUME NEW j \in 1 .. Len(q), RepSync(t, j, o), t[j].arg = e, \A h \in j + 1 .. Len(q) : ~RepSync(t, h, o)
          PROVE  RepAfter(t, Len(t), o, v, e)
      BY <1>1, <2>1, <3>2 DEF RepAfter
    <3> QED BY <2>2, <3>1, <3>2 DEF RepAfter
  <2>4. ASSUME NEW i \in 1 .. Len(t), RepCall(t, i, o)
        PROVE  RepAfter(t, i - 1, o, v, t[i].arg)
    BY <1>1, <1>5, <2>4, <2>2, <1>2, <1>3 DEF RepCall, RepEnds, RepRuns
  <2> QED BY <2>3, <2>4 DEF RepEnds, RepRuns
<1>6. ASSUME RepEnds(q, o, v, e), msg.object = o, msg.kind = "sync"
      PROVE  RepEnds(t, o, v, msg.arg)
  <2>1. RepSync(t, Len(t), o) /\ t[Len(t)].arg = msg.arg /\ ~RepCall(t, Len(t), o)
    BY <1>1, <1>6 DEF RepSync, RepCall
  <2>2. RepAfter(t, Len(t), o, v, msg.arg)
    BY <1>1, <2>1 DEF RepAfter
  <2>3. ASSUME NEW i \in 1 .. Len(t), RepCall(t, i, o)
        PROVE  RepAfter(t, i - 1, o, v, t[i].arg)
    BY <1>1, <2>1, <2>3, <1>2, <1>6, <1>3 DEF RepEnds, RepRuns
  <2> QED BY <2>2, <2>3 DEF RepEnds, RepRuns
<1>7. \A i \in 1 .. Len(t) : t[i] = msg \/ \E j \in 1 .. Len(q) : t[i] = q[j]
  BY <1>1
<1> QED BY <1>1, <1>4, <1>5, <1>6, <1>7

\* A message is executed: u is what w becomes.
RepExecuted(m, w, msg, u) ==
    /\ u \in RepMachine /\ u.begun \subseteq w.begun /\ u.stopped = w.stopped /\ u.saved = w.saved
    /\ \A o \in Object : o # msg.object =>
         (o \in u.player <=> o \in w.player) /\ u.authority[o] = w.authority[o] /\ u.value[o] = w.value[o]
    /\ msg.kind = "sync" =>
         /\ u.player = w.player /\ u.authority = w.authority /\ u.odd = w.odd
         /\ u.value[msg.object] = IF IF msg.object \in w.player THEN w.authority[msg.object] = m ELSE m = 0
                                  THEN w.value[msg.object] ELSE msg.arg
    /\ msg.kind = "call" =>
         /\ u.player = w.player /\ u.authority = w.authority /\ u.value = w.value
         /\ u.odd <=> w.odd \/ msg.arg \notin {-1, w.value[msg.object]}
    /\ msg.kind = "destroy" => /\ u.player = w.player /\ u.authority = w.authority
                               /\ u.value = w.value /\ u.odd = w.odd
    /\ msg.kind = "authority" => /\ msg.object \in u.player /\ u.authority[msg.object] = msg.arg
                                 /\ u.value = w.value /\ u.odd = w.odd

\* What executing a message does to the machine.
LEMMA RepExecutes ==
    ASSUME NEW m \in Rep!Slot, NEW w \in RepMachine, NEW msg \in RepMsg, NEW u, u = Rep!Execute(m, w, msg)
    PROVE  RepExecuted(m, w, msg, u)
<1> DEFINE x == msg.object
<1>1. msg.kind \in RepKinds /\ x \in Object /\ msg.arg \in Int
  BY DEF RepMsg
<1>2. /\ w.begun \in SUBSET Object /\ w.stopped \in SUBSET Object /\ w.player \in SUBSET Object /\ w.odd \in BOOLEAN
      /\ w.saved \in Seq(RepMsg) /\ w.value \in [Object -> Int] /\ w.authority \in [Object -> Int]
      /\ w = [begun |-> w.begun, stopped |-> w.stopped, player |-> w.player, odd |-> w.odd, saved |-> w.saved,
              value |-> w.value, authority |-> w.authority]
  BY DEF RepMachine
<1>3. ASSUME NEW begun \in SUBSET Object, NEW player \in SUBSET Object, NEW odd \in BOOLEAN,
             NEW value \in [Object -> Int], NEW authority \in [Object -> Int],
             u = [begun |-> begun, stopped |-> w.stopped, player |-> player, odd |-> odd, saved |-> w.saved,
                  value |-> value, authority |-> authority]
      PROVE  /\ u \in RepMachine /\ u.begun = begun /\ u.stopped = w.stopped /\ u.saved = w.saved
             /\ u.player = player /\ u.odd = odd /\ u.value = value /\ u.authority = authority
  BY <1>2, <1>3 DEF RepMachine
<1> HIDE DEF x
<1>4. CASE msg.kind = "sync"
  <2>1. u = Rep!RecvSyncVar(m, w, msg)
    BY <1>4 DEF Rep!Execute
  <2>2. CASE IF x \in w.player THEN w.authority[x] = m ELSE m = 0
    BY <2>1, <2>2, <1>4 DEF Rep!RecvSyncVar, Rep!HasAuthority, x, RepExecuted
  <2>3. CASE ~(IF x \in w.player THEN w.authority[x] = m ELSE m = 0)
    <3>1. u = [w EXCEPT !.value[x] = msg.arg]
      BY <2>1, <2>3 DEF Rep!RecvSyncVar, Rep!HasAuthority, x
    <3>2. PICK value : value = [w.value EXCEPT ![x] = msg.arg]
      OBVIOUS
    <3>3. u = [begun |-> w.begun, stopped |-> w.stopped, player |-> w.player, odd |-> w.odd, saved |-> w.saved,
               value |-> value, authority |-> w.authority]
      BY <1>2, <3>1, <3>2
    <3>4. value \in [Object -> Int]
      BY <1>1, <1>2, <3>2
    <3>5. /\ u \in RepMachine /\ u.begun = w.begun /\ u.stopped = w.stopped /\ u.saved = w.saved
          /\ u.player = w.player /\ u.odd = w.odd /\ u.value = value /\ u.authority = w.authority
      BY <1>2, <1>3, <3>3, <3>4
    <3>6. value[x] = msg.arg /\ \A o \in Object : o # x => value[o] = w.value[o]
      BY <1>1, <1>2, <3>2
    <3> QED BY <1>4, <2>3, <3>5, <3>6 DEF x, RepExecuted
  <2> QED BY <2>2, <2>3
<1>5. CASE msg.kind = "call"
  <2>1. u = Rep!Body(w, msg)
    BY <1>5 DEF Rep!Execute
  <2>2. ASSUME NEW odd \in BOOLEAN, odd = (w.odd \/ msg.arg \notin {-1, w.value[x]}),
               u = [w EXCEPT !.odd = odd]
        PROVE  /\ u \in RepMachine /\ u.begun = w.begun /\ u.stopped = w.stopped /\ u.saved = w.saved
               /\ u.player = w.player /\ u.odd = odd /\ u.value = w.value /\ u.authority = w.authority
    <3>1. u = [begun |-> w.begun, stopped |-> w.stopped, player |-> w.player, odd |-> odd, saved |-> w.saved,
               value |-> w.value, authority |-> w.authority]
      BY <1>2, <2>2
    <3> QED BY <1>2, <1>3, <2>2, <3>1
  <2>3. CASE w.odd \/ msg.arg \notin {-1, w.value[x]}
    BY <1>2, <2>1, <2>3, <2>2, <1>5 DEF Rep!Body, x, RepExecuted
  <2>4. CASE ~(w.odd \/ msg.arg \notin {-1, w.value[x]})
    BY <1>2, <2>1, <2>4, <2>2, <1>5 DEF Rep!Body, x, RepExecuted
  <2> QED BY <2>3, <2>4
<1>6. CASE msg.kind = "destroy"
  <2>1. u = Rep!DestroyBody(w, x)
    BY <1>6 DEF Rep!Execute, x
  <2>2. PICK begun : begun = w.begun \ {x}
    OBVIOUS
  <2>3. u = [begun |-> begun, stopped |-> w.stopped, player |-> w.player, odd |-> w.odd, saved |-> w.saved,
             value |-> w.value, authority |-> w.authority]
    BY <1>2, <2>1, <2>2 DEF Rep!DestroyBody, Rep!RemoveObject
  <2>4. begun \in SUBSET Object /\ begun \subseteq w.begun
    BY <1>2, <2>2
  <2>5. /\ u \in RepMachine /\ u.begun = begun /\ u.stopped = w.stopped /\ u.saved = w.saved
        /\ u.player = w.player /\ u.odd = w.odd /\ u.value = w.value /\ u.authority = w.authority
    BY <1>2, <1>3, <2>3, <2>4
  <2> QED BY <1>6, <2>4, <2>5 DEF x, RepExecuted
<1>7. CASE msg.kind = "authority"
  <2>1. u = Rep!SetAuthorityBody(w, x, msg.arg)
    BY <1>7 DEF Rep!Execute, x
  <2>2. PICK authority : authority = [w.authority EXCEPT ![x] = msg.arg]
    OBVIOUS
  <2>3. PICK player : player = w.player \cup {x}
    OBVIOUS
  <2>4. u = [begun |-> w.begun, stopped |-> w.stopped, player |-> player, odd |-> w.odd, saved |-> w.saved,
             value |-> w.value, authority |-> authority]
    BY <1>2, <2>1, <2>2, <2>3 DEF Rep!SetAuthorityBody
  <2>5. /\ player \in SUBSET Object /\ authority \in [Object -> Int]
        /\ x \in player /\ \A o \in Object : o # x => (o \in player <=> o \in w.player)
    BY <1>1, <1>2, <2>2, <2>3
  <2>6. /\ u \in RepMachine /\ u.begun = w.begun /\ u.stopped = w.stopped /\ u.saved = w.saved
        /\ u.player = player /\ u.odd = w.odd /\ u.value = w.value /\ u.authority = authority
    BY <1>2, <1>3, <2>4, <2>5
  <2>7. authority[x] = msg.arg /\ \A o \in Object : o # x => authority[o] = w.authority[o]
    BY <1>1, <1>2, <2>2
  <2> QED BY <1>7, <2>5, <2>6, <2>7 DEF x, RepExecuted
<1> QED BY <1>1, <1>4, <1>5, <1>6, <1>7 DEF RepKinds, RepExecuted

\* The master takes the first message about its object.
LEMMA RepTakesMaster ==
    ASSUME NEW ordered \in BOOLEAN, NEW w0 \in RepMachine, NEW w1 \in RepMachine, NEW q0 \in Seq(RepMsg),
           NEW q1 \in Seq(RepMsg), NEW k \in 1 .. Len(q0), NEW r, RepDrop(q0, k, r),
           NEW u, u = Rep!Execute(0, w0, q0[k]), \A i \in 1 .. k - 1 : q0[i].object # q0[k].object,
           RepFine(ordered, w0, w1, q0, q1)
    PROVE  RepFine(ordered, u, w1, r, q1) /\ (ordered /\ ~w0.odd => ~u.odd)
<1> DEFINE x == q0[k].object
<1>1. q0[k] \in RepMsg /\ q0[k].kind \in RepKinds /\ x \in Object
  <2>1. q0[k] \in RepMsg
    OBVIOUS
  <2> QED BY <2>1 DEF RepMsg
<1>2. \A o \in Object : RepOwned(o, o \in w0.player, w0.authority[o], w1.authority[o], q0, q1)
  BY DEF RepFine
<1>3. q0[k].kind # "authority"
  BY <1>1, <1>2 DEF RepOwned, RepOrder
<1>4. /\ u.player = w0.player /\ u.authority = w0.authority
      /\ \A o \in Object : o # x => u.value[o] = w0.value[o]
      /\ q0[k].kind = "sync" =>
           /\ u.odd = w0.odd
           /\ u.value[x] = IF IF x \in w0.player THEN w0.authority[x] = 0 ELSE 0 = 0
                           THEN w0.value[x] ELSE q0[k].arg
      /\ q0[k].kind = "call" => /\ u.value = w0.value
                                /\ u.odd <=> w0.odd \/ q0[k].arg \notin {-1, w0.value[x]}
      /\ q0[k].kind = "destroy" => u.value = w0.value /\ u.odd = w0.odd
  <2>1. PICK msg \in RepMsg : msg = q0[k]
    BY <1>1
  <2>2. 0 \in Rep!Slot /\ u = Rep!Execute(0, w0, msg)
    BY <2>1 DEF Rep!Slot
  <2>3. RepExecuted(0, w0, msg, u)
    BY <2>2, RepExecutes
  <2>4. msg.kind = "sync" \/ msg.kind = "call" \/ msg.kind = "destroy"
    BY <1>1, <1>3, <2>1 DEF RepKinds
  <2>5. /\ \A o \in Object : o # msg.object => u.value[o] = w0.value[o]
        /\ msg.kind = "sync" =>
             /\ u.player = w0.player /\ u.authority = w0.authority /\ u.odd = w0.odd
             /\ u.value[msg.object] = IF IF msg.object \in w0.player THEN w0.authority[msg.object] = 0 ELSE 0 = 0
                                      THEN w0.value[msg.object] ELSE msg.arg
        /\ msg.kind = "call" =>
             /\ u.player = w0.player /\ u.authority = w0.authority /\ u.value = w0.value
             /\ u.odd <=> w0.odd \/ msg.arg \notin {-1, w0.value[msg.object]}
        /\ msg.kind = "destroy" => /\ u.player = w0.player /\ u.authority = w0.authority
                                   /\ u.value = w0.value /\ u.odd = w0.odd
    BY <2>3 DEF RepExecuted
  <2> QED BY <2>1, <2>4, <2>5
<1>5. /\ Len(r) = Len(q0) - 1 /\ r \in Seq(RepMsg)
      /\ \A i \in 1 .. Len(r) : \E j \in 1 .. Len(q0) : r[i] = q0[j]
      /\ \A o \in Object : RepSilent(q0, o) => RepSilent(r, o)
  <2>1. Len(r) = Len(q0) - 1 /\ r \in Seq(RepMsg)
    BY DEF RepDrop
  <2>2. \A i \in 1 .. Len(r) : \E j \in 1 .. Len(q0) : r[i] = q0[j]
    BY RepDropsAny
  <2> QED BY <2>1, <2>2, RepDropsAny
<1>6. ASSUME NEW o \in Object
      PROVE  RepOwned(o, o \in u.player, u.authority[o], w1.authority[o], r, q1)
  BY <1>2, <1>5, <1>4 DEF RepOwned, RepOrder
<1>7. ASSUME ordered, NEW o \in Object
      PROVE  /\ RepValued(o, u.authority[o], w1.authority[o], u.value[o], w1.value[o], r, q1)
             /\ o = x /\ ~w0.odd => ~u.odd
  <2>1. RepValued(o, w0.authority[o], w1.authority[o], w0.value[o], w1.value[o], q0, q1)
    BY <1>7 DEF RepFine
  <2>2. CASE w1.authority[o] = 1
    <3>1. RepEnds(q0, o, w0.value[o], w1.value[o]) /\ RepSilent(q1, o)
      BY <2>1, <2>2 DEF RepValued
    <3>2. CASE o # x
      BY <3>1, <3>2, RepTakesOther, <1>4, <2>2 DEF RepValued
    <3>3. CASE o = x
      <4>1. /\ ~RepSync(q0, k, x) => RepEnds(r, x, w0.value[x], w1.value[x])
            /\ RepSync(q0, k, x) => RepEnds(r, x, q0[k].arg, w1.value[x])
            /\ RepCall(q0, k, x) => q0[k].arg = w0.value[x]
        BY <3>1, <3>3, RepTakesFirst
      <4>2. x \in w0.player /\ w0.authority[x] = 1
        BY <1>2, <2>2, <3>3 DEF RepOwned
      <4>3. CASE q0[k].kind = "sync"
        BY <1>4, <4>2, <4>3, <2>2, <3>1, <3>3, <4>1 DEF RepSync, RepValued
      <4>4. CASE q0[k].kind # "sync"
        BY <1>1, <1>3, <1>4, <4>4, <4>1, <2>2, <3>1, <3>3 DEF RepSync, RepKinds, RepCall, RepValued
      <4> QED BY <4>3, <4>4
    <3> QED BY <3>2, <3>3
  <2>3. CASE w1.authority[o] # 1
    BY <2>1, <2>3, <1>1, <1>3, <1>4, <1>5 DEF RepValued, RepSilent, RepSync, RepKinds, RepCall
  <2> QED BY <2>2, <2>3
<1> QED BY <1>1, <1>6, <1>7 DEF RepFine

\* The slave takes the first message about its object.
LEMMA RepTakesSlave ==
    ASSUME NEW ordered \in BOOLEAN, NEW w0 \in RepMachine, NEW w1 \in RepMachine, NEW q0 \in Seq(RepMsg),
           NEW q1 \in Seq(RepMsg), NEW k \in 1 .. Len(q1), NEW r, RepDrop(q1, k, r),
           NEW u, u = Rep!Execute(1, w1, q1[k]), \A i \in 1 .. k - 1 : q1[i].object # q1[k].object,
           RepFine(ordered, w0, w1, q0, q1)
    PROVE  RepFine(ordered, w0, u, q0, r) /\ (ordered /\ ~w1.odd => ~u.odd)
<1> DEFINE x == q1[k].object
<1>1. q1[k] \in RepMsg /\ q1[k].kind \in RepKinds /\ x \in Object
  <2>1. q1[k] \in RepMsg
    OBVIOUS
  <2> QED BY <2>1 DEF RepMsg
<1>2. \A o \in Object : RepOwned(o, o \in w0.player, w0.authority[o], w1.authority[o], q0, q1)
  BY DEF RepFine
<1>3. /\ \A o \in Object : o # x => u.value[o] = w1.value[o] /\ u.authority[o] = w1.authority[o]
      /\ q1[k].kind = "sync" =>
           /\ u.odd = w1.odd /\ u.authority = w1.authority
           /\ w1.authority[x] # 1 => u.value[x] = q1[k].arg
      /\ q1[k].kind = "call" => /\ u.value = w1.value /\ u.authority = w1.authority
                                /\ u.odd <=> w1.odd \/ q1[k].arg \notin {-1, w1.value[x]}
      /\ q1[k].kind = "destroy" => u.value = w1.value /\ u.odd = w1.odd /\ u.authority = w1.authority
      /\ q1[k].kind = "authority" => u.value = w1.value /\ u.odd = w1.odd /\ u.authority[x] = q1[k].arg
  <2>1. PICK msg \in RepMsg : msg = q1[k]
    BY <1>1
  <2>2. 1 \in Rep!Slot /\ u = Rep!Execute(1, w1, msg)
    BY <2>1 DEF Rep!Slot
  <2>3. RepExecuted(1, w1, msg, u)
    BY <2>2, RepExecutes
  <2>4. /\ \A o \in Object : o # msg.object => u.value[o] = w1.value[o] /\ u.authority[o] = w1.authority[o]
        /\ msg.kind = "sync" =>
             /\ u.authority = w1.authority /\ u.odd = w1.odd
             /\ u.value[msg.object] = IF IF msg.object \in w1.player THEN w1.authority[msg.object] = 1 ELSE 1 = 0
                                      THEN w1.value[msg.object] ELSE msg.arg
        /\ msg.kind = "call" =>
             /\ u.authority = w1.authority /\ u.value = w1.value
             /\ u.odd <=> w1.odd \/ msg.arg \notin {-1, w1.value[msg.object]}
        /\ msg.kind = "destroy" => u.authority = w1.authority /\ u.value = w1.value /\ u.odd = w1.odd
        /\ msg.kind = "authority" => u.authority[msg.object] = msg.arg /\ u.value = w1.value /\ u.odd = w1.odd
    BY <2>3 DEF RepExecuted
  <2> QED BY <2>1, <2>4
<1>4. /\ Len(r) = Len(q1) - 1 /\ r \in Seq(RepMsg)
      /\ \A i \in 1 .. Len(r) : \E j \in 1 .. Len(q1) : r[i] = q1[j]
      /\ \A j \in 1 .. Len(q1) : j # k => \E i \in 1 .. Len(r) : r[i] = q1[j]
      /\ \A o \in Object : /\ RepSilent(q1, o) => RepSilent(r, o)
                           /\ RepLeft(q1, o) => RepLeft(r, o)
  <2>1. Len(r) = Len(q1) - 1 /\ r \in Seq(RepMsg)
    BY DEF RepDrop
  <2>2. /\ \A i \in 1 .. Len(r) : \E j \in 1 .. Len(q1) : r[i] = q1[j]
        /\ \A j \in 1 .. Len(q1) : j # k => \E i \in 1 .. Len(r) : r[i] = q1[j]
    BY SMTT(60), RepDropsAny
  <2> QED BY <2>1, <2>2, RepDropsAny
<1>5. q1[k].kind = "authority" => x \in w0.player /\ q1[k].arg = w0.authority[x]
  BY <1>1, <1>2 DEF RepOwned, RepOrder
<1>6. ASSUME NEW o \in Object
      PROVE  RepOwned(o, o \in w0.player, w0.authority[o], u.authority[o], q0, r)
  <2>1. /\ w1.authority[o] \in {0, w0.authority[o]}
        /\ \A i \in 1 .. Len(q1) : RepOrder(q1, i, o) => o \in w0.player /\ q1[i].arg = w0.authority[o]
        /\ w1.authority[o] # w0.authority[o] => \E i \in 1 .. Len(q1) : RepOrder(q1, i, o)
    BY <1>2 DEF RepOwned
  <2>2. \A i \in 1 .. Len(r) : RepOrder(r, i, o) => o \in w0.player /\ r[i].arg = w0.authority[o]
    BY SMTT(60), <1>4, <2>1 DEF RepOrder
  <2>3. u.authority[o] = w1.authority[o] \/ u.authority[o] = w0.authority[o]
    BY <1>1, <1>3, <1>5 DEF RepKinds
  <2>4. ASSUME u.authority[o] # w0.authority[o]
        PROVE  \E i \in 1 .. Len(r) : RepOrder(r, i, o)
    <3>1. PICK j \in 1 .. Len(q1) : RepOrder(q1, j, o)
      BY <2>1, <2>3, <2>4
    <3>2. j # k
      BY <1>3, <1>5, <2>4, <3>1 DEF RepOrder
    <3> QED BY <1>4, <3>1, <3>2 DEF RepOrder
  <2> QED BY <1>2, <2>1, <2>2, <2>3, <2>4 DEF RepOwned
<1>7. ASSUME ordered, NEW o \in Object
      PROVE  /\ RepValued(o, w0.authority[o], u.authority[o], w0.value[o], u.value[o], q0, r)
             /\ o = x /\ ~w1.odd => ~u.odd
  <2>1. RepValued(o, w0.authority[o], w1.authority[o], w0.value[o], w1.value[o], q0, q1)
    BY <1>7 DEF RepFine
  <2>2. CASE w1.authority[o] = 1
    <3>1. RepEnds(q0, o, w0.value[o], w1.value[o]) /\ RepSilent(q1, o)
      BY <2>1, <2>2 DEF RepValued
    <3>2. w0.authority[o] = 1
      BY <1>2, <2>2 DEF RepOwned
    <3>3. o = x => ~RepSync(q1, k, x) /\ ~RepCall(q1, k, x)
      BY <3>1 DEF RepSilent
    <3>4. u.authority[o] = 1 /\ u.value[o] = w1.value[o]
      BY <1>1, <1>3, <1>5, <2>2, <3>2, <3>3 DEF RepKinds, RepSync
    <3>5. o = x /\ ~w1.odd => ~u.odd
      BY <3>3, <1>3, <1>1 DEF RepCall, RepSync, RepKinds
    <3> QED BY <1>4, <3>1, <3>4, <3>5 DEF RepValued
  <2>3. CASE w1.authority[o] # 1
    <3>1. /\ RepEnds(q1, o, w1.value[o], w0.value[o]) /\ RepSilent(q0, o)
          /\ w0.authority[o] = 1 => RepLeft(q1, o)
      BY <2>1, <2>3 DEF RepValued
    <3>2. CASE o # x
      BY <3>1, <3>2, RepTakesOther, <1>3, <1>4, <2>3 DEF RepValued
    <3>3. CASE o = x /\ q1[k].kind # "authority"
      <4>1. /\ ~RepSync(q1, k, x) => RepEnds(r, x, w1.value[x], w0.value[x])
            /\ RepSync(q1, k, x) => RepEnds(r, x, q1[k].arg, w0.value[x])
            /\ RepCall(q1, k, x) => q1[k].arg = w1.value[x]
        BY SMTT(60), <3>1, <3>3, RepTakesFirst
      <4>2. u.authority[x] = w1.authority[x]
        BY <1>1, <1>3, <3>3 DEF RepKinds
      <4>3. RepEnds(r, x, u.value[x], w0.value[x])
        BY <1>3, <2>3, <3>3, <4>1, <1>1 DEF RepSync, RepKinds
      <4>4. ~w1.odd => ~u.odd
        BY <4>1, <1>3, <1>1, <3>3 DEF RepCall, RepKinds
      <4> QED BY <1>4, <2>3, <3>1, <3>3, <4>2, <4>3, <4>4 DEF RepValued
    <3>4. CASE o = x /\ q1[k].kind = "authority"
      <4>1. u.authority[x] = w0.authority[x] /\ u.value[x] = w1.value[x] /\ u.odd = w1.odd
        BY <1>3, <1>5, <3>4
      <4>2. CASE w0.authority[x] = 1
        <5>1. \A j \in 1 .. Len(q1) : ~RepSync(q1, j, x) /\ ~RepCall(q1, j, x)
          BY <3>1, <3>4, <4>2 DEF RepLeft, RepOrder, RepSync, RepCall
        <5>2. RepSilent(r, x)
          BY <1>1, <1>4, <5>1 DEF RepSilent
        <5>3. w0.value[x] = w1.value[x]
          BY <3>1, <3>4, <5>1, RepSays
        <5>4. RepEnds(q0, x, w0.value[x], w1.value[x])
          BY <3>1, <3>4, <5>3, RepSays
        <5> QED BY <3>4, <4>1, <4>2, <5>2, <5>4 DEF RepValued
      <4>3. CASE w0.authority[x] # 1
        BY <3>4, <3>1, RepTakesFirst, <4>1, <4>3 DEF RepSync, RepValued
      <4> QED BY <4>2, <4>3
    <3> QED BY <3>2, <3>3, <3>4
  <2> QED BY <2>2, <2>3
<1> QED BY <1>1, <1>6, <1>7 DEF RepFine

\* A message between two queues belongs to either.
LEMMA RepRegroup ==
    ASSUME NEW a \in Seq(RepMsg), NEW b \in Seq(RepMsg), NEW c \in Seq(RepMsg)
    PROVE  (a \o b) \o c = a \o (b \o c)
  BY ConcatAssociative

\* The invariant seen from machine m: w and queue q are its own.
RepFits(ordered, m, w, x, q, p) ==
    IF m = 0 THEN RepFine(ordered, w, x, q, p) ELSE RepFine(ordered, x, w, p, q)

\* A machine executes or saves a message that has come.
LEMMA RepTakes ==
    ASSUME NEW ordered \in BOOLEAN, NEW m \in Rep!Slot, NEW w \in RepMachine, NEW x \in RepMachine,
           NEW q \in Seq(RepMsg), NEW p \in Seq(RepMsg), NEW k \in 1 .. Len(q), NEW r, RepDrop(q, k, r),
           NEW u, u = Rep!Execute(m, w, q[k]), \A i \in 1 .. k - 1 : q[i].object # q[k].object,
           RepFits(ordered, m, w, x, q, p)
    PROVE  RepFits(ordered, m, u, x, r, p) /\ (ordered /\ ~w.odd => ~u.odd)
  BY RepTakesMaster, RepTakesSlave DEF RepFits, Rep!Slot

\* A message before rest, saved or executed.
LEMMA RepSends ==
    ASSUME NEW ordered \in BOOLEAN, NEW m \in Rep!Slot, NEW w \in RepMachine, NEW x \in RepMachine,
           NEW rest \in Seq(RepMsg), rest # << >>, NEW p \in Seq(RepMsg),
           NEW u, u = Rep!SendToObject(m, w, Head(rest)), RepResting(w),
           RepFits(ordered, m, w, x, w.saved \o rest, p)
    PROVE  /\ u \in RepMachine /\ RepResting(u) /\ u.begun \subseteq w.begun /\ u.stopped = w.stopped
           /\ RepFits(ordered, m, u, x, u.saved \o Tail(rest), p)
           /\ ordered /\ ~w.odd => ~u.odd
<1>1. PICK msg \in RepMsg : msg = Head(rest)
  BY HeadTailProperties
<1>2. /\ Tail(rest) \in Seq(RepMsg) /\ Len(Tail(rest)) = Len(rest) - 1 /\ Len(rest) \in Nat \ {0}
      /\ \A i \in 1 .. Len(Tail(rest)) : Tail(rest)[i] = rest[i + 1]
      /\ rest[1] = msg
  BY <1>1, HeadTailProperties
<1>3. w.saved \in Seq(RepMsg) /\ Len(w.saved) \in Nat
  BY DEF RepMachine
<1>4. CASE ~Rep!Reaches(w, msg)
  <2>1. PICK kept : kept = Append(w.saved, msg)
    OBVIOUS
  <2>2. u = [w EXCEPT !.saved = kept]
    BY <1>1, <1>4, <2>1 DEF Rep!SendToObject
  <2>3. kept \in Seq(RepMsg) /\ kept = w.saved \o <<msg>>
    BY <1>3, <2>1, AppendProperties, AppendIsConcat
  <2>4. u \in RepMachine /\ u.begun = w.begun /\ u.stopped = w.stopped /\ u.odd = w.odd /\ u.saved = kept
        /\ u.player = w.player /\ u.value = w.value /\ u.authority = w.authority
    BY <2>2, <2>3 DEF RepMachine
  <2>5. RepResting(u)
    <3>1. /\ Len(kept) = Len(w.saved) + 1 /\ kept[Len(w.saved) + 1] = msg
          /\ \A i \in 1 .. Len(w.saved) : kept[i] = w.saved[i]
      BY <1>3, <2>1, AppendProperties
    <3>2. \A i \in 1 .. Len(kept) : i = Len(w.saved) + 1 \/ i \in 1 .. Len(w.saved)
      BY <1>3, <3>1
    <3> QED BY <1>4, <2>4, <3>1, <3>2 DEF RepResting, Rep!Reaches
  <2>6. u.saved \o Tail(rest) = w.saved \o rest
    <3>1. rest = <<msg>> \o Tail(rest)
      BY <1>1, <1>2
    <3>2. <<msg>> \in Seq(RepMsg)
      OBVIOUS
    <3>3. (w.saved \o <<msg>>) \o Tail(rest) = w.saved \o (<<msg>> \o Tail(rest))
      <4>1. PICK a \in Seq(RepMsg) : a = w.saved
        BY <1>3
      <4>2. PICK b \in Seq(RepMsg) : b = <<msg>>
        BY <3>2
      <4>3. PICK c \in Seq(RepMsg) : c = Tail(rest)
        BY <1>2
      <4>4. (a \o b) \o c = a \o (b \o c)
        BY RepRegroup
      <4> QED BY <4>1, <4>2, <4>3, <4>4
    <3> QED BY <2>3, <2>4, <3>1, <3>3
  <2>7. RepFits(ordered, m, u, x, w.saved \o rest, p)
    BY <2>4 DEF RepFits, RepFine
  <2> QED BY <2>4, <2>5, <2>6, <2>7
<1>5. CASE Rep!Reaches(w, msg)
  <2>1. PICK q : q = w.saved \o rest
    OBVIOUS
  <2>2. PICK r : r = w.saved \o Tail(rest)
    OBVIOUS
  <2>3. PICK k : k = Len(w.saved) + 1
    OBVIOUS
  <2>4. /\ q \in Seq(RepMsg) /\ Len(q) = Len(w.saved) + Len(rest) /\ q[k] = msg
        /\ \A i \in 1 .. Len(q) : q[i] = IF i < k THEN w.saved[i] ELSE rest[i - Len(w.saved)]
    <3>1. k <= Len(w.saved) + Len(rest) /\ k \in 1 .. Len(w.saved) + Len(rest) /\ k - Len(w.saved) = 1
      BY <1>2, <1>3, <2>3
    <3>2. /\ q \in Seq(RepMsg) /\ Len(q) = Len(w.saved) + Len(rest)
          /\ \A i \in 1 .. Len(w.saved) + Len(rest) :
               q[i] = IF i <= Len(w.saved) THEN w.saved[i] ELSE rest[i - Len(w.saved)]
      BY <1>3, <2>1, ConcatProperties
    <3>3. q[k] = msg
      <4>1. ~(k <= Len(w.saved))
        BY <1>3, <2>3
      <4>2. q[k] = rest[k - Len(w.saved)]
        BY <3>1, <3>2, <4>1
      <4> QED BY <1>2, <3>1, <4>2
    <3>4. \A i \in 1 .. Len(q) : i < k <=> i <= Len(w.saved)
      BY <1>3, <2>3
    <3> QED BY <3>2, <3>3, <3>4
  <2>5. /\ r \in Seq(RepMsg) /\ Len(r) = Len(w.saved) + Len(rest) - 1
        /\ \A i \in 1 .. Len(r) : r[i] = IF i < k THEN w.saved[i] ELSE Tail(rest)[i - Len(w.saved)]
    BY <1>2, <1>3, <2>2, ConcatProperties, <2>3
  <2>6. RepDrop(q, k, r)
    <3>1. ASSUME NEW i \in 1 .. Len(q) - 1
          PROVE  r[i] = IF i < k THEN q[i] ELSE q[i + 1]
      <4>1. i \in 1 .. Len(r) /\ i \in 1 .. Len(q) /\ i + 1 \in 1 .. Len(q)
        BY <1>2, <1>3, <2>4, <2>5
      <4>2. CASE i < k
        BY <2>4, <2>5, <4>1, <4>2
      <4>3. CASE ~(i < k)
        <5>1. /\ i - Len(w.saved) \in 1 .. Len(Tail(rest)) /\ ~(i + 1 < k)
              /\ (i - Len(w.saved)) + 1 = (i + 1) - Len(w.saved)
          <6>1. Len(r) = Len(w.saved) + Len(Tail(rest)) /\ i <= Len(r) /\ Len(Tail(rest)) \in Nat
            BY <1>2, <1>3, <2>5, <4>1
          <6>2. i \in Nat /\ i >= Len(w.saved) + 1
            BY <1>3, <2>3, <4>3
          <6> QED BY <1>3, <2>3, <6>1, <6>2
        <5> QED BY <1>2, <2>4, <2>5, <4>1, <4>3, <5>1
      <4> QED BY <4>2, <4>3
    <3> QED BY <1>2, <1>3, <2>4, <2>5, <3>1 DEF RepDrop
  <2>7. k \in 1 .. Len(q) /\ \A i \in 1 .. k - 1 : q[i].object # q[k].object
    <3>1. k \in 1 .. Len(q) /\ \A i \in 1 .. k - 1 : i \in 1 .. Len(w.saved) /\ i \in 1 .. Len(q) /\ i < k
      BY <1>2, <1>3, <2>3, <2>4
    <3>2. \A i \in 1 .. k - 1 : q[i] = w.saved[i]
      BY <2>4, <3>1
    <3> QED BY <1>5, <2>4, <3>1, <3>2 DEF RepResting, Rep!Reaches
  <2>8. u = Rep!Execute(m, w, q[k])
    BY <1>1, <1>5, <2>4 DEF Rep!SendToObject
  <2>9. RepExecuted(m, w, msg, u)
    BY <2>4, <2>8, RepExecutes
  <2>10. u \in RepMachine /\ u.begun \subseteq w.begun /\ u.stopped = w.stopped /\ u.saved = w.saved
    BY <2>9 DEF RepExecuted
  <2>11. RepFits(ordered, m, u, x, r, p) /\ (ordered /\ ~w.odd => ~u.odd)
    BY <2>1, <2>4, <2>6, <2>7, <2>8, RepTakes
  <2>12. RepResting(u)
    BY <2>10 DEF RepResting
  <2> QED BY <2>2, <2>10, <2>11, <2>12
<1> QED BY <1>4, <1>5

\* What Retry makes of w in i messages.
RepTried(m, w, objects, f) ==
    /\ f[0] = [w EXCEPT !.saved = << >>]
    /\ \A i \in 1 .. Len(w.saved) :
         f[i] = IF w.saved[i].object \in objects THEN Rep!SendToObject(m, f[i - 1], w.saved[i])
                ELSE [f[i - 1] EXCEPT !.saved = Append(@, w.saved[i])]

\* Retry is defined: its recursion ends, as a least number where it did not would have one before it.
LEMMA RepRetryIs ==
    ASSUME NEW m, NEW w, w.saved \in Seq(RepMsg), NEW objects
    PROVE  \E f : RepTried(m, w, objects, f) /\ Rep!Retry(m, w, objects) = f[Len(w.saved)]
<1> DEFINE n == Len(w.saved)
           Try(v, msg) == IF msg.object \in objects THEN Rep!SendToObject(m, v, msg)
                          ELSE [v EXCEPT !.saved = Append(@, msg)]
           base == [w EXCEPT !.saved = << >>]
           Upto(f, l) == f = [i \in 0 .. l |-> IF i = 0 THEN base ELSE Try(f[i - 1], w.saved[i])]
           T == {l \in Nat : ~ \E f : Upto(f, l)}
<1>1. n \in Nat
  OBVIOUS
<1>2. \E f : Upto(f, 0)
  <2>1. Upto([i \in {0} |-> base], 0)
    OBVIOUS
  <2> QED BY <2>1
<1> HIDE DEF Try, base
<1>3. ASSUME NEW l \in Nat, NEW f, Upto(f, l)
      PROVE  \E g : Upto(g, l + 1)
  <2>1. PICK g : g = [i \in 0 .. l + 1 |-> IF i = l + 1 THEN Try(f[l], w.saved[l + 1]) ELSE f[i]]
    OBVIOUS
  <2>2. \A i \in 0 .. l : f[i] = IF i = 0 THEN base ELSE Try(f[i - 1], w.saved[i])
    BY <1>3
  <2>3. \A i \in 0 .. l : g[i] = f[i]
    BY <2>1
  <2>4. g[l + 1] = Try(g[l], w.saved[l + 1])
    BY <2>1, <2>3
  <2>5. ASSUME NEW i \in 0 .. l + 1
        PROVE  g[i] = IF i = 0 THEN base ELSE Try(g[i - 1], w.saved[i])
    <3>1. CASE i = l + 1
      BY <3>1, <2>4
    <3>2. CASE i # l + 1
      BY <3>2, <2>2, <2>3
    <3> QED BY <3>1, <3>2
  <2>6. g = [i \in 0 .. l + 1 |-> g[i]]
    BY <2>1
  <2>7. Upto(g, l + 1)
    BY <2>5, <2>6
  <2> QED BY <2>7
<1>4. \A l \in Nat : \E f : Upto(f, l)
  <2> SUFFICES ASSUME T # {} PROVE FALSE
    OBVIOUS
  <2>1. PICK l \in T : \A h \in T : l <= h
    <3>1. T \subseteq Nat
      OBVIOUS
    <3> HIDE DEF T
    <3> QED BY <3>1, LeastNumber
  <2>2. l \in Nat /\ l # 0
    BY <1>2, <2>1
  <2>3. l - 1 \in Nat /\ (l - 1) + 1 = l /\ ~(l <= l - 1)
    BY <2>2
  <2>4. \E f : Upto(f, l - 1)
    BY <2>1, <2>3
  <2>5. \E f : Upto(f, (l - 1) + 1)
    BY <1>3, <2>3, <2>4
  <2> QED BY <2>1, <2>3, <2>5
<1>5. \E f : Upto(f, n)
  BY <1>1, <1>4
<1>6. PICK f : f = CHOOSE g : Upto(g, n)
  OBVIOUS
<1>7. Upto(f, n)
  BY <1>5, <1>6
<1>8. Rep!Retry(m, w, objects) = f[n]
  BY <1>6 DEF Rep!Retry, Try, base
<1>9. RepTried(m, w, objects, f)
  <2>1. \A i \in 0 .. n : f[i] = IF i = 0 THEN base ELSE Try(f[i - 1], w.saved[i])
    BY <1>7
  <2>2. f[0] = base
    BY <1>1, <2>1
  <2>3. \A i \in 1 .. n : f[i] = Try(f[i - 1], w.saved[i])
    BY <1>1, <2>1
  <2> QED BY <2>2, <2>3 DEF RepTried, Try, base
<1> QED BY <1>8, <1>9

\* What is left of the messages after the first i.
LEMMA RepRest ==
    ASSUME NEW s \in Seq(RepMsg), NEW t \in Seq(RepMsg)
    PROVE  \E rest :
             /\ rest[0] = s \o t /\ rest[Len(s)] = t
             /\ \A i \in 0 .. Len(s) : rest[i] \in Seq(RepMsg)
             /\ \A i \in 1 .. Len(s) :
                  rest[i - 1] # << >> /\ Head(rest[i - 1]) = s[i] /\ rest[i] = Tail(rest[i - 1])
<1>1. PICK q : q = s \o t
  OBVIOUS
<1>2. /\ q \in Seq(RepMsg) /\ Len(q) = Len(s) + Len(t) /\ Len(s) \in Nat /\ Len(t) \in Nat
      /\ \A i \in 1 .. Len(s) : q[i] = s[i]
  BY <1>1, ConcatProperties
<1>3. PICK rest : rest = [i \in 0 .. Len(s) |-> SubSeq(q, i + 1, Len(q))]
  OBVIOUS
<1>4. rest[0] = q
  BY <1>2, <1>3, SubSeqFull
<1>5. rest[Len(s)] = t
  BY <1>2, <1>3, SubSeqEmpty, SubSeqOfConcat2, SubSeqFull, <1>1
<1>6. ASSUME NEW i \in 0 .. Len(s)
      PROVE  rest[i] \in Seq(RepMsg)
  BY <1>3, <1>2, SubSeqProperties
<1>7. ASSUME NEW i \in 1 .. Len(s)
      PROVE  rest[i - 1] # << >> /\ Head(rest[i - 1]) = s[i] /\ rest[i] = Tail(rest[i - 1])
  <2>1. /\ i \in 1 .. Len(q) /\ Len(q) \in i .. Len(q) /\ i - 1 \in 0 .. Len(s) /\ i \in 0 .. Len(s)
        /\ (i - 1) + 1 = i
    BY <1>2
  <2>2. rest[i - 1] = SubSeq(q, i, Len(q)) /\ rest[i] = SubSeq(q, i + 1, Len(q))
    BY <1>3, <2>1
  <2>3. Head(SubSeq(q, i, Len(q))) = q[i] /\ Tail(SubSeq(q, i, Len(q))) = SubSeq(q, i + 1, Len(q))
    BY <1>2, <2>1, HeadTailOfSubSeq
  <2>4. SubSeq(q, i, Len(q)) # << >>
    <3>1. i \in Int /\ Len(q) \in Int /\ \A j \in i .. Len(q) : j \in 1 .. Len(q)
      BY <1>2, <2>1
    <3>2. \A j \in i .. Len(q) : q[j] \in RepMsg
      BY <1>2, <3>1
    <3>3. Len(SubSeq(q, i, Len(q))) = Len(q) - i + 1
      BY <2>1, <3>1, <3>2, SubSeqProperties
    <3>4. Len(SubSeq(q, i, Len(q))) # 0
      BY <2>1, <3>1, <3>3
    <3>5. \A z : z = << >> => Len(z) = 0
      OBVIOUS
    <3> QED BY <3>4, <3>5, Zenon
  <2> QED BY <1>2, <2>2, <2>3, <2>4
<1> QED BY <1>1, <1>4, <1>5, <1>6, <1>7

\* Machine m tries what it has saved again: every message but those that wait finds its object.
LEMMA RepRetries ==
    ASSUME NEW ordered \in BOOLEAN, NEW m \in Rep!Slot, NEW w \in RepMachine, NEW x \in RepMachine,
           NEW t \in Seq(RepMsg), NEW p \in Seq(RepMsg), NEW objects, NEW u, u = Rep!Retry(m, w, objects),
           \A i \in 1 .. Len(w.saved) : w.saved[i].object \in objects \/ ~Rep!Reaches(w, w.saved[i]),
           RepFits(ordered, m, w, x, w.saved \o t, p)
    PROVE  /\ u \in RepMachine /\ RepResting(u)
           /\ RepFits(ordered, m, u, x, u.saved \o t, p)
           /\ ordered /\ ~w.odd => ~u.odd
<1> DEFINE n == Len(w.saved)
<1>1. w.saved \in Seq(RepMsg) /\ n \in Nat
  BY DEF RepMachine
<1>2. PICK f : RepTried(m, w, objects, f) /\ u = f[n]
  BY <1>1, RepRetryIs
<1>3. PICK rest : /\ rest[0] = w.saved \o t /\ rest[n] = t
                  /\ \A i \in 0 .. n : rest[i] \in Seq(RepMsg)
                  /\ \A i \in 1 .. n : rest[i - 1] # << >> /\ Head(rest[i - 1]) = w.saved[i] /\ rest[i] = Tail(rest[i - 1])
  BY <1>1, RepRest
<1> DEFINE Good(i) == /\ f[i] \in RepMachine /\ RepResting(f[i])
                      /\ f[i].begun \subseteq w.begun /\ f[i].stopped = w.stopped
                      /\ RepFits(ordered, m, f[i], x, f[i].saved \o rest[i], p)
                      /\ (ordered /\ ~w.odd => ~f[i].odd)
<1>4. Good(0)
  <2>1. PICK v : v = [w EXCEPT !.saved = << >>]
    OBVIOUS
  <2>2. /\ w.begun \in SUBSET Object /\ w.stopped \in SUBSET Object /\ w.player \in SUBSET Object
        /\ w.odd \in BOOLEAN /\ w.value \in [Object -> Int] /\ w.authority \in [Object -> Int]
        /\ w = [begun |-> w.begun, stopped |-> w.stopped, player |-> w.player, odd |-> w.odd, saved |-> w.saved,
                value |-> w.value, authority |-> w.authority]
    BY DEF RepMachine
  <2>3. v = [begun |-> w.begun, stopped |-> w.stopped, player |-> w.player, odd |-> w.odd, saved |-> << >>,
             value |-> w.value, authority |-> w.authority]
    BY <2>1, <2>2
  <2>4. << >> \in Seq(RepMsg)
    OBVIOUS
  <2>5. v \in RepMachine
    BY <2>2, <2>3, <2>4 DEF RepMachine
  <2>6. /\ v.begun = w.begun /\ v.stopped = w.stopped /\ v.odd = w.odd /\ v.saved = << >>
        /\ v.player = w.player /\ v.value = w.value /\ v.authority = w.authority
    BY <2>3
  <2>7. RepResting(v)
    BY <2>6 DEF RepResting
  <2>8. v.saved \o rest[0] = rest[0]
    BY <1>1, <1>3, <2>6, ConcatEmptySeq
  <2>9. RepFits(ordered, m, v, x, w.saved \o t, p)
    BY <2>6 DEF RepFits, RepFine
  <2>10. f[0] = v
    BY <1>2, <2>1 DEF RepTried
  <2> QED BY <1>3, <2>5, <2>6, <2>7, <2>8, <2>9, <2>10
<1>5. ASSUME NEW i \in 1 .. n, Good(i - 1)
      PROVE  Good(i)
  <2>1. PICK v \in RepMachine : v = f[i - 1]
    BY <1>5
  <2>2. /\ RepResting(v) /\ v.begun \subseteq w.begun /\ v.stopped = w.stopped
        /\ RepFits(ordered, m, v, x, v.saved \o rest[i - 1], p) /\ (ordered /\ ~w.odd => ~v.odd)
    BY <1>5, <2>1
  <2>3. /\ rest[i - 1] \in Seq(RepMsg) /\ rest[i - 1] # << >>
        /\ Head(rest[i - 1]) = w.saved[i] /\ rest[i] = Tail(rest[i - 1])
    <3>1. i - 1 \in 0 .. n
      BY <1>1
    <3> QED BY <1>3, <3>1
  <2>4. f[i] = Rep!SendToObject(m, v, Head(rest[i - 1]))
    BY <1>2, <2>1, <2>3, <2>2 DEF RepTried, Rep!Reaches, Rep!SendToObject
  <2>5. PICK z : z = f[i]
    OBVIOUS
  <2>6. /\ z \in RepMachine /\ RepResting(z) /\ z.begun \subseteq v.begun /\ z.stopped = v.stopped
        /\ RepFits(ordered, m, z, x, z.saved \o Tail(rest[i - 1]), p)
        /\ (ordered /\ ~v.odd => ~z.odd)
    BY <2>2, <2>3, <2>4, <2>5, RepSends
  <2> QED BY <2>2, <2>3, <2>5, <2>6
<1> HIDE DEF Good
<1>6. \A i \in 0 .. n : Good(i)
  <2> DEFINE T == {i \in 0 .. n : ~Good(i)}
  <2> SUFFICES ASSUME T # {} PROVE FALSE
    OBVIOUS
  <2>1. PICK i \in T : \A h \in T : i <= h
    <3>1. T \subseteq Nat
      BY <1>1
    <3> HIDE DEF T
    <3> QED BY <3>1, LeastNumber
  <2>2. i \in 1 .. n /\ i - 1 \in 0 .. n /\ ~(i <= i - 1)
    BY <1>1, <1>4, <2>1
  <2>3. Good(i - 1)
    BY <2>1, <2>2
  <2> QED BY <1>5, <2>1, <2>2, <2>3
<1>7. Good(n)
  BY <1>1, <1>6
<1> QED BY <1>2, <1>3, <1>7 DEF Good

\* The invariant, of the machines, of what is under way to them by TCP and UDP and of the number of writes.
RepState(ordered, mach, t, u, wr) ==
    /\ mach \in [Rep!Slot -> RepMachine] /\ t \in [Rep!Slot -> Seq(RepMsg)] /\ wr \in Nat
    /\ u \in [Rep!Slot -> SUBSET RepMsg]
    /\ \A m \in Rep!Slot : /\ RepResting(mach[m])
                           /\ ordered => ~mach[m].odd
                           /\ \A msg \in u[m] : msg.kind = "sync"
                           /\ ordered => u[m] = {}
    /\ RepFine(ordered, mach[0], mach[1], mach[0].saved \o t[0], mach[1].saved \o t[1])

\* The invariant, seen from one of the machines.
LEMMA RepOf ==
    ASSUME NEW ordered, NEW mach, NEW t, NEW u, NEW wr, RepState(ordered, mach, t, u, wr), NEW m \in Rep!Slot
    PROVE  /\ Rep!Other(m) \in Rep!Slot /\ Rep!Other(m) # m
           /\ mach[m] \in RepMachine /\ mach[Rep!Other(m)] \in RepMachine
           /\ mach[m].saved \in Seq(RepMsg) /\ mach[Rep!Other(m)].saved \in Seq(RepMsg)
           /\ t[m] \in Seq(RepMsg) /\ t[Rep!Other(m)] \in Seq(RepMsg)
           /\ mach[m].saved \o t[m] \in Seq(RepMsg)
           /\ mach[Rep!Other(m)].saved \o t[Rep!Other(m)] \in Seq(RepMsg)
           /\ RepFits(ordered, m, mach[m], mach[Rep!Other(m)], mach[m].saved \o t[m],
                      mach[Rep!Other(m)].saved \o t[Rep!Other(m)])
  BY ConcatProperties DEF Rep!Slot, Rep!Other, RepState, RepMachine, RepFits

\* Machine m becomes w, and s and r are under way to it and to the other.
RepMove(ordered, m, mach, w, s, r) ==
    /\ w \in RepMachine /\ RepResting(w) /\ (ordered /\ ~mach[m].odd => ~w.odd)
    /\ s \in Seq(RepMsg) /\ r \in Seq(RepMsg)
    /\ RepFits(ordered, m, w, mach[Rep!Other(m)], w.saved \o s, mach[Rep!Other(m)].saved \o r)

RepTo(m, mach, w, s, r, mach1, t1) ==
    /\ mach1 = [mach EXCEPT ![m] = w]
    /\ t1 \in [Rep!Slot -> Seq(RepMsg)] /\ t1[m] = s /\ t1[Rep!Other(m)] = r

\* What a step of one machine has to show.
LEMMA RepBecomes ==
    ASSUME NEW ordered \in BOOLEAN, NEW mach, NEW t, NEW u, NEW wr, RepState(ordered, mach, t, u, wr),
           NEW m \in Rep!Slot, NEW w, NEW s, NEW r, RepMove(ordered, m, mach, w, s, r), NEW l \in Nat,
           NEW mach1, NEW t1, RepTo(m, mach, w, s, r, mach1, t1)
    PROVE  RepState(ordered, mach1, t1, u, l)
<1> DEFINE h == Rep!Other(m)
<1>0. /\ w \in RepMachine /\ RepResting(w) /\ (ordered /\ ~mach[m].odd => ~w.odd)
      /\ RepFits(ordered, m, w, mach[h], w.saved \o s, mach[h].saved \o r)
      /\ mach1 = [mach EXCEPT ![m] = w]
      /\ t1 \in [Rep!Slot -> Seq(RepMsg)] /\ t1[m] = s /\ t1[h] = r
  BY DEF RepMove, RepTo
<1>1. h \in Rep!Slot /\ h # m /\ h = 1 - m
  BY RepOf DEF Rep!Other
<1>2. m \in {0, 1} /\ Rep!Slot = {0, 1}
  BY DEF Rep!Slot
<1> HIDE DEF h
<1>3. mach \in [Rep!Slot -> RepMachine]
  BY DEF RepState
<1>4. mach1 \in [Rep!Slot -> RepMachine] /\ mach1[m] = w /\ mach1[h] = mach[h]
  BY <1>0, <1>1, <1>3
<1>5. \A i \in Rep!Slot : i = m \/ i = h
  BY <1>1, <1>2
<1>6. ASSUME NEW i \in Rep!Slot
      PROVE  /\ RepResting(mach1[i])
             /\ ordered => ~mach1[i].odd
             /\ \A msg \in u[i] : msg.kind = "sync"
             /\ ordered => u[i] = {}
  BY <1>6, <1>0, <1>4, <1>5 DEF RepState
<1>7. RepFits(ordered, m, mach1[m], mach1[h], mach1[m].saved \o t1[m], mach1[h].saved \o t1[h])
  BY <1>0, <1>4
<1>8. RepFine(ordered, mach1[0], mach1[1], mach1[0].saved \o t1[0], mach1[1].saved \o t1[1])
  BY <1>1, <1>7, <1>2 DEF RepFits
<1> QED BY <1>0, <1>4, <1>6, <1>8 DEF RepState

\* Machine m becomes w, and sends msg to the other.
RepSentTo(m, mach, t, w, msg, mach1, t1) ==
    /\ mach1 = [mach EXCEPT ![m] = w] /\ w.saved = mach[m].saved
    /\ t1 = [t EXCEPT ![Rep!Other(m)] = @ \o <<msg>>]

\* What a step that sends one message has to show.
LEMMA RepSent ==
    ASSUME NEW ordered \in BOOLEAN, NEW mach, NEW t, NEW u, NEW wr, RepState(ordered, mach, t, u, wr),
           NEW m \in Rep!Slot, NEW w \in RepMachine, RepResting(w), ordered /\ ~mach[m].odd => ~w.odd,
           NEW msg \in RepMsg, NEW l \in Nat, NEW mach1, NEW t1, RepSentTo(m, mach, t, w, msg, mach1, t1),
           \A z : RepAdd(mach[Rep!Other(m)].saved \o t[Rep!Other(m)], msg, z) =>
                  RepFits(ordered, m, w, mach[Rep!Other(m)], mach[m].saved \o t[m], z)
    PROVE  RepState(ordered, mach1, t1, u, l)
<1> DEFINE h == Rep!Other(m)
<1>0. /\ mach1 = [mach EXCEPT ![m] = w] /\ w.saved = mach[m].saved
      /\ t1 = [t EXCEPT ![h] = @ \o <<msg>>]
  BY DEF RepSentTo
<1>1. /\ h \in Rep!Slot /\ h # m /\ mach[h].saved \in Seq(RepMsg) /\ t[h] \in Seq(RepMsg) /\ t[m] \in Seq(RepMsg)
      /\ mach[h].saved \o t[h] \in Seq(RepMsg)
  BY RepOf
<1> HIDE DEF h
<1>2. t \in [Rep!Slot -> Seq(RepMsg)]
  BY DEF RepState
<1>3. PICK r : r = t[h] \o <<msg>>
  OBVIOUS
<1>4. <<msg>> \in Seq(RepMsg)
  OBVIOUS
<1>5. r \in Seq(RepMsg)
  BY <1>1, <1>3, <1>4, ConcatProperties
<1>6. t1 \in [Rep!Slot -> Seq(RepMsg)] /\ t1[m] = t[m] /\ t1[h] = r
  BY <1>0, <1>1, <1>2, <1>3, <1>5
<1>7. PICK q \in Seq(RepMsg) : q = mach[h].saved \o t[h]
  BY <1>1
<1>8. PICK z : z = mach[h].saved \o r
  OBVIOUS
<1>9. z = q \o <<msg>>
  <2>1. PICK a \in Seq(RepMsg) : a = mach[h].saved
    BY <1>1
  <2>2. PICK b \in Seq(RepMsg) : b = t[h]
    BY <1>1
  <2>3. PICK c \in Seq(RepMsg) : c = <<msg>>
    BY <1>4
  <2>4. (a \o b) \o c = a \o (b \o c)
    BY SMTT(60), RepRegroup
  <2> QED BY <1>3, <1>7, <1>8, <2>1, <2>2, <2>3, <2>4
<1>10. z = Append(q, msg)
  BY <1>9, AppendIsConcat
<1>11. RepAdd(q, msg, z)
  BY <1>10, AppendProperties DEF RepAdd
<1>12. RepFits(ordered, m, w, mach[h], w.saved \o t[m], mach[h].saved \o r)
  BY <1>0, <1>7, <1>8, <1>11 DEF h
<1>13. RepMove(ordered, m, mach, w, t[m], r)
  BY <1>1, <1>5, <1>12 DEF RepMove, h
<1>14. RepTo(m, mach, w, t[m], r, mach1, t1)
  BY <1>0, <1>6 DEF RepTo, h
<1> QED BY <1>13, <1>14, RepBecomes

\* A message that is no order leaves who owns what as it was.
LEMMA RepOwnedAdds ==
    ASSUME NEW q \in Seq(RepMsg), NEW msg, msg.kind # "authority", NEW z, RepAdd(q, msg, z),
           NEW s, NEW o, NEW p, NEW a, NEW b
    PROVE  /\ RepOwned(o, p, a, b, s, q) => RepOwned(o, p, a, b, s, z)
           /\ RepOwned(o, p, a, b, q, s) => RepOwned(o, p, a, b, z, s)
<1>1. /\ \A i \in 1 .. Len(z) : z[i] = msg \/ \E j \in 1 .. Len(q) : z[i] = q[j]
      /\ \A i \in 1 .. Len(q) : i \in 1 .. Len(z) /\ z[i] = q[i]
  BY RepAdds
<1>2. \A i \in 1 .. Len(z) : RepOrder(z, i, o) => \E j \in 1 .. Len(q) : RepOrder(q, j, o) /\ z[i] = q[j]
  BY <1>1 DEF RepOrder
<1>3. \A i \in 1 .. Len(q) : RepOrder(q, i, o) => RepOrder(z, i, o)
  BY <1>1 DEF RepOrder
<1>4. ASSUME RepOwned(o, p, a, b, s, q)
      PROVE  RepOwned(o, p, a, b, s, z)
  <2>1. \A i \in 1 .. Len(z) : RepOrder(z, i, o) => p /\ z[i].arg = a
    BY <1>4, <1>2 DEF RepOwned
  <2>2. (\E i \in 1 .. Len(q) : RepOrder(q, i, o)) => \E i \in 1 .. Len(z) : RepOrder(z, i, o)
    BY <1>1, <1>3
  <2> QED BY <1>4, <2>1, <2>2 DEF RepOwned
<1>5. RepOwned(o, p, a, b, q, s) => RepOwned(o, p, a, b, z, s)
  BY <1>2 DEF RepOwned
<1> QED BY <1>4, <1>5

\* Whatever a machine sends but an authority, or a value or call of its own, leaves the rest as it is.
LEMMA RepAddsOther ==
    ASSUME NEW q \in Seq(RepMsg), NEW msg, NEW z, RepAdd(q, msg, z), NEW o,
           msg.object # o \/ msg.kind \notin {"sync", "call"} \/ (msg.kind = "call" /\ msg.arg = -1),
           NEW a, NEW b, NEW v0, NEW v1, NEW s
    PROVE  /\ RepValued(o, a, b, v0, v1, q, s) => RepValued(o, a, b, v0, v1, z, s)
           /\ RepValued(o, a, b, v0, v1, s, q) => RepValued(o, a, b, v0, v1, s, z)
<1>1. /\ RepSilent(q, o) => RepSilent(z, o)
      /\ RepLeft(q, o) => RepLeft(z, o)
  BY RepAdds
<1>2. ASSUME NEW v, NEW e, RepEnds(q, o, v, e)
      PROVE  RepEnds(z, o, v, e)
  BY <1>2, RepAdds
<1> QED BY <1>1, <1>2 DEF RepValued

\* Who has authority over o writes v to it.
RepWrite(m, w, o, v, msg, u) ==
    /\ w.authority[o] = m
    /\ u.player = w.player /\ u.authority = w.authority
    /\ \A i \in Object : u.value[i] = IF i = o THEN v ELSE w.value[i]
    /\ msg.kind = "sync" /\ msg.object = o /\ msg.arg = v

\* The owner writes a value and sends it.
LEMMA RepWrites ==
    ASSUME NEW ordered \in BOOLEAN, NEW m \in Rep!Slot, NEW w, NEW x, NEW q \in Seq(RepMsg), NEW p \in Seq(RepMsg),
           NEW o \in Object, NEW v, NEW msg, NEW u, RepWrite(m, w, o, v, msg, u),
           NEW z, RepAdd(p, msg, z), RepFits(ordered, m, w, x, q, p)
    PROVE  RepFits(ordered, m, u, x, q, z)
<1>0. /\ w.authority[o] = m /\ u.player = w.player /\ u.authority = w.authority
      /\ \A i \in Object : u.value[i] = IF i = o THEN v ELSE w.value[i]
      /\ msg.kind = "sync" /\ msg.object = o /\ msg.arg = v
  BY DEF RepWrite
<1>1. msg.kind # "authority"
  BY <1>0
<1>2. \A i, d, e : /\ RepEnds(p, o, d, e) => RepEnds(z, o, d, v)
                   /\ i # o => (RepEnds(p, i, d, e) => RepEnds(z, i, d, e))
  BY <1>0, RepAdds
<1>3. CASE m = 0
  <2>1. \A i \in Object :
          /\ RepOwned(i, i \in w.player, w.authority[i], x.authority[i], q, p)
          /\ ordered => RepValued(i, w.authority[i], x.authority[i], w.value[i], x.value[i], q, p)
    BY <1>3 DEF RepFits, RepFine
  <2>2. ASSUME NEW i \in Object
        PROVE  RepOwned(i, i \in u.player, u.authority[i], x.authority[i], q, z)
    BY <1>0, <1>1, <2>1, RepOwnedAdds
  <2>3. ASSUME ordered, NEW i \in Object
        PROVE  RepValued(i, u.authority[i], x.authority[i], u.value[i], x.value[i], q, z)
    <3>1. RepValued(i, w.authority[i], x.authority[i], w.value[i], x.value[i], q, p)
      BY <2>1, <2>3
    <3>2. CASE i = o
      BY <1>0, <1>3, <2>1, <3>1, <3>2, <1>2 DEF RepOwned, RepValued
    <3>3. CASE i # o
      BY <1>0, <3>1, <3>3, RepAddsOther
    <3> QED BY <3>2, <3>3
  <2> QED BY <1>3, <2>2, <2>3 DEF RepFits, RepFine
<1>4. CASE m = 1
  <2>1. \A i \in Object :
          /\ RepOwned(i, i \in x.player, x.authority[i], w.authority[i], p, q)
          /\ ordered => RepValued(i, x.authority[i], w.authority[i], x.value[i], w.value[i], p, q)
    BY <1>4 DEF RepFits, RepFine
  <2>2. ASSUME NEW i \in Object
        PROVE  RepOwned(i, i \in x.player, x.authority[i], u.authority[i], z, q)
    BY <1>0, <1>1, <2>1, RepOwnedAdds
  <2>3. ASSUME ordered, NEW i \in Object
        PROVE  RepValued(i, x.authority[i], u.authority[i], x.value[i], u.value[i], z, q)
    <3>1. RepValued(i, x.authority[i], w.authority[i], x.value[i], w.value[i], p, q)
      BY <2>1, <2>3
    <3>2. CASE i = o
      BY <1>0, <1>4, <3>1, <3>2, <1>2 DEF RepValued
    <3>3. CASE i # o
      BY <1>0, <3>1, <3>3, RepAddsOther
    <3> QED BY <3>2, <3>3
  <2> QED BY <1>4, <2>2, <2>3 DEF RepFits, RepFine
<1> QED BY <1>3, <1>4 DEF Rep!Slot

\* A write that is not sent in order: who owns what is as it was.
LEMMA RepWritesAlone ==
    ASSUME NEW m \in Rep!Slot, NEW w, NEW x, NEW q, NEW p, NEW o, NEW v, NEW msg, NEW u, RepWrite(m, w, o, v, msg, u),
           RepFits(FALSE, m, w, x, q, p)
    PROVE  RepFits(FALSE, m, u, x, q, p)
  BY DEF RepWrite, RepFits, RepFine

\* An RPC is sent with the value its caller knows.
RepCalling(m, w, o, msg) ==
    /\ msg.kind = "call" /\ msg.object = o
    /\ msg.arg = -1 \/ (w.authority[o] = m /\ msg.arg = w.value[o])

\* An RPC that is sent finds its value when it comes.
LEMMA RepCallsAdd ==
    ASSUME NEW ordered \in BOOLEAN, NEW m \in Rep!Slot, NEW w, NEW x, NEW q \in Seq(RepMsg), NEW p \in Seq(RepMsg),
           NEW o \in Object, NEW msg, RepCalling(m, w, o, msg),
           NEW z, RepAdd(p, msg, z), RepFits(ordered, m, w, x, q, p)
    PROVE  RepFits(ordered, m, w, x, q, z)
<1>0. /\ msg.kind = "call" /\ msg.object = o
      /\ msg.arg = -1 \/ (w.authority[o] = m /\ msg.arg = w.value[o])
  BY DEF RepCalling
<1>1. msg.kind # "authority"
  BY <1>0
<1>2. ASSUME NEW d, msg.arg = w.value[o], RepEnds(p, o, d, w.value[o])
      PROVE  RepEnds(z, o, d, w.value[o])
  BY <1>0, <1>2, RepAdds
<1>3. CASE m = 0
  <2>1. \A i \in Object :
          /\ RepOwned(i, i \in w.player, w.authority[i], x.authority[i], q, p)
          /\ ordered => RepValued(i, w.authority[i], x.authority[i], w.value[i], x.value[i], q, p)
    BY <1>3 DEF RepFits, RepFine
  <2>2. ASSUME NEW i \in Object
        PROVE  RepOwned(i, i \in w.player, w.authority[i], x.authority[i], q, z)
    BY <1>1, <2>1, RepOwnedAdds
  <2>3. ASSUME ordered, NEW i \in Object
        PROVE  RepValued(i, w.authority[i], x.authority[i], w.value[i], x.value[i], q, z)
    <3>1. RepValued(i, w.authority[i], x.authority[i], w.value[i], x.value[i], q, p)
      BY <2>1, <2>3
    <3>2. CASE i = o /\ msg.arg # -1
      BY <1>0, <1>3, <2>1, <3>2, <3>1, <1>2 DEF RepOwned, RepValued
    <3>3. CASE i # o \/ msg.arg = -1
      BY <1>0, <3>1, <3>3, RepAddsOther
    <3> QED BY <3>2, <3>3
  <2> QED BY <1>3, <2>2, <2>3 DEF RepFits, RepFine
<1>4. CASE m = 1
  <2>1. \A i \in Object :
          /\ RepOwned(i, i \in x.player, x.authority[i], w.authority[i], p, q)
          /\ ordered => RepValued(i, x.authority[i], w.authority[i], x.value[i], w.value[i], p, q)
    BY <1>4 DEF RepFits, RepFine
  <2>2. ASSUME NEW i \in Object
        PROVE  RepOwned(i, i \in x.player, x.authority[i], w.authority[i], z, q)
    BY <1>1, <2>1, RepOwnedAdds
  <2>3. ASSUME ordered, NEW i \in Object
        PROVE  RepValued(i, x.authority[i], w.authority[i], x.value[i], w.value[i], z, q)
    <3>1. RepValued(i, x.authority[i], w.authority[i], x.value[i], w.value[i], p, q)
      BY <2>1, <2>3
    <3>2. CASE i = o /\ msg.arg # -1
      BY <1>0, <1>4, <3>2, <3>1, <1>2 DEF RepValued
    <3>3. CASE i # o \/ msg.arg = -1
      BY <1>0, <3>1, <3>3, RepAddsOther
    <3> QED BY <3>2, <3>3
  <2> QED BY <1>4, <2>2, <2>3 DEF RepFits, RepFine
<1> QED BY <1>3, <1>4 DEF Rep!Slot

\* The master destroys an object.
LEMMA RepDestroys ==
    ASSUME NEW ordered \in BOOLEAN, NEW w, NEW x, NEW q \in Seq(RepMsg), NEW p \in Seq(RepMsg),
           NEW msg, msg.kind = "destroy", NEW z, RepAdd(p, msg, z), RepFine(ordered, w, x, q, p)
    PROVE  RepFine(ordered, w, x, q, z)
<1>1. msg.kind # "authority" /\ msg.kind \notin {"sync", "call"}
  OBVIOUS
<1>2. ASSUME NEW i \in Object
      PROVE  RepOwned(i, i \in w.player, w.authority[i], x.authority[i], q, z)
  BY <1>1, RepOwnedAdds DEF RepFine
<1>3. ASSUME ordered, NEW i \in Object
      PROVE  RepValued(i, w.authority[i], x.authority[i], w.value[i], x.value[i], q, z)
  BY <1>3, <1>1, RepAddsOther DEF RepFine
<1> QED BY <1>2, <1>3 DEF RepFine

\* The master gives o, which it has not given away before, to slot.
RepGive(w, o, slot, msg, u) ==
    /\ u.player = w.player \cup {o} /\ u.value = w.value
    /\ \A i \in Object : u.authority[i] = IF i = o THEN slot ELSE w.authority[i]
    /\ msg.kind = "authority" /\ msg.object = o /\ msg.arg = slot

\* The master gives an object away.
LEMMA RepGives ==
    ASSUME NEW ordered \in BOOLEAN, NEW w, NEW x, NEW q \in Seq(RepMsg), NEW p \in Seq(RepMsg),
           NEW o \in Object, o \notin w.player, NEW slot \in Rep!Slot, NEW msg, NEW u, RepGive(w, o, slot, msg, u),
           NEW z, RepAdd(p, msg, z), RepFine(ordered, w, x, q, p)
    PROVE  RepFine(ordered, u, x, q, z)
<1>0. /\ \A i \in Object : i \in u.player <=> i \in w.player \/ i = o
      /\ u.value = w.value
      /\ \A i \in Object : u.authority[i] = IF i = o THEN slot ELSE w.authority[i]
      /\ msg.kind = "authority" /\ msg.object = o /\ msg.arg = slot
  BY DEF RepGive
<1>1. \A i \in Object :
        /\ RepOwned(i, i \in w.player, w.authority[i], x.authority[i], q, p)
        /\ ordered => RepValued(i, w.authority[i], x.authority[i], w.value[i], x.value[i], q, p)
  BY DEF RepFine
<1>2. /\ \A i \in 1 .. Len(z) : z[i] = msg \/ \E j \in 1 .. Len(p) : z[i] = p[j]
      /\ \A i \in 1 .. Len(p) : i \in 1 .. Len(z) /\ z[i] = p[i]
      /\ Len(z) \in 1 .. Len(z) /\ z[Len(z)] = msg
  BY RepAdds
<1>3. /\ w.authority[o] = 0 /\ x.authority[o] = 0
      /\ \A i \in 1 .. Len(q) : ~RepOrder(q, i, o)
      /\ \A i \in 1 .. Len(p) : ~RepOrder(p, i, o)
  BY <1>1 DEF RepOwned
<1>4. ASSUME NEW i \in Object
      PROVE  RepOwned(i, i \in u.player, u.authority[i], x.authority[i], q, z)
  <2>1. CASE i = o
    BY <1>0, <1>2, <1>3, <2>1 DEF RepOrder, RepOwned
  <2>2. CASE i # o
    <3>1. RepOwned(i, i \in w.player, w.authority[i], x.authority[i], q, p)
      BY <1>1
    <3>2. \A j \in 1 .. Len(z) : RepOrder(z, j, i) => \E h \in 1 .. Len(p) : RepOrder(p, h, i) /\ z[j] = p[h]
      BY <1>0, <1>2, <2>2 DEF RepOrder
    <3>3. \A j \in 1 .. Len(p) : RepOrder(p, j, i) => RepOrder(z, j, i)
      BY <1>2 DEF RepOrder
    <3>4. u.authority[i] = w.authority[i] /\ (i \in u.player <=> i \in w.player)
      BY <1>0, <2>2
    <3>5. /\ \A j \in 1 .. Len(p) : RepOrder(p, j, i) => i \in w.player /\ p[j].arg = w.authority[i]
          /\ x.authority[i] # w.authority[i] => \E j \in 1 .. Len(p) : RepOrder(p, j, i)
          /\ x.authority[i] \in {0, w.authority[i]} /\ (i \notin w.player => w.authority[i] = 0)
          /\ \A j \in 1 .. Len(q) : ~RepOrder(q, j, i)
      BY <3>1 DEF RepOwned
    <3>6. \A j \in 1 .. Len(z) : RepOrder(z, j, i) => i \in w.player /\ z[j].arg = w.authority[i]
      BY <3>2, <3>5
    <3>7. x.authority[i] # w.authority[i] => \E j \in 1 .. Len(z) : RepOrder(z, j, i)
      BY <1>2, <3>3, <3>5
    <3> QED BY <3>4, <3>5, <3>6, <3>7 DEF RepOwned
  <2> QED BY <2>1, <2>2
<1>5. ASSUME ordered, NEW i \in Object
      PROVE  RepValued(i, u.authority[i], x.authority[i], u.value[i], x.value[i], q, z)
  <2>1. RepValued(i, w.authority[i], x.authority[i], w.value[i], x.value[i], q, p)
    BY <1>1, <1>5
  <2>2. RepValued(i, w.authority[i], x.authority[i], w.value[i], x.value[i], q, z)
    BY <1>0, <2>1, RepAddsOther
  <2>3. CASE i = o
    <3>1. RepEnds(z, o, x.value[o], w.value[o]) /\ RepSilent(q, o)
      BY <1>3, <2>2, <2>3 DEF RepValued
    <3>2. ASSUME NEW j \in 1 .. Len(z), RepOrder(z, j, o), NEW h \in j + 1 .. Len(z)
          PROVE  FALSE
      BY <1>2, <1>3, <3>2 DEF RepAdd, RepOrder
    <3>3. RepLeft(z, o)
      BY <3>2 DEF RepLeft
    <3> QED BY <1>0, <1>3, <2>3, <3>1, <3>3 DEF RepValued
  <2>4. CASE i # o
    BY <1>0, <2>2, <2>4
  <2> QED BY <2>3, <2>4
<1> QED BY <1>4, <1>5 DEF RepFine

\* The actions.
LEMMA RepRecord ==
    ASSUME NEW w \in RepMachine
    PROVE  /\ w.begun \in SUBSET Object /\ w.stopped \in SUBSET Object /\ w.player \in SUBSET Object
           /\ w.odd \in BOOLEAN /\ w.saved \in Seq(RepMsg)
           /\ w.value \in [Object -> Int] /\ w.authority \in [Object -> Int]
           /\ w = [begun |-> w.begun, stopped |-> w.stopped, player |-> w.player, odd |-> w.odd, saved |-> w.saved,
                   value |-> w.value, authority |-> w.authority]
  BY DEF RepMachine

\* A record of such parts is a machine.
LEMMA RepWith ==
    ASSUME NEW w \in RepMachine, NEW begun \in SUBSET Object, NEW stopped \in SUBSET Object,
           NEW player \in SUBSET Object, NEW value \in [Object -> Int], NEW authority \in [Object -> Int]
    PROVE  [begun |-> begun, stopped |-> stopped, player |-> player, odd |-> w.odd, saved |-> w.saved,
            value |-> value, authority |-> authority] \in RepMachine
  BY DEF RepMachine

\* SetSyncVar: by TCP it comes after all that was sent, by UDP only who owns what is kept.
LEMMA RepSetSyncVar ==
    ASSUME NEW ordered \in BOOLEAN, ordered => "Unreliable" \notin may,
           RepState(ordered, machine, tcp, udp, writes), NEW m \in Rep!Slot, NEW o \in Object, Rep!SetSyncVar(m, o)
    PROVE  RepState(ordered, machine', tcp', udp', writes')
<1> DEFINE h == Rep!Other(m)
<1>1. PICK w \in RepMachine : w = machine[m]
  BY RepOf
<1>2. PICK x \in RepMachine : x = machine[h]
  BY RepOf
<1>3. writes \in Nat /\ writes + 1 \in Nat /\ writes + 1 \in Int /\ machine \in [Rep!Slot -> RepMachine]
  BY DEF RepState
<1>4. PICK value : value = [w.value EXCEPT ![o] = writes + 1]
  OBVIOUS
<1>5. value \in [Object -> Int] /\ \A i \in Object : value[i] = IF i = o THEN writes + 1 ELSE w.value[i]
  BY <1>3, <1>4, RepRecord
<1>6. PICK u : u = [begun |-> w.begun, stopped |-> w.stopped, player |-> w.player, odd |-> w.odd, saved |-> w.saved,
                    value |-> value, authority |-> w.authority]
  OBVIOUS
<1>7. u \in RepMachine
  BY <1>5, <1>6, RepRecord, RepWith
<1>8. /\ u.begun = w.begun /\ u.stopped = w.stopped /\ u.player = w.player /\ u.odd = w.odd /\ u.saved = w.saved
      /\ u.value = value /\ u.authority = w.authority
  BY <1>6
<1>9. PICK msg : msg = Rep!Msg("sync", o, writes + 1)
  OBVIOUS
<1>10. msg \in RepMsg /\ msg.kind = "sync" /\ msg.object = o /\ msg.arg = writes + 1
  BY <1>3, <1>9 DEF Rep!Msg, RepMsg, RepKinds
<1>11. /\ w.authority[o] = m /\ writes' = writes + 1
       /\ machine' = [machine EXCEPT ![m].value[o] = writes + 1]
       /\ \/ tcp' = [tcp EXCEPT ![h] = @ \o <<msg>>] /\ udp' = udp
          \/ "Unreliable" \in may /\ udp' = [udp EXCEPT ![h] = @ \cup {msg}] /\ tcp' = tcp
  BY <1>1, <1>9 DEF Rep!SetSyncVar, Rep!HasAuthority, Rep!Send
<1>12. machine' = [machine EXCEPT ![m] = u]
  <2>1. machine' = [machine EXCEPT ![m] = [w EXCEPT !.value = value]]
    BY <1>1, <1>3, <1>4, <1>11
  <2>2. [w EXCEPT !.value = value] = u
    <3>1. w = [begun |-> w.begun, stopped |-> w.stopped, player |-> w.player, odd |-> w.odd, saved |-> w.saved,
               value |-> w.value, authority |-> w.authority]
      BY RepRecord
    <3> QED BY <1>6, <3>1
  <2> QED BY <2>1, <2>2
<1>13. RepWrite(m, w, o, writes + 1, msg, u)
  BY <1>5, <1>8, <1>10, <1>11 DEF RepWrite
<1>14. RepResting(u) /\ (ordered /\ ~machine[m].odd => ~u.odd)
  BY <1>1, <1>8 DEF RepState, RepResting
<1>15. /\ machine[m].saved \o tcp[m] \in Seq(RepMsg) /\ x.saved \o tcp[h] \in Seq(RepMsg)
       /\ RepFits(ordered, m, w, x, machine[m].saved \o tcp[m], x.saved \o tcp[h])
       /\ tcp[m] \in Seq(RepMsg) /\ tcp[h] \in Seq(RepMsg) /\ h \in Rep!Slot /\ h # m
  BY <1>1, <1>2, RepOf
<1> HIDE DEF h
<1>16. CASE tcp' = [tcp EXCEPT ![h] = @ \o <<msg>>] /\ udp' = udp
  <2>1. ASSUME NEW z, RepAdd(machine[h].saved \o tcp[h], msg, z)
        PROVE  RepFits(ordered, m, u, machine[h], machine[m].saved \o tcp[m], z)
    <3>1. PICK q \in Seq(RepMsg) : q = machine[m].saved \o tcp[m]
      BY <1>15
    <3>2. PICK p \in Seq(RepMsg) : p = x.saved \o tcp[h]
      BY <1>15
    <3>3. RepAdd(p, msg, z) /\ RepFits(ordered, m, w, x, q, p)
      BY <1>2, <1>15, <2>1, <3>1, <3>2
    <3>4. RepFits(ordered, m, u, x, q, z)
      BY <1>13, <3>3, RepWrites
    <3> QED BY <1>2, <3>1, <3>4
  <2>2. RepSentTo(m, machine, tcp, u, msg, machine', tcp')
    BY <1>1, <1>8, <1>12, <1>16 DEF RepSentTo, h
  <2>3. RepState(ordered, machine', tcp', udp, writes + 1)
    BY <1>3, <1>7, <1>10, <1>14, <2>1, <2>2, RepSent DEF h
  <2> QED BY <1>11, <1>16, <2>3
<1>17. CASE "Unreliable" \in may /\ udp' = [udp EXCEPT ![h] = @ \cup {msg}] /\ tcp' = tcp
  <2>1. ordered = FALSE
    BY <1>17
  <2>2. RepFits(ordered, m, u, x, machine[m].saved \o tcp[m], x.saved \o tcp[h])
    BY <1>13, <1>15, <2>1, RepWritesAlone
  <2>3. RepMove(ordered, m, machine, u, tcp[m], tcp[h])
    BY <1>1, <1>2, <1>7, <1>8, <1>14, <1>15, <2>2 DEF RepMove, h
  <2>4. RepTo(m, machine, u, tcp[m], tcp[h], machine', tcp')
    BY <1>12, <1>15, <1>17 DEF RepTo, RepState, h
  <2>5. RepState(ordered, machine', tcp', udp, writes + 1)
    BY <1>3, <2>3, <2>4, RepBecomes
  <2>6. udp' \in [Rep!Slot -> SUBSET RepMsg] /\ \A i \in Rep!Slot : \A y \in udp'[i] : y.kind = "sync"
    BY <1>10, <1>15, <1>17 DEF RepState
  <2> QED BY <1>11, <2>1, <2>5, <2>6 DEF RepState
<1> QED BY <1>11, <1>16, <1>17

\* Multicast and CallMaster.
LEMMA RepCallsSent ==
    ASSUME NEW ordered \in BOOLEAN, RepState(ordered, machine, tcp, udp, writes),
           NEW m \in Rep!Slot, NEW o \in Object, Rep!Multicast(m, o) \/ Rep!CallMaster(m, o)
    PROVE  RepState(ordered, machine', tcp', udp', writes')
<1> DEFINE h == Rep!Other(m)
<1>1. PICK w \in RepMachine : w = machine[m]
  BY RepOf
<1>2. PICK x \in RepMachine : x = machine[h]
  BY RepOf
<1>3. writes \in Nat /\ machine \in [Rep!Slot -> RepMachine]
  BY DEF RepState
<1>4. PICK msg : msg = Rep!Msg("call", o, Rep!Arg(m, o))
  OBVIOUS
<1>5. Rep!Arg(m, o) \in Int /\ (Rep!Arg(m, o) = -1 \/ (w.authority[o] = m /\ Rep!Arg(m, o) = w.value[o]))
  BY RepRecord, <1>1 DEF Rep!Arg, Rep!HasAuthority
<1>6. msg \in RepMsg /\ RepCalling(m, w, o, msg)
  BY <1>4, <1>5 DEF Rep!Msg, RepMsg, RepKinds, RepCalling
<1>7. tcp' = [tcp EXCEPT ![h] = @ \o <<msg>>] /\ UNCHANGED <<machine, udp, writes>>
  BY <1>4 DEF Rep!Multicast, Rep!CallMaster, Rep!Send
<1>8. RepResting(w)
  BY <1>1 DEF RepState
<1>9. /\ machine[m].saved \o tcp[m] \in Seq(RepMsg) /\ x.saved \o tcp[h] \in Seq(RepMsg)
      /\ RepFits(ordered, m, w, x, machine[m].saved \o tcp[m], x.saved \o tcp[h])
  BY <1>1, <1>2, RepOf
<1> HIDE DEF h
<1>10. ASSUME NEW z, RepAdd(machine[h].saved \o tcp[h], msg, z)
       PROVE  RepFits(ordered, m, w, machine[h], machine[m].saved \o tcp[m], z)
  <2>1. PICK q \in Seq(RepMsg) : q = machine[m].saved \o tcp[m]
    BY <1>9
  <2>2. PICK p \in Seq(RepMsg) : p = x.saved \o tcp[h]
    BY <1>9
  <2>3. RepAdd(p, msg, z) /\ RepFits(ordered, m, w, x, q, p)
    BY <1>2, <1>9, <1>10, <2>1, <2>2
  <2>4. RepFits(ordered, m, w, x, q, z)
    BY <1>6, <2>3, RepCallsAdd
  <2> QED BY <1>2, <2>1, <2>4
<1>11. machine' = [machine EXCEPT ![m] = w]
  BY <1>1, <1>3, <1>7
<1>12. RepSentTo(m, machine, tcp, w, msg, machine', tcp')
  BY <1>1, <1>7, <1>11 DEF RepSentTo, h
<1>13. RepState(ordered, machine', tcp', udp, writes)
  BY <1>1, <1>3, <1>6, <1>8, <1>10, <1>12, RepSent DEF h
<1> QED BY <1>7, <1>13

\* SetAuthority, which the master does once for an object.
LEMMA RepSetAuthority ==
    ASSUME NEW ordered \in BOOLEAN, RepState(ordered, machine, tcp, udp, writes), NEW o \in Object, Rep!SetAuthority(o)
    PROVE  RepState(ordered, machine', tcp', udp', writes')
<1>0. 0 \in Rep!Slot /\ Rep!Other(0) = 1 /\ Rep!Slot \subseteq Int
  BY DEF Rep!Slot, Rep!Other
<1>1. PICK w \in RepMachine : w = machine[0]
  BY <1>0, RepOf
<1>2. PICK x \in RepMachine : x = machine[1]
  BY <1>0, RepOf
<1>3. writes \in Nat /\ machine \in [Rep!Slot -> RepMachine]
  BY DEF RepState
<1>4. PICK slot \in Rep!Slot : /\ machine' = [machine EXCEPT ![0] = Rep!SetAuthorityBody(@, o, slot)]
                               /\ Rep!Send(0, <<Rep!Msg("authority", o, slot)>>)
  BY DEF Rep!SetAuthority
<1>5. PICK msg : msg = Rep!Msg("authority", o, slot)
  OBVIOUS
<1>6. PICK player : player = w.player \cup {o}
  OBVIOUS
<1>7. PICK authority : authority = [w.authority EXCEPT ![o] = slot]
  OBVIOUS
<1>8. PICK u : u = [begun |-> w.begun, stopped |-> w.stopped, player |-> player, odd |-> w.odd, saved |-> w.saved,
                    value |-> w.value, authority |-> authority]
  OBVIOUS
<1>9. /\ player \in SUBSET Object /\ authority \in [Object -> Int]
      /\ \A i \in Object : authority[i] = IF i = o THEN slot ELSE w.authority[i]
  BY <1>0, <1>6, <1>7, RepRecord
<1>10. u \in RepMachine
  BY <1>8, <1>9, RepRecord, RepWith
<1>11. /\ u.begun = w.begun /\ u.stopped = w.stopped /\ u.player = player /\ u.odd = w.odd /\ u.saved = w.saved
       /\ u.value = w.value /\ u.authority = authority
  BY <1>8
<1>12. Rep!SetAuthorityBody(w, o, slot) = u
  <2>1. w = [begun |-> w.begun, stopped |-> w.stopped, player |-> w.player, odd |-> w.odd, saved |-> w.saved,
             value |-> w.value, authority |-> w.authority]
    BY RepRecord
  <2>2. [w EXCEPT !.player = player]
        = [begun |-> w.begun, stopped |-> w.stopped, player |-> player, odd |-> w.odd, saved |-> w.saved,
           value |-> w.value, authority |-> w.authority]
    BY <2>1
  <2>3. PICK y : y = [w EXCEPT !.player = player]
    OBVIOUS
  <2>4. y = [begun |-> w.begun, stopped |-> w.stopped, player |-> player, odd |-> w.odd, saved |-> w.saved,
             value |-> w.value, authority |-> w.authority]
    BY <2>2, <2>3
  <2>5. y.authority = w.authority
    BY <2>4
  <2>6. [y EXCEPT !.authority = authority]
        = [begun |-> w.begun, stopped |-> w.stopped, player |-> player, odd |-> w.odd, saved |-> w.saved,
           value |-> w.value, authority |-> authority]
    BY <2>4
  <2>7. [y EXCEPT !.authority = authority] = u
    BY <1>8, <2>6
  <2> QED BY <1>6, <1>7, <2>3, <2>5, <2>7 DEF Rep!SetAuthorityBody
<1>13. machine' = [machine EXCEPT ![0] = u]
  BY <1>1, <1>4, <1>12
<1>14. msg \in RepMsg /\ msg.kind = "authority" /\ msg.object = o /\ msg.arg = slot
  BY <1>0, <1>5 DEF Rep!Msg, RepMsg, RepKinds
<1>15. RepGive(w, o, slot, msg, u) /\ o \notin w.player
  BY <1>1, <1>6, <1>9, <1>11, <1>14 DEF RepGive, Rep!SetAuthority
<1>16. tcp' = [tcp EXCEPT ![1] = @ \o <<msg>>] /\ UNCHANGED <<udp, writes>>
  BY <1>0, <1>4, <1>5 DEF Rep!Send, Rep!SetAuthority
<1>17. RepResting(u)
  BY <1>0, <1>1, <1>11 DEF RepState, RepResting
<1>18. /\ machine[0].saved \o tcp[0] \in Seq(RepMsg) /\ x.saved \o tcp[1] \in Seq(RepMsg)
       /\ RepFine(ordered, w, x, machine[0].saved \o tcp[0], x.saved \o tcp[1])
  BY <1>0, <1>1, <1>2, RepOf DEF RepFits
<1>19. ASSUME NEW z, RepAdd(machine[1].saved \o tcp[1], msg, z)
       PROVE  RepFits(ordered, 0, u, machine[1], machine[0].saved \o tcp[0], z)
  <2>1. PICK q \in Seq(RepMsg) : q = machine[0].saved \o tcp[0]
    BY <1>18
  <2>2. PICK p \in Seq(RepMsg) : p = x.saved \o tcp[1]
    BY <1>18
  <2>3. RepAdd(p, msg, z) /\ RepFine(ordered, w, x, q, p)
    BY <1>2, <1>18, <1>19, <2>1, <2>2
  <2>4. RepFine(ordered, u, x, q, z)
    BY <1>15, <2>3, RepGives
  <2> QED BY <1>2, <2>1, <2>4 DEF RepFits
<1>20. RepSentTo(0, machine, tcp, u, msg, machine', tcp')
  BY <1>0, <1>1, <1>11, <1>13, <1>16 DEF RepSentTo
<1>21. RepState(ordered, machine', tcp', udp, writes)
  BY <1>0, <1>1, <1>3, <1>10, <1>11, <1>14, <1>17, <1>19, <1>20, RepSent
<1> QED BY <1>16, <1>21

\* NetworkDestroy.
LEMMA RepNetworkDestroy ==
    ASSUME NEW ordered \in BOOLEAN, RepState(ordered, machine, tcp, udp, writes), NEW o \in Object, Rep!NetworkDestroy(o)
    PROVE  RepState(ordered, machine', tcp', udp', writes')
<1>0. 0 \in Rep!Slot /\ Rep!Other(0) = 1
  BY DEF Rep!Slot, Rep!Other
<1>1. PICK w \in RepMachine : w = machine[0]
  BY <1>0, RepOf
<1>2. PICK x \in RepMachine : x = machine[1]
  BY <1>0, RepOf
<1>3. writes \in Nat /\ machine \in [Rep!Slot -> RepMachine]
  BY DEF RepState
<1>4. PICK msg : msg = Rep!Msg("destroy", o, 0)
  OBVIOUS
<1>5. PICK begun : begun = w.begun \ {o}
  OBVIOUS
<1>6. PICK u : u = [begun |-> begun, stopped |-> w.stopped, player |-> w.player, odd |-> w.odd, saved |-> w.saved,
                    value |-> w.value, authority |-> w.authority]
  OBVIOUS
<1>7. begun \in SUBSET Object /\ begun \subseteq w.begun
  BY <1>5, RepRecord
<1>8. u \in RepMachine
  BY <1>6, <1>7, RepRecord, RepWith
<1>9. /\ u.begun = begun /\ u.stopped = w.stopped /\ u.player = w.player /\ u.odd = w.odd /\ u.saved = w.saved
      /\ u.value = w.value /\ u.authority = w.authority
  BY <1>6
<1>10. Rep!DestroyBody(w, o) = u
  <2>1. w = [begun |-> w.begun, stopped |-> w.stopped, player |-> w.player, odd |-> w.odd, saved |-> w.saved,
             value |-> w.value, authority |-> w.authority]
    BY RepRecord
  <2> QED BY <1>5, <1>6, <2>1 DEF Rep!DestroyBody, Rep!RemoveObject
<1>11. machine' = [machine EXCEPT ![0] = u]
  BY <1>1, <1>10 DEF Rep!NetworkDestroy
<1>12. msg \in RepMsg /\ msg.kind = "destroy"
  BY <1>4 DEF Rep!Msg, RepMsg, RepKinds
<1>13. tcp' = [tcp EXCEPT ![1] = @ \o <<msg>>] /\ UNCHANGED <<udp, writes>>
  BY <1>0, <1>4 DEF Rep!Send, Rep!NetworkDestroy
<1>14. RepResting(u)
  BY <1>0, <1>1, <1>7, <1>9 DEF RepState, RepResting
<1>15. /\ machine[0].saved \o tcp[0] \in Seq(RepMsg) /\ x.saved \o tcp[1] \in Seq(RepMsg)
       /\ RepFine(ordered, w, x, machine[0].saved \o tcp[0], x.saved \o tcp[1])
  BY <1>0, <1>1, <1>2, RepOf DEF RepFits
<1>16. ASSUME NEW z, RepAdd(machine[1].saved \o tcp[1], msg, z)
       PROVE  RepFits(ordered, 0, u, machine[1], machine[0].saved \o tcp[0], z)
  <2>1. PICK q \in Seq(RepMsg) : q = machine[0].saved \o tcp[0]
    BY <1>15
  <2>2. PICK p \in Seq(RepMsg) : p = x.saved \o tcp[1]
    BY <1>15
  <2>3. RepAdd(p, msg, z) /\ RepFine(ordered, w, x, q, p)
    BY <1>2, <1>15, <1>16, <2>1, <2>2
  <2>4. RepFine(ordered, w, x, q, z)
    BY <1>12, <2>3, RepDestroys
  <2>5. RepFine(ordered, u, x, q, z)
    BY <1>9, <2>4 DEF RepFine
  <2> QED BY <1>2, <2>1, <2>5 DEF RepFits
<1>17. RepSentTo(0, machine, tcp, u, msg, machine', tcp')
  BY <1>0, <1>1, <1>9, <1>11, <1>13 DEF RepSentTo
<1>18. RepState(ordered, machine', tcp', udp, writes)
  BY <1>0, <1>1, <1>3, <1>8, <1>9, <1>12, <1>14, <1>16, <1>17, RepSent
<1> QED BY <1>13, <1>18

\* What happens on machine m alone: s is left of what is under way to it.
LEMMA RepAlone ==
    ASSUME NEW ordered \in BOOLEAN, RepState(ordered, machine, tcp, udp, writes), NEW m \in Rep!Slot,
           NEW u \in RepMachine, RepResting(u), ordered /\ ~machine[m].odd => ~u.odd, NEW s \in Seq(RepMsg),
           RepFits(ordered, m, u, machine[Rep!Other(m)], u.saved \o s,
                   machine[Rep!Other(m)].saved \o tcp[Rep!Other(m)])
    PROVE  RepState(ordered, [machine EXCEPT ![m] = u], [tcp EXCEPT ![m] = s], udp, writes)
<1> DEFINE h == Rep!Other(m)
<1>1. h \in Rep!Slot /\ h # m /\ tcp[h] \in Seq(RepMsg) /\ writes \in Nat /\ tcp \in [Rep!Slot -> Seq(RepMsg)]
  <2>1. writes \in Nat /\ tcp \in [Rep!Slot -> Seq(RepMsg)]
    BY DEF RepState
  <2> QED BY <2>1, RepOf
<1>2. RepMove(ordered, m, machine, u, s, tcp[h])
  BY <1>1 DEF RepMove
<1>3. PICK t : t = [tcp EXCEPT ![m] = s]
  OBVIOUS
<1>4. PICK mach : mach = [machine EXCEPT ![m] = u]
  OBVIOUS
<1> HIDE DEF h
<1>5. t \in [Rep!Slot -> Seq(RepMsg)] /\ t[m] = s /\ t[h] = tcp[h]
  BY <1>1, <1>3
<1>6. RepTo(m, machine, u, s, tcp[h], mach, t)
  BY <1>4, <1>5 DEF RepTo, h
<1>7. RepState(ordered, mach, t, udp, writes)
  BY <1>1, <1>2, <1>6, RepBecomes
<1> QED BY <1>3, <1>4, <1>7

\* RecvTCP: the first message under way is taken.
LEMMA RepRecvTCP ==
    ASSUME NEW ordered \in BOOLEAN, RepState(ordered, machine, tcp, udp, writes), NEW m \in Rep!Slot, Rep!RecvTCP(m)
    PROVE  RepState(ordered, machine', tcp', udp', writes')
<1>1. PICK w \in RepMachine : w = machine[m]
  BY RepOf
<1>2. PICK x \in RepMachine : x = machine[Rep!Other(m)]
  BY RepOf
<1>3. PICK rest \in Seq(RepMsg) : rest = tcp[m]
  BY RepOf
<1>4. PICK u : u = Rep!SendToObject(m, w, Head(rest))
  OBVIOUS
<1>5. PICK p \in Seq(RepMsg) : p = x.saved \o tcp[Rep!Other(m)]
  BY <1>2, RepOf
<1>6. /\ rest # << >> /\ machine' = [machine EXCEPT ![m] = u] /\ tcp' = [tcp EXCEPT ![m] = Tail(rest)]
      /\ UNCHANGED <<udp, writes>>
  BY <1>1, <1>3, <1>4 DEF Rep!RecvTCP
<1>7. RepResting(w) /\ RepFits(ordered, m, w, x, w.saved \o rest, p)
  BY <1>1, <1>2, <1>3, <1>5, RepOf DEF RepState
<1>8. /\ u \in RepMachine /\ RepResting(u)
      /\ RepFits(ordered, m, u, x, u.saved \o Tail(rest), p)
      /\ ordered /\ ~w.odd => ~u.odd
  BY <1>4, <1>6, <1>7, RepSends
<1>9. Tail(rest) \in Seq(RepMsg)
  BY <1>6, HeadTailProperties
<1>10. RepState(ordered, [machine EXCEPT ![m] = u], [tcp EXCEPT ![m] = Tail(rest)], udp, writes)
  BY <1>1, <1>2, <1>5, <1>8, <1>9, RepAlone
<1> QED BY <1>6, <1>10

\* What is saved is tried again with v, which differs in what is stopped.
RepSaveAs(v, w) ==
    v.saved = w.saved /\ v.player = w.player /\ v.odd = w.odd /\ v.value = w.value /\ v.authority = w.authority

\* The saved messages are tried again.
LEMMA RepRetried ==
    ASSUME NEW ordered \in BOOLEAN, RepState(ordered, machine, tcp, udp, writes), NEW m \in Rep!Slot,
           NEW v \in RepMachine, RepSaveAs(v, machine[m]), NEW objects,
           \A i \in 1 .. Len(v.saved) : v.saved[i].object \in objects \/ ~Rep!Reaches(v, v.saved[i]),
           machine' = [machine EXCEPT ![m] = Rep!Retry(m, v, objects)], UNCHANGED <<tcp, udp, writes>>
    PROVE  RepState(ordered, machine', tcp', udp', writes')
<1>1. PICK w \in RepMachine : w = machine[m]
  BY RepOf
<1>2. PICK x \in RepMachine : x = machine[Rep!Other(m)]
  BY RepOf
<1>3. PICK t \in Seq(RepMsg) : t = tcp[m]
  BY RepOf
<1>4. PICK u : u = Rep!Retry(m, v, objects)
  OBVIOUS
<1>5. PICK p \in Seq(RepMsg) : p = x.saved \o tcp[Rep!Other(m)]
  BY <1>2, RepOf
<1>6. RepFits(ordered, m, w, x, w.saved \o t, p)
  BY <1>1, <1>2, <1>3, <1>5, RepOf
<1>7. RepFits(ordered, m, v, x, v.saved \o t, p)
  BY <1>1, <1>6 DEF RepFits, RepFine, RepSaveAs
<1>8. /\ u \in RepMachine /\ RepResting(u)
      /\ RepFits(ordered, m, u, x, u.saved \o t, p)
      /\ ordered /\ ~v.odd => ~u.odd
  BY <1>4, <1>7, RepRetries
<1>9. ordered /\ ~machine[m].odd => ~u.odd
  BY <1>8 DEF RepSaveAs
<1>10. RepState(ordered, [machine EXCEPT ![m] = u], [tcp EXCEPT ![m] = t], udp, writes)
  BY <1>1, <1>2, <1>5, <1>8, <1>9, RepAlone
<1>11. [tcp EXCEPT ![m] = t] = tcp
  BY <1>3 DEF RepState
<1> QED BY <1>4, <1>10, <1>11

\* PlayStopSyncTime: what is saved waits still.
LEMMA RepStops ==
    ASSUME NEW ordered \in BOOLEAN, RepState(ordered, machine, tcp, udp, writes), NEW m \in Rep!Slot,
           NEW o \in Object, Rep!PlayStopSyncTime(m, o)
    PROVE  RepState(ordered, machine', tcp', udp', writes')
<1>1. PICK w \in RepMachine : w = machine[m]
  BY RepOf
<1>2. PICK x \in RepMachine : x = machine[Rep!Other(m)]
  BY RepOf
<1>3. PICK t \in Seq(RepMsg) : t = tcp[m]
  BY RepOf
<1>4. PICK stopped : stopped = w.stopped \cup {o}
  OBVIOUS
<1>5. stopped \in SUBSET Object /\ w.stopped \subseteq stopped
  BY <1>4, RepRecord
<1>6. PICK u : u = [begun |-> w.begun, stopped |-> stopped, player |-> w.player, odd |-> w.odd, saved |-> w.saved,
                    value |-> w.value, authority |-> w.authority]
  OBVIOUS
<1>7. u \in RepMachine
  BY <1>5, <1>6, RepRecord, RepWith
<1>8. /\ u.begun = w.begun /\ u.stopped = stopped /\ u.player = w.player /\ u.odd = w.odd /\ u.saved = w.saved
      /\ u.value = w.value /\ u.authority = w.authority
  BY <1>6
<1>9. machine' = [machine EXCEPT ![m] = u] /\ UNCHANGED <<tcp, udp, writes>>
  <2>1. w = [begun |-> w.begun, stopped |-> w.stopped, player |-> w.player, odd |-> w.odd, saved |-> w.saved,
             value |-> w.value, authority |-> w.authority]
    BY RepRecord
  <2>2. [w EXCEPT !.stopped = stopped] = u
    BY <1>6, <2>1
  <2>3. machine' = [machine EXCEPT ![m] = [w EXCEPT !.stopped = stopped]] /\ UNCHANGED <<tcp, udp, writes>>
    BY <1>1, <1>4 DEF Rep!PlayStopSyncTime
  <2> QED BY <2>2, <2>3
<1>10. RepResting(u)
  BY <1>1, <1>5, <1>8 DEF RepState, RepResting
<1>11. PICK p \in Seq(RepMsg) : p = x.saved \o tcp[Rep!Other(m)]
  BY <1>2, RepOf
<1>12. RepFits(ordered, m, w, x, w.saved \o t, p)
  BY <1>1, <1>2, <1>3, <1>11, RepOf
<1>13. RepFits(ordered, m, u, x, u.saved \o t, p)
  BY <1>8, <1>12 DEF RepFits, RepFine
<1>14. RepState(ordered, [machine EXCEPT ![m] = u], [tcp EXCEPT ![m] = t], udp, writes)
  BY <1>1, <1>2, <1>7, <1>8, <1>10, <1>11, <1>13, RepAlone
<1>15. [tcp EXCEPT ![m] = t] = tcp
  BY <1>3 DEF RepState
<1> QED BY <1>9, <1>14, <1>15

\* OnStopSyncEnd, which tries what waits for the object.
LEMMA RepOnStopSyncEnd ==
    ASSUME NEW ordered \in BOOLEAN, RepState(ordered, machine, tcp, udp, writes), NEW m \in Rep!Slot,
           NEW o \in Object, Rep!OnStopSyncEnd(m, o)
    PROVE  RepState(ordered, machine', tcp', udp', writes')
<1>1. PICK w \in RepMachine : w = machine[m]
  BY RepOf
<1>2. PICK stopped : stopped = w.stopped \ {o}
  OBVIOUS
<1>3. stopped \in SUBSET Object /\ \A i \in Object : i # o => (i \in stopped <=> i \in w.stopped)
  BY <1>2, RepRecord
<1>4. PICK v : v = [begun |-> w.begun, stopped |-> stopped, player |-> w.player, odd |-> w.odd, saved |-> w.saved,
                    value |-> w.value, authority |-> w.authority]
  OBVIOUS
<1>5. v \in RepMachine
  BY <1>3, <1>4, RepRecord, RepWith
<1>6. /\ v.begun = w.begun /\ v.stopped = stopped /\ v.player = w.player /\ v.odd = w.odd /\ v.saved = w.saved
      /\ v.value = w.value /\ v.authority = w.authority
  BY <1>4
<1>7. [w EXCEPT !.stopped = @ \ {o}] = v
  <2>1. w = [begun |-> w.begun, stopped |-> w.stopped, player |-> w.player, odd |-> w.odd, saved |-> w.saved,
             value |-> w.value, authority |-> w.authority]
    BY RepRecord
  <2>2. [w EXCEPT !.stopped = stopped] = v
    BY <1>4, <2>1
  <2> QED BY <1>2, <2>2
<1>8. machine' = [machine EXCEPT ![m] = Rep!Retry(m, v, {o})] /\ UNCHANGED <<tcp, udp, writes>>
  BY <1>1, <1>7 DEF Rep!OnStopSyncEnd, Rep!EnableSync
<1>9. ASSUME NEW i \in 1 .. Len(v.saved)
      PROVE  v.saved[i].object \in {o} \/ ~Rep!Reaches(v, v.saved[i])
  BY <1>1, <1>6, RepRecord, <1>3 DEF RepState, RepMsg, RepResting, Rep!Reaches
<1>10. RepSaveAs(v, w)
  BY <1>6 DEF RepSaveAs
<1> QED BY <1>1, <1>5, <1>8, <1>9, <1>10, RepRetried

\* Tick, which tries all that is saved.
LEMMA RepTick ==
    ASSUME NEW ordered \in BOOLEAN, RepState(ordered, machine, tcp, udp, writes), NEW m \in Rep!Slot,
           "Timeout" \notin may, Rep!Tick(m)
    PROVE  RepState(ordered, machine', tcp', udp', writes')
<1>1. PICK w \in RepMachine : w = machine[m]
  BY RepOf
<1>2. w.saved \in Seq(RepMsg)
  BY RepRecord
<1>3. PICK n \in 0 .. Len(w.saved) :
        /\ n > 0 => "Timeout" \in may
        /\ machine' = [machine EXCEPT ![m] =
               Rep!Retry(m, [w EXCEPT !.saved = SubSeq(w.saved, n + 1, Len(w.saved))], Object)]
  BY <1>1 DEF Rep!Tick
<1>4. n = 0
  BY <1>2, <1>3
<1>5. SubSeq(w.saved, n + 1, Len(w.saved)) = w.saved
  BY <1>2, <1>4, SubSeqFull
<1>6. [w EXCEPT !.saved = w.saved] = w
  BY RepRecord
<1>7. machine' = [machine EXCEPT ![m] = Rep!Retry(m, w, Object)] /\ UNCHANGED <<tcp, udp, writes>>
  BY <1>3, <1>5, <1>6 DEF Rep!Tick
<1>8. ASSUME NEW i \in 1 .. Len(w.saved)
      PROVE  w.saved[i].object \in Object \/ ~Rep!Reaches(w, w.saved[i])
  <2>1. w.saved[i] \in RepMsg
    BY <1>2
  <2> QED BY <2>1 DEF RepMsg
<1>9. RepSaveAs(w, w)
  BY DEF RepSaveAs
<1> QED BY <1>1, <1>7, <1>8, <1>9, RepRetried

\* t is s with a message before the i-th.
RepInserted(s, i, msg, t) == t = Rep!InsertAt(s, i, msg)

\* It has the messages of s and that one.
LEMMA RepInserts ==
    ASSUME NEW s \in Seq(RepMsg), NEW i \in 1 .. Len(s) + 1, NEW msg \in RepMsg,
           NEW t, RepInserted(s, i, msg, t)
    PROVE  /\ t \in Seq(RepMsg)
           /\ \A j \in 1 .. Len(t) : t[j] = msg \/ \E k \in 1 .. Len(s) : t[j] = s[k]
           /\ \A k \in 1 .. Len(s) : \E j \in 1 .. Len(t) : t[j] = s[k]
<1>1. PICK a : a = SubSeq(s, 1, i - 1)
  OBVIOUS
<1>2. PICK b : b = SubSeq(s, i, Len(s))
  OBVIOUS
<1>3. t = (a \o <<msg>>) \o b
  BY <1>1, <1>2 DEF RepInserted, Rep!InsertAt
<1>4. PICK n \in Nat : n = Len(s)
  OBVIOUS
<1>5. i \in Nat /\ i >= 1 /\ i <= n + 1
  BY <1>4
<1>6. /\ a \in Seq(RepMsg) /\ Len(a) = i - 1
      /\ \A j \in 1 .. i - 1 : a[j] = s[j]
  BY <1>4, <1>5, <1>1, SubSeqProperties
<1>7. /\ b \in Seq(RepMsg) /\ Len(b) = n - i + 1
      /\ \A j \in 1 .. n - i + 1 : b[j] = s[i + j - 1]
  BY <1>4, <1>5, <1>2, SubSeqProperties
<1>8. PICK d : d = a \o <<msg>>
  OBVIOUS
<1>9. d \in Seq(RepMsg) /\ Len(d) = i /\ d[i] = msg /\ \A j \in 1 .. i - 1 : d[j] = s[j]
  BY <1>6, <1>8, AppendIsConcat, AppendProperties, <1>5
<1>10. /\ t \in Seq(RepMsg) /\ Len(t) = n + 1
       /\ \A j \in 1 .. n + 1 : t[j] = IF j <= i THEN d[j] ELSE b[j - i]
  <2>1. /\ t \in Seq(RepMsg) /\ Len(t) = Len(d) + Len(b)
        /\ \A j \in 1 .. Len(d) + Len(b) : t[j] = IF j <= Len(d) THEN d[j] ELSE b[j - Len(d)]
    <3>1. t = d \o b
      BY <1>3, <1>8
    <3>2. d \in Seq(RepMsg) /\ b \in Seq(RepMsg)
      BY <1>7, <1>9
    <3> QED BY <3>1, <3>2, ConcatProperties
  <2>2. Len(d) + Len(b) = n + 1
    BY <1>4, <1>5, <1>7, <1>9
  <2> QED BY <1>9, <2>1, <2>2
<1>11. ASSUME NEW j \in 1 .. n + 1
       PROVE  t[j] = IF j < i THEN s[j] ELSE IF j = i THEN msg ELSE s[j - 1]
  <2>1. CASE j <= i
    BY <1>10, <2>1, <1>5, <1>9
  <2>2. CASE ~(j <= i)
    <3>1. t[j] = b[j - i]
      BY <1>10, <2>2
    <3>2. j - i \in 1 .. n - i + 1 /\ i + (j - i) - 1 = j - 1
      BY <1>5, <2>2
    <3>3. b[j - i] = s[i + (j - i) - 1]
      BY <1>7, <3>2
    <3> QED BY <1>5, <2>2, <3>1, <3>2, <3>3
  <2> QED BY <2>1, <2>2
<1>12. ASSUME NEW j \in 1 .. Len(t)
       PROVE  t[j] = msg \/ \E k \in 1 .. Len(s) : t[j] = s[k]
  BY <1>10, <1>4, <1>5, <1>11
<1>13. ASSUME NEW k \in 1 .. Len(s)
       PROVE  \E j \in 1 .. Len(t) : t[j] = s[k]
  <2>1. CASE k < i
    BY <1>4, <1>10, <1>11, <2>1
  <2>2. CASE ~(k < i)
    <3>1. k + 1 \in 1 .. n + 1 /\ k + 1 \in 1 .. Len(t) /\ ~(k + 1 < i) /\ k + 1 # i /\ (k + 1) - 1 = k
      BY <1>4, <1>5, <1>10, <2>2
    <3>2. t[k + 1] = s[k]
      BY <1>11, <3>1
    <3> QED BY <3>1, <3>2
  <2> QED BY <2>1, <2>2
<1> QED BY <1>10, <1>12, <1>13

\* Wherever a value comes in, who owns what is as it was.
LEMMA RepOwnedElsewhere ==
    ASSUME NEW q, NEW z, NEW msg, msg.kind # "authority",
           \A i \in 1 .. Len(z) : z[i] = msg \/ \E j \in 1 .. Len(q) : z[i] = q[j],
           \A j \in 1 .. Len(q) : \E i \in 1 .. Len(z) : z[i] = q[j],
           NEW s, NEW o, NEW p, NEW a, NEW b
    PROVE  /\ RepOwned(o, p, a, b, s, q) => RepOwned(o, p, a, b, s, z)
           /\ RepOwned(o, p, a, b, q, s) => RepOwned(o, p, a, b, z, s)
<1>1. \A i \in 1 .. Len(z) : RepOrder(z, i, o) => \E j \in 1 .. Len(q) : RepOrder(q, j, o) /\ z[i] = q[j]
  BY DEF RepOrder
<1>2. \A j \in 1 .. Len(q) : RepOrder(q, j, o) => \E i \in 1 .. Len(z) : RepOrder(z, i, o)
  BY DEF RepOrder
<1>3. ASSUME RepOwned(o, p, a, b, s, q)
      PROVE  RepOwned(o, p, a, b, s, z)
  <2>1. \A i \in 1 .. Len(z) : RepOrder(z, i, o) => p /\ z[i].arg = a
    BY <1>3, <1>1 DEF RepOwned
  <2>2. (\E i \in 1 .. Len(q) : RepOrder(q, i, o)) => \E i \in 1 .. Len(z) : RepOrder(z, i, o)
    BY <1>2
  <2> QED BY <1>3, <2>1, <2>2 DEF RepOwned
<1>4. RepOwned(o, p, a, b, q, s) => RepOwned(o, p, a, b, z, s)
  BY <1>1 DEF RepOwned
<1> QED BY <1>3, <1>4

\* RelaySyncVar: a datagram comes before what was sent earlier.
LEMMA RepRelays ==
    ASSUME NEW ordered \in BOOLEAN, RepState(ordered, machine, tcp, udp, writes), NEW m \in Rep!Slot,
           Rep!RelaySyncVar(m)
    PROVE  RepState(ordered, machine', tcp', udp', writes')
<1>1. PICK msg \in udp[m], i \in 1 .. Len(tcp[m]) + 1 :
        /\ udp' = [udp EXCEPT ![m] = @ \ {msg}]
        /\ tcp' = [tcp EXCEPT ![m] = Rep!InsertAt(@, i, msg)]
        /\ UNCHANGED <<machine, writes>>
  BY DEF Rep!RelaySyncVar
<1>2. /\ udp \in [Rep!Slot -> SUBSET RepMsg] /\ msg \in RepMsg /\ msg.kind = "sync" /\ ordered = FALSE
      /\ \A j \in Rep!Slot : \A y \in udp[j] : y.kind = "sync"
  BY DEF RepState
<1>3. PICK w \in RepMachine : w = machine[m]
  BY RepOf
<1>4. PICK x \in RepMachine : x = machine[Rep!Other(m)]
  BY RepOf
<1>5. PICK s \in Seq(RepMsg) : s = tcp[m]
  BY RepOf
<1>6. PICK p \in Seq(RepMsg) : p = x.saved \o tcp[Rep!Other(m)]
  BY <1>4, RepOf
<1>7. PICK t : t = Rep!InsertAt(s, i, msg)
  OBVIOUS
<1>8. /\ t \in Seq(RepMsg)
      /\ \A j \in 1 .. Len(t) : t[j] = msg \/ \E k \in 1 .. Len(s) : t[j] = s[k]
      /\ \A k \in 1 .. Len(s) : \E j \in 1 .. Len(t) : t[j] = s[k]
  <2>1. i \in 1 .. Len(s) + 1 /\ msg \in RepMsg /\ RepInserted(s, i, msg, t)
    BY <1>2, <1>5, <1>7 DEF RepInserted
  <2> QED BY <2>1, RepInserts
<1>9. PICK q \in Seq(RepMsg) : q = w.saved \o s
  BY <1>3, <1>5, RepOf
<1>10. PICK z : z = w.saved \o t
  OBVIOUS
<1>11. w.saved \in Seq(RepMsg)
  BY RepRecord
<1>12. /\ Len(q) = Len(w.saved) + Len(s)
       /\ \A j \in 1 .. Len(w.saved) + Len(s) : q[j] = IF j <= Len(w.saved) THEN w.saved[j] ELSE s[j - Len(w.saved)]
  BY <1>9, <1>11, ConcatProperties
<1>13. /\ Len(z) = Len(w.saved) + Len(t)
       /\ \A j \in 1 .. Len(w.saved) + Len(t) : z[j] = IF j <= Len(w.saved) THEN w.saved[j] ELSE t[j - Len(w.saved)]
  BY <1>8, <1>10, <1>11, ConcatProperties
<1>14. Len(w.saved) \in Nat /\ Len(s) \in Nat /\ Len(t) \in Nat
  BY <1>8, <1>11
<1>15. ASSUME NEW j \in 1 .. Len(z)
       PROVE  z[j] = msg \/ \E k \in 1 .. Len(q) : z[j] = q[k]
  <2>1. CASE j <= Len(w.saved)
    BY <1>12, <1>13, <1>14, <2>1
  <2>2. CASE ~(j <= Len(w.saved))
    <3>1. j - Len(w.saved) \in 1 .. Len(t) /\ z[j] = t[j - Len(w.saved)]
      BY SMTT(60), <1>13, <1>14, <2>2
    <3>2. CASE t[j - Len(w.saved)] = msg
      BY <3>1, <3>2
    <3>3. ASSUME NEW k \in 1 .. Len(s), t[j - Len(w.saved)] = s[k]
          PROVE  \E l \in 1 .. Len(q) : z[j] = q[l]
      <4>1. Len(w.saved) + k \in 1 .. Len(q) /\ q[Len(w.saved) + k] = s[k]
        <5>1. /\ Len(w.saved) + k \in 1 .. Len(w.saved) + Len(s) /\ ~(Len(w.saved) + k <= Len(w.saved))
              /\ (Len(w.saved) + k) - Len(w.saved) = k
          BY <1>14
        <5> QED BY <1>12, <5>1
      <4> QED BY <3>1, <3>3, <4>1
    <3> QED BY <1>8, <3>1, <3>2, <3>3
  <2> QED BY <2>1, <2>2
<1>16. ASSUME NEW k \in 1 .. Len(q)
       PROVE  \E j \in 1 .. Len(z) : z[j] = q[k]
  <2>1. CASE k <= Len(w.saved)
    <3>1. k \in 1 .. Len(z) /\ k \in 1 .. Len(w.saved) + Len(s) /\ k \in 1 .. Len(w.saved) + Len(t)
      BY <1>12, <1>13, <1>14, <2>1
    <3>2. z[k] = q[k]
      BY <1>12, <1>13, <2>1, <3>1
    <3> QED BY <3>1, <3>2
  <2>2. CASE ~(k <= Len(w.saved))
    <3>1. k - Len(w.saved) \in 1 .. Len(s) /\ q[k] = s[k - Len(w.saved)]
      BY <1>12, <1>14, <2>2
    <3>2. PICK j \in 1 .. Len(t) : t[j] = s[k - Len(w.saved)]
      BY <1>8, <3>1
    <3>3. Len(w.saved) + j \in 1 .. Len(z) /\ z[Len(w.saved) + j] = t[j]
      <4>1. /\ Len(w.saved) + j \in 1 .. Len(w.saved) + Len(t) /\ ~(Len(w.saved) + j <= Len(w.saved))
            /\ (Len(w.saved) + j) - Len(w.saved) = j
        BY <1>14
      <4> QED BY <1>13, <4>1
    <3> QED BY <3>1, <3>2, <3>3
  <2> QED BY <2>1, <2>2
<1>17. msg.kind # "authority"
  BY <1>2
<1>18. \A o, g, a, b : /\ RepOwned(o, g, a, b, p, q) => RepOwned(o, g, a, b, p, z)
                       /\ RepOwned(o, g, a, b, q, p) => RepOwned(o, g, a, b, z, p)
  BY <1>15, <1>16, <1>17, RepOwnedElsewhere
<1>19. RepFits(FALSE, m, w, x, q, p)
  BY <1>2, <1>3, <1>4, <1>5, <1>6, <1>9, RepOf
<1>20. RepFits(FALSE, m, w, x, z, p)
  BY <1>18, <1>19 DEF RepFits, RepFine
<1>21. RepResting(w)
  BY <1>3 DEF RepState
<1>22. RepState(FALSE, [machine EXCEPT ![m] = w], [tcp EXCEPT ![m] = t], udp, writes)
  BY <1>2, <1>3, <1>4, <1>6, <1>8, <1>10, <1>20, <1>21, RepAlone
<1>23. [machine EXCEPT ![m] = w] = machine
  BY <1>3 DEF RepState
<1>24. tcp' = [tcp EXCEPT ![m] = t] /\ machine' = machine /\ writes' = writes
  BY <1>1, <1>5, <1>7
<1>25. udp' \in [Rep!Slot -> SUBSET RepMsg] /\ \A j \in Rep!Slot : \A y \in udp'[j] : y.kind = "sync"
  BY <1>1, <1>2
<1> QED BY <1>2, <1>22, <1>23, <1>24, <1>25 DEF RepState

\* LoseUDP.
LEMMA RepLoses ==
    ASSUME NEW ordered \in BOOLEAN, RepState(ordered, machine, tcp, udp, writes), NEW m \in Rep!Slot, Rep!LoseUDP(m)
    PROVE  RepState(ordered, machine', tcp', udp', writes')
<1>1. PICK msg \in udp[m] : udp' = [udp EXCEPT ![m] = @ \ {msg}]
  BY DEF Rep!LoseUDP
<1>2. UNCHANGED <<machine, tcp, writes>>
  BY DEF Rep!LoseUDP
<1>3. /\ udp \in [Rep!Slot -> SUBSET RepMsg]
      /\ \A j \in Rep!Slot : (\A y \in udp[j] : y.kind = "sync") /\ (ordered => udp[j] = {})
  BY DEF RepState
<1>4. /\ udp' \in [Rep!Slot -> SUBSET RepMsg]
      /\ \A j \in Rep!Slot : (\A y \in udp'[j] : y.kind = "sync") /\ (ordered => udp'[j] = {})
  BY <1>1, <1>3
<1> QED BY <1>2, <1>4 DEF RepState

\* The same messages are in a queue whichever part of it comes first.
LEMMA RepOtherWay ==
    ASSUME NEW s \in Seq(RepMsg), NEW t \in Seq(RepMsg), NEW i \in 1 .. Len(s \o t)
    PROVE  \E j \in 1 .. Len(t \o s) : (t \o s)[j] = (s \o t)[i]
<1>1. PICK q \in Seq(RepMsg) : q = s \o t
  BY ConcatProperties
<1>2. PICK z \in Seq(RepMsg) : z = t \o s
  BY ConcatProperties
<1>3. /\ Len(q) = Len(s) + Len(t)
      /\ \A j \in 1 .. Len(s) + Len(t) : q[j] = IF j <= Len(s) THEN s[j] ELSE t[j - Len(s)]
  BY <1>1, ConcatProperties
<1>4. /\ Len(z) = Len(t) + Len(s)
      /\ \A j \in 1 .. Len(t) + Len(s) : z[j] = IF j <= Len(t) THEN t[j] ELSE s[j - Len(t)]
  BY <1>2, ConcatProperties
<1>5. PICK a \in Nat : a = Len(s)
  OBVIOUS
<1>6. PICK b \in Nat : b = Len(t)
  OBVIOUS
<1>7. i \in 1 .. a + b
  BY <1>1, <1>3, <1>5, <1>6
<1>8. CASE i <= a
  <2>1. i + b \in 1 .. b + a /\ ~(i + b <= b) /\ i + b - b = i
    BY <1>7, <1>8
  <2>2. z[i + b] = s[i] /\ q[i] = s[i]
    BY <1>3, <1>4, <1>5, <1>6, <1>7, <1>8, <2>1
  <2> QED BY <1>1, <1>2, <1>4, <1>5, <1>6, <2>1, <2>2
<1>9. CASE ~(i <= a)
  <2>1. i - a \in 1 .. b + a /\ i - a <= b
    BY <1>7, <1>9
  <2>2. z[i - a] = t[i - a] /\ q[i] = t[i - a]
    BY <1>3, <1>4, <1>5, <1>6, <1>7, <1>9, <2>1
  <2> QED BY <1>1, <1>2, <1>4, <1>5, <1>6, <2>1, <2>2
<1> QED BY <1>8, <1>9

\* Every step keeps it, where every object plays from the beginning and nothing is saved for too long.
LEMMA RepSteps ==
    ASSUME NEW ordered \in BOOLEAN, RepState(ordered, machine, tcp, udp, writes), Rep!Next,
           Rep!Kept, ordered => "Unreliable" \notin may
    PROVE  RepState(ordered, machine', tcp', udp', writes')
<1>0. "Late" \notin may /\ "Timeout" \notin may
  BY DEF Rep!Kept
<1>1. CASE \E o \in Object : Rep!SetAuthority(o)
  BY <1>1, RepSetAuthority
<1>2. CASE \E o \in Object : Rep!NetworkDestroy(o)
  BY <1>2, RepNetworkDestroy
<1>3. ASSUME NEW m \in Rep!Slot,
             \/ Rep!RecvTCP(m) \/ Rep!RelaySyncVar(m) \/ Rep!LoseUDP(m) \/ Rep!Tick(m)
      PROVE  RepState(ordered, machine', tcp', udp', writes')
  BY <1>0, <1>3, RepRecvTCP, RepRelays, RepLoses, RepTick
<1>4. ASSUME NEW m \in Rep!Slot, NEW o \in Object,
             \/ Rep!SetSyncVar(m, o) \/ Rep!Multicast(m, o) \/ Rep!CallMaster(m, o)
             \/ Rep!BeginPlay(m, o) \/ Rep!PlayStopSyncTime(m, o) \/ Rep!OnStopSyncEnd(m, o)
      PROVE  RepState(ordered, machine', tcp', udp', writes')
  BY <1>0, RepSetSyncVar, RepCallsSent, RepStops, RepOnStopSyncEnd, <1>4 DEF Rep!BeginPlay
<1> QED BY <1>1, <1>2, <1>3, <1>4 DEF Rep!Next

\* At the beginning nothing is under way, and the master owns everything.
LEMMA RepBegins ==
    ASSUME Rep!Init, Rep!Kept, NEW ordered \in BOOLEAN
    PROVE  RepState(ordered, machine, tcp, udp, writes)
<1>1. "Late" \notin may
  BY DEF Rep!Kept
<1>2. ASSUME NEW m \in Rep!Slot
      PROVE  /\ machine[m] \in [begun : {Object}, stopped : {{}}, player : {{}}, odd : {FALSE}, saved : {<< >>},
                                value : {[o \in Object |-> 0]}, authority : {[o \in Object |-> 0]}]
             /\ tcp[m] = << >> /\ udp[m] = {}
  BY <1>1 DEF Rep!Init
<1>3. ASSUME NEW m \in Rep!Slot
      PROVE  /\ machine[m].begun = Object /\ machine[m].stopped = {} /\ machine[m].player = {}
             /\ machine[m].odd = FALSE /\ machine[m].saved = << >>
             /\ \A o \in Object : machine[m].value[o] = 0 /\ machine[m].authority[o] = 0
  <2>1. machine[m].value = [o \in Object |-> 0] /\ machine[m].authority = [o \in Object |-> 0]
    BY <1>2
  <2> QED BY <1>2, <2>1
<1>4. << >> \in Seq(RepMsg) /\ Len(<< >>) = 0 /\ << >> \o << >> = << >>
  OBVIOUS
<1>5. machine \in [Rep!Slot -> RepMachine]
  <2>1. [o \in Object |-> 0] \in [Object -> Int]
    OBVIOUS
  <2>2. ASSUME NEW m \in Rep!Slot
        PROVE  machine[m] \in RepMachine
    BY <1>2, <1>4, <2>1 DEF RepMachine
  <2>3. machine = [m \in Rep!Slot |-> machine[m]]
    BY DEF Rep!Init
  <2> QED BY <2>2, <2>3
<1>6. tcp \in [Rep!Slot -> Seq(RepMsg)] /\ udp \in [Rep!Slot -> SUBSET RepMsg] /\ writes \in Nat
  BY <1>4 DEF Rep!Init
<1>7. ASSUME NEW m \in Rep!Slot
      PROVE  /\ RepResting(machine[m]) /\ ~machine[m].odd
             /\ machine[m].saved \o tcp[m] = << >> /\ udp[m] = {}
  <2>1. machine[m].saved = << >> /\ tcp[m] = << >>
    BY <1>2, <1>3
  <2>2. machine[m].saved \o tcp[m] = << >>
    BY <1>4, <2>1
  <2>3. \A i \in 1 .. Len(machine[m].saved) : FALSE
    BY <1>4, <2>1
  <2> QED BY <1>2, <1>3, <2>2, <2>3 DEF RepResting
<1>8. 0 \in Rep!Slot /\ 1 \in Rep!Slot
  BY DEF Rep!Slot
<1>9. ASSUME NEW o \in Object
      PROVE  /\ RepOwned(o, o \in machine[0].player, machine[0].authority[o], machine[1].authority[o], << >>, << >>)
             /\ RepValued(o, machine[0].authority[o], machine[1].authority[o], machine[0].value[o],
                          machine[1].value[o], << >>, << >>)
  <2>1. /\ machine[0].authority[o] = 0 /\ machine[1].authority[o] = 0
        /\ machine[0].value[o] = 0 /\ machine[1].value[o] = 0 /\ o \notin machine[0].player
    BY <1>3, <1>8
  <2>2. \A n \in 1 .. Len(<< >>) : FALSE
    BY <1>4
  <2>3. RepOwned(o, o \in machine[0].player, machine[0].authority[o], machine[1].authority[o], << >>, << >>)
    BY <2>1, <2>2 DEF RepOwned
  <2>4. RepValued(o, 0, 0, 0, 0, << >>, << >>)
    BY <2>2 DEF RepValued, RepEnds, RepRuns, RepAfter, RepSilent, RepLeft
  <2>5. RepValued(o, machine[0].authority[o], machine[1].authority[o], machine[0].value[o], machine[1].value[o],
                  << >>, << >>)
    BY <2>1, <2>4
  <2> QED BY <2>3, <2>5
<1>10. RepFine(ordered, machine[0], machine[1], << >>, << >>)
  BY <1>9 DEF RepFine
<1> QED BY <1>5, <1>6, <1>7, <1>8, <1>10 DEF RepState

\* What is not under way any more has been told.
LEMMA RepAgrees ==
    ASSUME NEW ordered \in BOOLEAN, RepState(ordered, machine, tcp, udp, writes), NEW o \in Object
    PROVE  /\ \E m \in Rep!Slot : ~Rep!HasAuthority(m, machine[m], o)
           /\ (\A m \in Rep!Slot : \A msg \in Rep!Pending(m) : msg.object # o) =>
                  /\ machine[0].authority[o] = machine[1].authority[o]
                  /\ ordered => machine[0].value[o] = machine[1].value[o]
<1>0. 0 \in Rep!Slot /\ 1 \in Rep!Slot
  BY DEF Rep!Slot
<1>1. PICK q0 \in Seq(RepMsg) : q0 = machine[0].saved \o tcp[0]
  BY <1>0, RepOf
<1>2. PICK q1 \in Seq(RepMsg) : q1 = machine[1].saved \o tcp[1]
  BY <1>0, RepOf
<1>3. /\ RepOwned(o, o \in machine[0].player, machine[0].authority[o], machine[1].authority[o], q0, q1)
      /\ ordered => RepValued(o, machine[0].authority[o], machine[1].authority[o], machine[0].value[o],
                              machine[1].value[o], q0, q1)
  BY <1>1, <1>2 DEF RepState, RepFine
<1>4. \E m \in Rep!Slot : ~Rep!HasAuthority(m, machine[m], o)
  BY <1>0, <1>3 DEF RepOwned, Rep!HasAuthority
<1>5. ASSUME \A m \in Rep!Slot : \A msg \in Rep!Pending(m) : msg.object # o
      PROVE  /\ \A i \in 1 .. Len(q0) : q0[i].object # o
             /\ \A i \in 1 .. Len(q1) : q1[i].object # o
  <2>1. ASSUME NEW m \in Rep!Slot, NEW q \in Seq(RepMsg), q = machine[m].saved \o tcp[m], NEW i \in 1 .. Len(q)
        PROVE  q[i].object # o
    <3>1. PICK s \in Seq(RepMsg) : s = machine[m].saved
      BY RepOf
    <3>2. PICK r \in Seq(RepMsg) : r = tcp[m]
      BY RepOf
    <3>3. i \in 1 .. Len(s \o r) /\ q[i] = (s \o r)[i]
      BY <2>1, <3>1, <3>2
    <3>4. PICK j \in 1 .. Len(r \o s) : (r \o s)[j] = q[i]
      <4>1. i \in 1 .. Len(s \o r)
        BY <3>3
      <4>2. \E j \in 1 .. Len(r \o s) : (r \o s)[j] = (s \o r)[i]
        BY <4>1, RepOtherWay, Zenon
      <4> QED BY <3>3, <4>2, Zenon
    <3>5. r \o s \in Seq(RepMsg)
      BY ConcatProperties
    <3>6. j \in DOMAIN (r \o s)
      BY <3>5
    <3>7. Rep!Pending(m) = Rep!Range(r \o s)
      BY <3>1, <3>2 DEF Rep!Pending
    <3>8. q[i] \in Rep!Pending(m)
      BY <3>4, <3>6, <3>7 DEF Rep!Range
    <3> QED BY <1>5, <3>8
  <2> QED BY <1>0, <1>1, <1>2, <2>1
<1>6. ASSUME \A m \in Rep!Slot : \A msg \in Rep!Pending(m) : msg.object # o
      PROVE  machine[0].authority[o] = machine[1].authority[o]
  BY <1>3, <1>5, <1>6 DEF RepOwned, RepOrder
<1>7. ASSUME ordered, \A m \in Rep!Slot : \A msg \in Rep!Pending(m) : msg.object # o
      PROVE  machine[0].value[o] = machine[1].value[o]
  BY <1>3, <1>5, <1>7 DEF RepValued, RepEnds, RepAfter, RepSync
<1> QED BY <1>4, <1>6, <1>7

RepInv ==
    part = "rep" =>
        /\ Rep!Kept => RepState(FALSE, machine, tcp, udp, writes)
        /\ Rep!Ordered => RepState(TRUE, machine, tcp, udp, writes)

\* The invariant of the run holds at the beginning.
LEMMA RepInit == Init => RepInv
<1> SUFFICES ASSUME Init, part = "rep"
             PROVE  /\ Rep!Kept => RepState(FALSE, machine, tcp, udp, writes)
                    /\ Rep!Ordered => RepState(TRUE, machine, tcp, udp, writes)
  BY DEF RepInv
<1>1. Rep!Init
  BY DEF Init
<1> QED BY <1>1, RepBegins DEF Rep!Ordered

\* What a behaviour may have stays the same.
LEMMA RepMay == Rep!Next => UNCHANGED may
  BY DEF Rep!Next, Rep!RecvTCP, Rep!RelaySyncVar, Rep!LoseUDP, Rep!Tick, Rep!SetSyncVar, Rep!Multicast, Rep!CallMaster,
         Rep!BeginPlay, Rep!PlayStopSyncTime, Rep!OnStopSyncEnd, Rep!SetAuthority, Rep!NetworkDestroy

\* Every step of the client keeps it.
LEMMA RepStep == RepInv /\ [Next]_vars => RepInv'
<1> SUFFICES ASSUME RepInv, [Next]_vars
             PROVE  RepInv'
  OBVIOUS
<1>1. CASE part = "rep" /\ Rep!Next /\ part' = part
  <2>1. UNCHANGED may
    BY <1>1, RepMay
  <2>2. (Rep!Kept' <=> Rep!Kept) /\ (Rep!Ordered' <=> Rep!Ordered)
    BY <2>1 DEF Rep!Kept, Rep!Ordered
  <2>3. ASSUME Rep!Kept
        PROVE  RepState(FALSE, machine', tcp', udp', writes')
    BY <1>1, <2>3, RepSteps DEF RepInv
  <2>4. ASSUME Rep!Ordered
        PROVE  RepState(TRUE, machine', tcp', udp', writes')
    BY <1>1, <2>4, RepSteps DEF RepInv, Rep!Ordered
  <2> QED BY <2>2, <2>3, <2>4 DEF RepInv
<1>2. CASE part' = part /\ part # "rep"
  BY <1>2 DEF RepInv
<1>3. CASE UNCHANGED <<part, may, machine, tcp, udp, writes>>
  BY <1>3 DEF RepInv, Rep!Kept, Rep!Ordered
<1> QED BY <1>1, <1>2, <1>3 DEF Next, vars, repOnly

\* AInGameNetworkProcessor, UNetworkBaseCP: as long as every object plays on both machines, nothing is saved for
\* too long and SyncVars are sent by TCP, an RPC of the authority finds the values of the SyncVars it was called
\* with, however many messages wait for objects whose synchronisation is stopped.
THEOREM CallsSeeTheirStateHolds == Spec => []CallsSeeTheirState
<1>1. RepInv => CallsSeeTheirState
  BY DEF RepInv, RepState, CallsSeeTheirState, Rep!CallsSeeTheirState
<1>2. Spec => Init /\ [][Next]_vars
  BY PTL DEF Spec
<1> QED
  BY <1>1, <1>2, RepInit, RepStep, PTL

\* The places of the actors.
LEMMA MovNext == MovInv /\ [Next]_vars => MovInv'
<1> SUFFICES ASSUME MovInv, [Next]_vars
             PROVE  MovInv'
  OBVIOUS
<1>1. CASE part = "move" /\ Mov!Next /\ part' = part
  BY <1>1, MovStep DEF MovInv
<1>2. CASE part' = part /\ part # "move"
  BY <1>2 DEF MovInv
<1>3. CASE part' = part /\ UNCHANGED Mov!vars
  BY <1>3, MovStep DEF MovInv
<1> QED BY <1>1, <1>2, <1>3 DEF Next, vars, movOnly, Mov!vars

\* UNetworkBaseCP, ANetworkObject, NetworkTransformCP: the machines never both have authority over an object; when
\* no message about it is under way they agree on who has it and, where SyncVars are sent by TCP, on its value;
\* and an actor stands where its client has it when the last place sent has arrived.
THEOREM ConvergesHolds == Spec => []Converges
<1>1. Init => MovInv
  BY MovBegins DEF Init, MovInv
<1>2. MovInv /\ [Next]_vars => MovInv'
  BY MovNext
<1>3. RepInv => (part = "rep" => Rep!Converges)
  <2> SUFFICES ASSUME RepInv, part = "rep", Rep!Kept, NEW o \in machine[0].begun \cap machine[1].begun
               PROVE  /\ \E m \in Rep!Slot : ~Rep!HasAuthority(m, machine[m], o)
                      /\ (\A m \in Rep!Slot : \A msg \in Rep!Pending(m) : msg.object # o) =>
                             /\ machine[0].authority[o] = machine[1].authority[o]
                             /\ Rep!Ordered => machine[0].value[o] = machine[1].value[o]
    BY DEF Rep!Converges
  <2>1. RepState(FALSE, machine, tcp, udp, writes)
    BY DEF RepInv
  <2>2. o \in Object
    BY <2>1, RepOf, RepRecord DEF Rep!Slot
  <2>3. Rep!Ordered => RepState(TRUE, machine, tcp, udp, writes)
    BY DEF RepInv
  <2> QED BY <2>1, <2>2, <2>3, RepAgrees
<1>4. MovInv /\ RepInv => Converges
  BY <1>3, MovHolds DEF MovInv, Converges
<1>5. Spec => Init /\ [][Next]_vars
  BY PTL DEF Spec
<1> QED
  BY <1>1, <1>2, <1>4, <1>5, RepInit, RepStep, PTL
=============================================================================
