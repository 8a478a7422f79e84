------------------------- MODULE SocketServerProofs -------------------------
(***************************************************************************)
(* What is proved of the socket layer, for any numbers of sockets, workers *)
(* and connections and any of the events and faults: the messages of the   *)
(* worker threads and of the logic thread itself reach the logic thread as *)
(* through one FIFO queue; the server goes on accepting; the pool holds    *)
(* only sockets nobody works on; bytes are given to the player of the      *)
(* client that sent them; and connections are announced and ended in order.*)
(***************************************************************************)
EXTENDS SocketServer, SequenceTheorems, FiniteSetTheorems, TLAPS

PlayerRec == [socket : Socket, conn : Conn]

\* Places where a thread works on a socket, and where it holds bytes or an address.
WithSocket == {"announce", "open", "firstRecv", "data", "postRecv", "returned",
               "pool", "close", "transmit", "poolFailed", "note"}
WithConn == {"announce", "data"}

QueuesInv == queue \in Seq(Message) /\ current \in Seq(Message)

PlayersInv == players \in Seq(PlayerRec)

\* A thread that works on a socket has one, and one that announces bytes has their sender.
ThreadsInv ==
    /\ DOMAIN at = Thread
    /\ arg \in [Thread -> Socket \cup {NoSocket}]
    /\ from \in [Worker -> Conn \cup {NoConn}]
    /\ at[Logic] \notin WithConn
    /\ \A t \in Thread : at[t] \in WithSocket => arg[t] \in Socket
    /\ \A w \in Worker : at[w] \in WithConn => from[w] \in Conn

PoolInv == pool \in Seq(Socket)

Inv == QueuesInv /\ PlayersInv /\ ThreadsInv /\ PoolInv

(***************************************************************************)
(* Sequences.                                                              *)
(***************************************************************************)

\* What the prover needs to know of a queue that is kept in two parts.
LEMMA ConcatAppend ==
    ASSUME NEW S, NEW s \in Seq(S), NEW t \in Seq(S), NEW e \in S
    PROVE  s \o Append(t, e) = Append(s \o t, e)
  BY AppendIsConcat, ConcatProperties, ConcatAssociative

LEMMA ConcatTail ==
    ASSUME NEW S, NEW s \in Seq(S), NEW t \in Seq(S), s # << >>
    PROVE  s \o t # << >> /\ Tail(s) \o t = Tail(s \o t)
<1>1. Len(s) \in Nat \ {0} /\ Len(t) \in Nat
  BY EmptySeq, LenProperties
<1>2. /\ s \o t \in Seq(S)
      /\ Len(s \o t) = Len(s) + Len(t)
      /\ \A i \in 1 .. Len(s) + Len(t) : (s \o t)[i] = IF i <= Len(s) THEN s[i] ELSE t[i - Len(s)]
  BY ConcatProperties
<1>3. s \o t # << >>
  BY <1>1, <1>2
<1>4. /\ Tail(s) \in Seq(S) /\ Len(Tail(s)) = Len(s) - 1
      /\ \A i \in 1 .. Len(Tail(s)) : Tail(s)[i] = s[i + 1]
  BY HeadTailProperties
<1>5. /\ Tail(s \o t) \in Seq(S) /\ Len(Tail(s \o t)) = Len(s \o t) - 1
      /\ \A i \in 1 .. Len(Tail(s \o t)) : Tail(s \o t)[i] = (s \o t)[i + 1]
  BY <1>2, <1>3, HeadTailProperties
<1>6. /\ Tail(s) \o t \in Seq(S)
      /\ Len(Tail(s) \o t) = Len(Tail(s)) + Len(t)
      /\ \A i \in 1 .. Len(Tail(s)) + Len(t) :
           (Tail(s) \o t)[i] = IF i <= Len(Tail(s)) THEN Tail(s)[i] ELSE t[i - Len(Tail(s))]
  BY <1>4, ConcatProperties
<1>7. Len(Tail(s) \o t) = Len(Tail(s \o t))
  BY <1>1, <1>2, <1>4, <1>5, <1>6
<1>8. ASSUME NEW i \in 1 .. Len(Tail(s \o t))
      PROVE  (Tail(s) \o t)[i] = Tail(s \o t)[i]
  BY <1>1, <1>2, <1>5, <1>4, <1>6, <1>7
<1> QED
  BY <1>3, <1>5, <1>6, <1>7, <1>8, SeqEqual

LEMMA ConcatNothing ==
    ASSUME NEW S, NEW s \in Seq(S)
    PROVE  s \o << >> = s /\ << >> \o s = s
  BY ConcatEmptySeq

LEMMA AppendInSeq ==
    ASSUME NEW S, NEW s \in Seq(S), NEW e \in S
    PROVE  Append(s, e) \in Seq(S)
  BY AppendProperties

LEMMA HeadTailInSeq ==
    ASSUME NEW S, NEW s \in Seq(S), s # << >>
    PROVE  Head(s) \in S /\ Tail(s) \in Seq(S)
  BY HeadTailProperties

\* RemoveAt leaves a sequence of the same elements.
LEMMA RemoveAtInSeq ==
    ASSUME NEW S, NEW s \in Seq(S), NEW i \in 1 .. Len(s)
    PROVE  RemoveAt(s, i) \in Seq(S)
  BY SubSeqProperties, LenProperties, ConcatProperties DEF RemoveAt

(***************************************************************************)
(* The messages.                                                           *)
(***************************************************************************)

LEMMA MessageTypes ==
    /\ \A s \in Socket, c \in Conn : [type |-> "ACCEPT", socket |-> s, conn |-> c] \in Message
    /\ \A s \in Socket, c \in Conn : [type |-> "TCP", socket |-> s, conn |-> c] \in Message
    /\ \A s \in Socket : [type |-> "CLOSE", socket |-> s] \in Message
  BY DEF Message

\* An ACCEPT names a socket and a client.
LEMMA AcceptMessage ==
    ASSUME NEW m \in Message, m.type = "ACCEPT"
    PROVE  m.socket \in Socket /\ m.conn \in Conn
  BY DEF Message

\* What a step does to the queue, as seen from the logic thread: nothing, Enqueue or Dequeue.
Posts(m) == queue' = Append(queue, m) /\ current' = current
Pops == current # << >> /\ current' = Tail(current) /\ queue' = queue
Keeps == current' = current /\ queue' = queue
Exchanges == current = << >> /\ current' = queue /\ queue' = current

QueueStep == Keeps \/ Exchanges \/ Pops \/ \E m \in Message : Posts(m)

LEMMA QueueStepInv ==
    ASSUME QueuesInv, QueueStep
    PROVE  QueuesInv'
  BY HeadTailInSeq, AppendInSeq DEF QueuesInv, Keeps, Exchanges, Pops, Posts, QueueStep

LEMMA QueueStepRefines ==
    ASSUME QueuesInv, QueueStep
    PROVE  Fifo!Next \/ (current \o queue)' = current \o queue
<1> USE DEF QueuesInv
<1>1. CASE Keeps
  BY <1>1 DEF Keeps
<1>2. CASE Exchanges
  BY <1>2, ConcatNothing DEF Exchanges
<1>3. CASE Pops
  BY <1>3, ConcatTail DEF Pops, Fifo!Next, Fifo!Dequeue
<1>4. ASSUME NEW m \in Message, Posts(m)
      PROVE  Fifo!Next
  BY ConcatAppend, <1>4 DEF Posts, Fifo!Next, Fifo!Enqueue
<1> QED
  BY <1>1, <1>2, <1>3, <1>4 DEF QueueStep

(***************************************************************************)
(* The steps.                                                              *)
(***************************************************************************)

\* What every step has to show.
StepOK == QueueStep /\ PlayersInv' /\ ThreadsInv'

\* A step that moves no thread.
LEMMA ThreadsStay ==
    ASSUME ThreadsInv, UNCHANGED threads
    PROVE  ThreadsInv'
  BY DEF ThreadsInv, threads

\* Thread t goes on to a place that needs no connection, with the socket it has or with none.
LEMMA GoesOn ==
    ASSUME Inv, NEW t \in Thread, NEW place, place \notin WithConn,
           at' = [at EXCEPT ![t] = place],
           \/ arg' = arg /\ (at[t] \in WithSocket \/ place \notin WithSocket)
           \/ place \notin WithSocket /\ arg' = [arg EXCEPT ![t] = NoSocket],
           \/ from' = from
           \/ t \in Worker /\ from' = [from EXCEPT ![t] = NoConn]
    PROVE  ThreadsInv'
<1> USE DEF Inv, ThreadsInv
<1>1. /\ DOMAIN at' = Thread
      /\ arg' \in [Thread -> Socket \cup {NoSocket}]
      /\ from' \in [Worker -> Conn \cup {NoConn}]
  OBVIOUS
<1>2. Logic \in Thread /\ Worker \subseteq Thread
  BY DEF Thread
<1>3. at'[Logic] \notin WithConn
  BY <1>2
<1>4. ASSUME NEW u \in Thread, at'[u] \in WithSocket
      PROVE  arg'[u] \in Socket
  BY <1>4
<1>5. ASSUME NEW w \in Worker, at'[w] \in WithConn
      PROVE  from'[w] \in Conn
  BY <1>2, <1>5
<1> QED
  BY <1>1, <1>3, <1>4, <1>5

LEMMA SystemOK ==
    ASSUME Inv, System
    PROVE  StepOK
<1>1. UNCHANGED <<queue, current, players, threads>>
  BY DEF System, SendData, HangUp, RecvEnds, CloseEnds, Connect, logic
<1> QED
  BY <1>1, ThreadsStay DEF StepOK, QueueStep, Keeps, Inv, PlayersInv

LEMMA PostCloseOK ==
    ASSUME Inv, NEW t \in Thread, PostClose(t)
    PROVE  StepOK
<1> USE DEF Step, Goto, Leave, Return, WithSocket, WithConn
<1>1. arg[t] \in Socket /\ at[t] \in WithSocket
  BY DEF PostClose, CheckState, Transmit, PoolFailed, NoteClose, Inv, ThreadsInv
<1>2. UNCHANGED <<players, current, from>>
  BY DEF PostClose, CheckState, Transmit, PoolFailed, NoteClose, logic
<1>3. queue' = queue \/ OnClose(arg[t])
  BY DEF PostClose, CheckState, Transmit, PoolFailed, NoteClose
<1>4. QueueStep
  BY <1>1, <1>2, <1>3, MessageTypes DEF OnClose, Post, QueueStep, Keeps, Posts
<1>5. ThreadsInv'
  <2>1. CASE CheckState(t)
    BY <2>1, <1>1, <1>2, GoesOn DEF CheckState
  <2>2. CASE Transmit(t)
    BY <2>2, <1>1, <1>2, GoesOn DEF Transmit
  <2>3. CASE PoolFailed(t)
    BY <2>3, <1>1, <1>2, GoesOn DEF PoolFailed
  <2>4. CASE NoteClose(t)
    <3> DEFINE place == IF t = Logic THEN "drain" ELSE "idle"
    <3>1. place \notin WithSocket /\ place \notin WithConn
      OBVIOUS
    <3>2. at' = [at EXCEPT ![t] = place] /\ arg' = [arg EXCEPT ![t] = NoSocket]
      BY <2>4 DEF NoteClose
    <3> HIDE DEF place
    <3> QED
      BY <1>2, <3>1, <3>2, GoesOn
  <2> QED
    BY <2>1, <2>2, <2>3, <2>4 DEF PostClose
<1> QED
  BY <1>2, <1>4, <1>5 DEF StepOK, Inv, PlayersInv

\* A worker takes a completion of socket s, with connection c or none.
LEMMA Takes ==
    ASSUME Inv, NEW w \in Worker, NEW s \in Socket, NEW place, NEW c \in Conn \cup {NoConn},
           arg' = [arg EXCEPT ![w] = s],
           at' = [at EXCEPT ![w] = place],
           \/ from' = [from EXCEPT ![w] = c] /\ (place \in WithConn => c \in Conn)
           \/ from' = from /\ place \notin WithConn
    PROVE  ThreadsInv'
<1> USE DEF Inv, ThreadsInv
<1>1. Worker \subseteq Thread /\ Logic # w /\ Logic \in Thread
  BY ThreadAssumption DEF Thread, Logic
<1>2. /\ DOMAIN at' = Thread
      /\ arg' \in [Thread -> Socket \cup {NoSocket}]
      /\ from' \in [Worker -> Conn \cup {NoConn}]
      /\ at'[Logic] \notin WithConn
  BY <1>1
<1>3. ASSUME NEW u \in Thread, at'[u] \in WithSocket
      PROVE  arg'[u] \in Socket
  BY <1>1, <1>3
<1>4. ASSUME NEW v \in Worker, at'[v] \in WithConn
      PROVE  from'[v] \in Conn
  BY <1>1, <1>4
<1> QED
  BY <1>2, <1>3, <1>4

LEMMA TakesOK ==
    ASSUME Inv, NEW w \in Worker, NEW s \in Socket, NEW c \in Conn \cup {NoConn},
           TakeAccept(w, s, c) \/ TakeRecv(w, s, c) \/ TakeClose(w, s)
    PROVE  StepOK
<1> USE DEF Take, Step, WithConn, logic, Accepted, Received, Closed
<1>1. ThreadsInv'
  <2>1. CASE TakeAccept(w, s, c)
    BY <2>1, Takes DEF TakeAccept
  <2>2. CASE TakeRecv(w, s, c)
    BY <2>2, Takes DEF TakeRecv
  <2>3. CASE TakeClose(w, s)
    BY <2>3, Takes DEF TakeClose
  <2> QED
    BY <2>1, <2>2, <2>3
<1>2. UNCHANGED <<players, current>> /\ (queue' = queue \/ OnClose(s))
  BY DEF TakeAccept, TakeRecv, TakeClose
<1>3. QueueStep
  BY <1>2, MessageTypes DEF OnClose, Post, QueueStep, Keeps, Posts
<1> QED
  BY <1>1, <1>2, <1>3 DEF StepOK, Inv, PlayersInv

\* A worker that holds a completion: what it does between two completions.
Goes(w) ==
    \/ PostAcceptMessage(w) \/ OpenState(w) \/ FirstRecvFails(w) \/ PostAccept(w)
    \/ OnRecvTCP(w) \/ PostRecv(w) \/ CloseReturned(w) \/ PoolSocket(w)

LEMMA GoesQueueOK ==
    ASSUME Inv, NEW w \in Worker, Goes(w)
    PROVE  QueueStep /\ PlayersInv'
<1> USE DEF Inv, ThreadsInv, WithSocket, WithConn, logic, Goes
<1>1. UNCHANGED <<players, current>>
  BY DEF PostAcceptMessage, OpenState, FirstRecvFails, PostAccept, OnRecvTCP, PostRecv,
         CloseReturned, PoolSocket
<1>2. Worker \subseteq Thread
  BY DEF Thread
<1>3. CASE PostAcceptMessage(w)
  BY <1>2, <1>3, <1>1, MessageTypes DEF PostAcceptMessage, Post, QueueStep, Posts, PlayersInv
<1>4. CASE OnRecvTCP(w)
  BY <1>2, <1>4, <1>1, MessageTypes DEF OnRecvTCP, Post, QueueStep, Posts, PlayersInv
<1>5. CASE queue' = queue
  BY <1>1, <1>5 DEF QueueStep, Keeps, PlayersInv
<1> QED
  BY <1>3, <1>4, <1>5 DEF OpenState, FirstRecvFails, PostAccept, PostRecv, CloseReturned,
                          PoolSocket

LEMMA GoesThreadsOK ==
    ASSUME Inv, NEW w \in Worker, Goes(w)
    PROVE  ThreadsInv'
<1> USE DEF Step, Goto, Leave, WithSocket, WithConn
<1>1. Worker \subseteq Thread /\ w # Logic
  BY ThreadAssumption DEF Thread, Logic
<1>2. CASE PostAcceptMessage(w)
  BY <1>1, <1>2, GoesOn DEF PostAcceptMessage
<1>3. CASE OpenState(w)
  BY <1>1, <1>3, GoesOn DEF OpenState
<1>4. CASE FirstRecvFails(w)
  BY <1>1, <1>4, GoesOn DEF FirstRecvFails
<1>5. CASE PostAccept(w)
  <2>1. CASE Leave(w, "idle")
    BY <1>1, <1>5, <2>1, GoesOn DEF PostAccept
  <2>2. CASE Step(w, "close") /\ arg' = [arg EXCEPT ![w] = Head(pool)]
    <3>1. PICK s \in Socket : s = Head(pool)
      BY <1>5, HeadTailInSeq DEF PostAccept, Inv, PoolInv
    <3>2. arg' = [arg EXCEPT ![w] = s] /\ at' = [at EXCEPT ![w] = "close"] /\ from' = from
      BY <1>5, <2>2, <3>1 DEF PostAccept
    <3> QED
      BY <3>2, Takes
  <2> QED
    BY <1>5, <2>1, <2>2 DEF PostAccept
<1>6. CASE OnRecvTCP(w)
  BY <1>1, <1>6, GoesOn DEF OnRecvTCP
<1>7. CASE PostRecv(w)
  BY <1>1, <1>7, GoesOn DEF PostRecv
<1>8. CASE CloseReturned(w)
  BY <1>1, <1>8, GoesOn DEF CloseReturned
<1>9. CASE PoolSocket(w)
  BY <1>1, <1>9, GoesOn DEF PoolSocket
<1> QED
  BY <1>2, <1>3, <1>4, <1>5, <1>6, <1>7, <1>8, <1>9 DEF Goes

\* A receive context that another worker still reads moves that worker to this socket.
LEMMA FirstRecvOK ==
    ASSUME Inv, NEW w \in Worker, FirstRecv(w)
    PROVE  StepOK
<1> USE DEF Inv, ThreadsInv, WithSocket, WithConn
<1>1. Worker \subseteq Thread /\ Logic \in Thread /\ w # Logic
  BY ThreadAssumption DEF Thread, Logic
<1>2. arg[w] \in Socket
  BY <1>1 DEF FirstRecv
<1>3. PICK taken \in Worker : arg' = [arg EXCEPT ![taken] = arg[w], ![w] = NoSocket]
  BY DEF FirstRecv
<1>4. /\ at' = [at EXCEPT ![w] = "postAccept"]
      /\ from' = [from EXCEPT ![w] = NoConn]
      /\ UNCHANGED <<queue, current, players>>
  BY DEF FirstRecv, Step, logic
<1>5. /\ DOMAIN at' = Thread
      /\ arg' \in [Thread -> Socket \cup {NoSocket}]
      /\ from' \in [Worker -> Conn \cup {NoConn}]
      /\ at'[Logic] \notin WithConn
  BY <1>1, <1>2, <1>3, <1>4
<1>6. ASSUME NEW u \in Thread, at'[u] \in WithSocket
      PROVE  arg'[u] \in Socket
  BY <1>1, <1>4, <1>6, <1>2, <1>3
<1>7. ASSUME NEW v \in Worker, at'[v] \in WithConn
      PROVE  from'[v] \in Conn
  BY <1>1, <1>4, <1>7
<1>8. ThreadsInv'
  BY <1>5, <1>6, <1>7
<1> QED
  BY <1>4, <1>8 DEF StepOK, QueueStep, Keeps, PlayersInv

LEMMA LogicOK ==
    ASSUME Inv, GameLogicThread
    PROVE  StepOK
<1> USE DEF Inv
<1>1. CASE UpdateQueue
  BY <1>1, ThreadsStay DEF UpdateQueue, StepOK, QueueStep, Exchanges, PlayersInv
<1>2. CASE OnAcceptMessage
  BY <1>2, HeadTailInSeq, AcceptMessage, AppendInSeq, ThreadsStay DEF OnAcceptMessage, Pop, QueuesInv, PlayerRec,
    PlayersInv, StepOK, QueueStep, Pops
<1>3. CASE OnTCPMessage
  BY <1>3, ThreadsStay DEF OnTCPMessage, Pop, StepOK, QueueStep, Pops, PlayersInv
<1>4. CASE OnCloseMessage
  <2>1. PlayersInv'
    <3>1. CASE players' = players
      BY <3>1 DEF PlayersInv
    <3>2. ASSUME NEW i \in 1 .. Len(players), players' = RemoveAt(players, i)
          PROVE  PlayersInv'
      BY <3>2, RemoveAtInSeq DEF PlayersInv
    <3> QED
      BY <1>4, <3>1, <3>2 DEF OnCloseMessage, PlayerBySocket, PlayersInv
  <2> QED
    BY <1>4, <2>1, ThreadsStay DEF OnCloseMessage, Pop, StepOK, QueueStep, Pops
<1>5. ASSUME NEW i \in DOMAIN players, Close(i)
      PROVE  StepOK
  <2>1. players[i].socket \in Socket
    <3>1. players \in Seq(PlayerRec) /\ i \in 1 .. Len(players)
      BY LenProperties DEF PlayersInv
    <3>2. players[i] \in PlayerRec
      BY <3>1, ElementOfSeq
    <3> QED
      BY <3>2 DEF PlayerRec
  <2>2. Logic \in Thread /\ Logic \notin Worker
    BY ThreadAssumption DEF Thread, Logic
  <2>3. ThreadsInv'
    <3> USE DEF ThreadsInv
    <3>1. /\ at' = [at EXCEPT ![Logic] = "close"]
          /\ arg' = [arg EXCEPT ![Logic] = players[i].socket]
          /\ from' = from
      BY <1>5 DEF Close, Step
    <3>2. at'[Logic] \notin WithConn
      BY <2>2, <3>1 DEF WithConn
    <3>3. ASSUME NEW u \in Thread, at'[u] \in WithSocket
          PROVE  arg'[u] \in Socket
      BY <2>1, <3>1, <3>3
    <3>4. ASSUME NEW w \in Worker, at'[w] \in WithConn
          PROVE  from'[w] \in Conn
      BY <2>2, <3>1, <3>4
    <3> QED
      BY <2>1, <3>1, <3>2, <3>3, <3>4
  <2> QED
    BY <1>5, <2>3 DEF Close, StepOK, QueueStep, Keeps, PlayersInv
<1> QED
  BY <1>1, <1>2, <1>3, <1>4, <1>5 DEF GameLogicThread

LEMMA NextOK ==
    ASSUME Inv, [Next]_vars
    PROVE  StepOK
<1>1. CASE UNCHANGED vars
  BY <1>1, ThreadsStay DEF vars, logic, StepOK, QueueStep, Keeps, Inv, PlayersInv
<1>2. ASSUME NEW w \in Worker, Handle(w)
      PROVE  StepOK
  <2>1. CASE Goes(w)
    BY <2>1, GoesQueueOK, GoesThreadsOK DEF StepOK
  <2>2. CASE FirstRecv(w)
    BY <2>2, FirstRecvOK
  <2>3. ASSUME NEW s \in Socket, NEW c \in Conn \cup {NoConn},
               TakeAccept(w, s, c) \/ TakeRecv(w, s, c) \/ TakeClose(w, s)
        PROVE  StepOK
    BY <2>3, TakesOK
  <2> QED
    BY <1>2, <2>1, <2>2, <2>3 DEF Handle, Goes
<1> QED
  BY <1>1, <1>2, SystemOK, LogicOK, PostCloseOK DEF Next

LEMMA NextPool ==
    ASSUME Inv, [Next]_vars
    PROVE  PoolInv'
<1> USE DEF PoolInv, Inv
<1>1. \/ pool' = pool
      \/ pool # << >> /\ pool' = Tail(pool)
      \/ \E t \in Thread : at[t] \in {"pool", "poolFailed"} /\ pool' = Append(pool, arg[t])
  <2>1. CASE UNCHANGED vars
    BY <2>1 DEF vars
  <2>2. CASE System \/ GameLogicThread
    BY <2>2 DEF System, SendData, HangUp, RecvEnds, CloseEnds, Connect, GameLogicThread, UpdateQueue, OnAcceptMessage,
      OnTCPMessage, OnCloseMessage, Close
  <2>3. ASSUME NEW t \in Thread, PostClose(t)
        PROVE  \/ pool' = pool
               \/ at[t] = "poolFailed" /\ pool' = Append(pool, arg[t])
    BY <2>3 DEF PostClose, CheckState, Transmit, PoolFailed, NoteClose
  <2>4. ASSUME NEW w \in Worker, Handle(w)
        PROVE  \/ pool' = pool
               \/ pool # << >> /\ pool' = Tail(pool)
               \/ at[w] = "pool" /\ pool' = Append(pool, arg[w])
    BY <2>4 DEF Handle, TakeAccept, TakeRecv, TakeClose, PostAcceptMessage, OpenState, FirstRecv,
                FirstRecvFails, PostAccept, OnRecvTCP, PostRecv, CloseReturned, PoolSocket
  <2> QED
    BY <2>1, <2>2, <2>3, <2>4 DEF Next, Thread
<1>2. \A t \in Thread : at[t] \in {"pool", "poolFailed"} => arg[t] \in Socket
  BY DEF ThreadsInv, WithSocket
<1> QED
  BY <1>1, <1>2, HeadTailInSeq, AppendInSeq

\* A sequence of the elements of a finite set has each at most once.
LEMMA SetToSeqOnce ==
    ASSUME NEW S, IsFiniteSet(S)
    PROVE  /\ SetToSeq(S) \in Seq(S)
           /\ IsInjective(SetToSeq(S))
<1>1. Cardinality(S) \in Nat
  BY FS_CardinalityType
<1>2. \E f \in [1 .. Cardinality(S) -> S] : IsInjective(f)
  <2>1. ExistsBijection(1 .. Cardinality(S), S)
    BY FS_CardinalityType
  <2>2. PICK f \in Bijection(1 .. Cardinality(S), S) : TRUE
    BY <2>1 DEF ExistsBijection
  <2> QED
    BY <2>2 DEF Bijection, Injection
<1>3. SetToSeq(S) \in [1 .. Cardinality(S) -> S] /\ IsInjective(SetToSeq(S))
  BY <1>2 DEF SetToSeq
<1> QED
  BY <1>1, <1>3

LEMMA InitOK == Init => Inv
<1> SUFFICES ASSUME Init
             PROVE  Inv
  OBVIOUS
<1>1. QueuesInv /\ PlayersInv
  BY DEF Init, QueuesInv, PlayersInv
<1>2. PICK m \in Machines : at = [t \in Thread |-> IF t = Logic THEN "drain"
                                   ELSE IF t \in m.workers THEN "idle" ELSE "unused"]
  BY DEF Init
<1>3. /\ arg = [t \in Thread |-> NoSocket]
      /\ from = [w \in Worker |-> NoConn]
  BY DEF Init
<1>4. /\ Worker \subseteq Thread /\ Logic \in Thread
      /\ \A t \in Thread : at[t] \in {"drain", "idle", "unused"}
  BY <1>2 DEF Thread
<1>5. ThreadsInv
  BY <1>2, <1>3, <1>4 DEF ThreadsInv, WithSocket, WithConn
<1>6. PoolInv
  <2>1. \E k \in Machines : \E s \in k.sockets : pool = SetToSeq(k.sockets \ {s})
    BY DEF Init
  <2>2. PICK k \in Machines : \E s \in k.sockets : pool = SetToSeq(k.sockets \ {s})
    BY <2>1
  <2>3. PICK s \in k.sockets : pool = SetToSeq(k.sockets \ {s})
    BY <2>2
  <2>4. k.sockets \ {s} \subseteq Socket /\ IsFiniteSet(k.sockets \ {s})
    BY MachineAssumption, FS_Subset
  <2>5. pool \in Seq(k.sockets \ {s})
    BY <2>3, <2>4, SetToSeqOnce
  <2> QED
    BY <2>4, <2>5 DEF PoolInv
<1> QED
  BY <1>1, <1>5, <1>6 DEF Inv

\* Every state of a behaviour satisfies the invariant.
THEOREM InvHolds == Spec => []Inv
<1>1. Inv /\ [Next]_vars => Inv'
  BY NextOK, NextPool, QueueStepInv DEF StepOK, Inv
<1> QED
  BY <1>1, InitOK, PTL DEF Spec

\* CMessageQueue with the two queues that UpdateQueue exchanges implements one FIFO queue.
THEOREM MessagesAreFIFO == FairSpec => QueueIsFIFO
<1>1. Init => Fifo!Init
  <2> SUFFICES ASSUME Init
               PROVE  Fifo!Init
    OBVIOUS
  <2>1. queue = << >> /\ current = << >> /\ << >> \in Seq(Message)
    BY DEF Init
  <2> QED
    BY <2>1, ConcatNothing DEF Fifo!Init
<1>2. Inv /\ [Next]_vars => [Fifo!Next]_(current \o queue)
  BY NextOK, QueueStepRefines DEF StepOK, Inv
<1> QED
  BY <1>1, <1>2, InvHolds, PTL DEF FairSpec, Spec, QueueIsFIFO, Fifo!Spec

(***************************************************************************)
(* The bags of operations and completions.                                 *)
(***************************************************************************)

\* What starting an operation, and the end of one, do to what is outstanding.
LEMMA BagAddDomain ==
    ASSUME NEW b, NEW x
    PROVE  /\ DOMAIN BagAdd(b, x) = DOMAIN b \cup {x}
           /\ \A y \in DOMAIN b \ {x} : BagAdd(b, x)[y] = b[y]
           /\ x \notin DOMAIN b => BagAdd(b, x)[x] = 1
  BY DEF BagAdd

LEMMA BagRemoveDomain ==
    ASSUME NEW b, NEW x
    PROVE  /\ DOMAIN b \ {x} \subseteq DOMAIN BagRemove(b, x)
           /\ DOMAIN BagRemove(b, x) \subseteq DOMAIN b
           /\ \A y \in DOMAIN b \ {x} : BagRemove(b, x)[y] = b[y]
           /\ x \in DOMAIN b /\ b[x] = 1 => DOMAIN BagRemove(b, x) = DOMAIN b \ {x}
  BY DEF BagRemove

\* The kinds of operations and of completions.
LEMMA Kinds ==
    \A s : /\ AcceptOp(s).type = "ACCEPT" /\ AcceptOp(s).socket = s
           /\ RecvOp(s).type = "TCP_RECV" /\ RecvOp(s).socket = s
           /\ CloseOp(s).type = "CLOSE" /\ CloseOp(s).socket = s
           /\ Closed(s).type = "CLOSE" /\ Closed(s).socket = s
           /\ \A c : /\ Accepted(s, c).type = "ACCEPT" /\ Accepted(s, c).socket = s /\ Accepted(s, c).conn = c
                     /\ Received(s, c).type = "TCP_RECV" /\ Received(s, c).socket = s /\ Received(s, c).conn = c
  BY DEF AcceptOp, RecvOp, CloseOp, Closed, Accepted, Received

(***************************************************************************)
(* One accept at a time.  The accept moves from the operating system to a  *)
(* completion, to a worker, and back when that worker posts the next one.  *)
(***************************************************************************)
AcceptingWorkers == {w \in Worker : Accepting(w)}

InSystem == /\ \E x : Accepts(op) = {x} /\ op[x] = 1
            /\ Accepts(done) = {} /\ AcceptingWorkers = {}
Completed == /\ \E x : Accepts(done) = {x} /\ done[x] = 1 /\ x.conn # NoConn
             /\ Accepts(op) = {} /\ AcceptingWorkers = {}
InHand == /\ \E w \in Worker : AcceptingWorkers = {w}
          /\ Accepts(op) = {} /\ Accepts(done) = {}

AcceptInv == InSystem \/ Completed \/ InHand

\* The steps that do not concern the accept.
AcceptStays ==
    /\ Accepts(op') = Accepts(op) /\ \A x \in Accepts(op) : op'[x] = op[x]
    /\ Accepts(done') = Accepts(done) /\ \A x \in Accepts(done) : done'[x] = done[x]
    /\ AcceptingWorkers' = AcceptingWorkers

LEMMA AcceptStaysInv ==
    ASSUME AcceptInv, AcceptStays
    PROVE  AcceptInv'
<1>1. CASE InSystem
  <2>1. PICK x : Accepts(op) = {x} /\ op[x] = 1
    BY <1>1 DEF InSystem
  <2>2. Accepts(op') = {x} /\ op'[x] = 1
    BY <2>1 DEF AcceptStays
  <2> QED
    BY <1>1, <2>2 DEF InSystem, AcceptStays, AcceptInv
<1>2. CASE Completed
  <2>1. PICK x : Accepts(done) = {x} /\ done[x] = 1 /\ x.conn # NoConn
    BY <1>2 DEF Completed
  <2>2. Accepts(done') = {x} /\ done'[x] = 1
    BY <2>1 DEF AcceptStays
  <2> QED
    BY <1>2, <2>1, <2>2 DEF Completed, AcceptStays, AcceptInv
<1>3. CASE InHand
  BY <1>3 DEF InHand, AcceptStays, AcceptInv
<1> QED
  BY <1>1, <1>2, <1>3 DEF AcceptInv

\* Starting or ending any other operation.
LEMMA OtherKinds ==
    ASSUME NEW b, NEW x, x.type # "ACCEPT"
    PROVE  /\ Accepts(BagAdd(b, x)) = Accepts(b) /\ \A y \in Accepts(b) : BagAdd(b, x)[y] = b[y]
           /\ Accepts(BagRemove(b, x)) = Accepts(b) /\ \A y \in Accepts(b) : BagRemove(b, x)[y] = b[y]
<1> DEFINE more == BagAdd(b, x)
           less == BagRemove(b, x)
<1>1. /\ DOMAIN more = DOMAIN b \cup {x}
      /\ \A y \in DOMAIN b \ {x} : more[y] = b[y]
  BY BagAddDomain
<1>2. /\ DOMAIN b \ {x} \subseteq DOMAIN less
      /\ DOMAIN less \subseteq DOMAIN b
      /\ \A y \in DOMAIN b \ {x} : less[y] = b[y]
  BY BagRemoveDomain
<1> HIDE DEF more, less
<1>3. \A y \in Accepts(b) : y \in DOMAIN b \ {x}
  BY DEF Accepts
<1>4. Accepts(more) = Accepts(b)
  BY <1>1 DEF Accepts
<1>5. Accepts(less) = Accepts(b)
  BY <1>2 DEF Accepts
<1>6. \A y \in Accepts(b) : more[y] = b[y] /\ less[y] = b[y]
  BY <1>1, <1>2, <1>3
<1> QED
  BY <1>4, <1>5, <1>6 DEF more, less

\* An accept that starts, and one that ends.
LEMMA AcceptStarts ==
    ASSUME NEW b, NEW x, x.type = "ACCEPT", Accepts(b) = {}
    PROVE  Accepts(BagAdd(b, x)) = {x} /\ BagAdd(b, x)[x] = 1
<1> DEFINE more == BagAdd(b, x)
<1>1. DOMAIN more = DOMAIN b \cup {x} /\ (x \notin DOMAIN b => more[x] = 1)
  BY BagAddDomain
<1> HIDE DEF more
<1>2. x \notin DOMAIN b /\ \A y \in DOMAIN b : y.type # "ACCEPT"
  BY DEF Accepts
<1>3. Accepts(more) = {x} /\ more[x] = 1
  BY <1>1, <1>2 DEF Accepts
<1> QED
  BY <1>3 DEF more

LEMMA AcceptEnds ==
    ASSUME NEW b, NEW x, Accepts(b) = {x}, b[x] = 1
    PROVE  Accepts(BagRemove(b, x)) = {}
<1> DEFINE less == BagRemove(b, x)
<1>1. x \in DOMAIN b /\ b[x] = 1
  BY DEF Accepts
<1>2. DOMAIN less = DOMAIN b \ {x}
  BY <1>1, BagRemoveDomain
<1> HIDE DEF less
<1>3. \A y \in DOMAIN b \ {x} : y.type # "ACCEPT"
  BY DEF Accepts
<1>4. Accepts(less) = {}
  BY <1>2, <1>3 DEF Accepts
<1> QED
  BY <1>4 DEF less

\* A thread that goes from one place to another, neither of them of an accept.
LEMMA OtherPlaces ==
    ASSUME Inv, NEW t \in Thread, NEW place, at' = [at EXCEPT ![t] = place],
           at[t] \in {"announce", "open", "firstRecv", "postAccept"} <=>
             place \in {"announce", "open", "firstRecv", "postAccept"}
    PROVE  AcceptingWorkers' = AcceptingWorkers
  BY DEF Inv, ThreadsInv, Thread, AcceptingWorkers, Accepting

LEMMA SystemAccepts ==
    ASSUME Inv, "AcceptError" \notin may, AcceptInv, System
    PROVE  AcceptInv'
<1>1. at' = at
  BY DEF System, SendData, HangUp, RecvEnds, CloseEnds, Connect, threads
<1>2. AcceptingWorkers' = AcceptingWorkers
  BY <1>1 DEF AcceptingWorkers, Accepting
<1>3. ASSUME NEW s \in Socket, NEW c \in Conn, Connect(c, s)
      PROVE  AcceptInv'
  BY <1>3, Kinds, AcceptEnds, AcceptStarts, NullAssumption, <1>2 DEF Connect, BagIn, BagToSet, May, Accepts,
    AcceptInv, InSystem, Completed, InHand
<1>4. ASSUME NEW s \in Socket, SendData(s) \/ HangUp(s) \/ RecvEnds(s) \/ CloseEnds(s)
      PROVE  AcceptStays
  BY <1>4, OtherKinds, Kinds, <1>2 DEF SendData, HangUp, RecvEnds, CloseEnds, AcceptStays
<1> QED
  BY <1>3, <1>4, AcceptStaysInv DEF System

LEMMA LogicAccepts ==
    ASSUME Inv, GameLogicThread
    PROVE  AcceptStays
<1>1. op' = op /\ done' = done
  BY DEF GameLogicThread, UpdateQueue, OnAcceptMessage, OnTCPMessage, OnCloseMessage, Close
<1>2. \/ at' = at
      \/ at[Logic] = "drain" /\ at' = [at EXCEPT ![Logic] = "close"]
  BY DEF GameLogicThread, UpdateQueue, OnAcceptMessage, OnTCPMessage, OnCloseMessage, Close, Step, threads
<1>3. AcceptingWorkers' = AcceptingWorkers
  BY OtherPlaces, <1>2 DEF AcceptingWorkers, Accepting, Thread
<1> QED
  BY <1>1, <1>3 DEF AcceptStays

LEMMA PostCloseAccepts ==
    ASSUME Inv, NEW t \in Thread, PostClose(t)
    PROVE  AcceptStays
<1>1. /\ at[t] \in {"close", "transmit", "poolFailed", "note"}
      /\ \/ at' = [at EXCEPT ![t] = "transmit"]
         \/ at' = [at EXCEPT ![t] = "poolFailed"]
         \/ at' = [at EXCEPT ![t] = "note"]
         \/ at' = [at EXCEPT ![t] = IF t = Logic THEN "drain" ELSE "idle"]
  BY DEF PostClose, CheckState, Transmit, PoolFailed, NoteClose, Goto, Leave, Return, Step
<1>2. PICK place \in {"transmit", "poolFailed", "note", "drain", "idle"} : at' = [at EXCEPT ![t] = place]
  BY <1>1
<1>4. AcceptingWorkers' = AcceptingWorkers
  BY <1>1, <1>2, OtherPlaces
<1>3. done' = done /\ (op' = op \/ op' = BagAdd(op, CloseOp(arg[t])))
  BY DEF PostClose, CheckState, Transmit, PoolFailed, NoteClose
<1> QED
  BY <1>3, <1>4, OtherKinds, Kinds DEF AcceptStays

\* The places of a worker that will post the next accept.
AcceptPlace(place) == place \in {"announce", "open", "firstRecv", "postAccept"}

LEMMA TakeAcceptAccepts ==
    ASSUME Inv, "AcceptError" \notin may, AcceptInv,
           NEW w \in Worker, NEW s \in Socket, NEW c \in Conn \cup {NoConn}, TakeAccept(w, s, c)
    PROVE  AcceptInv'
<1>1. /\ Accepted(s, c) \in DOMAIN done
      /\ done' = BagRemove(done, Accepted(s, c))
      /\ op' = op
      /\ at' = [at EXCEPT ![w] = IF c = NoConn THEN "close" ELSE "announce"]
  BY DEF TakeAccept, Take, BagIn, BagToSet, Step
<1>2. Accepted(s, c) \in Accepts(done)
  BY <1>1, Kinds DEF Accepts
<1>3. /\ Accepts(done) = {Accepted(s, c)} /\ done[Accepted(s, c)] = 1
      /\ Accepted(s, c).conn # NoConn
      /\ Accepts(op) = {} /\ AcceptingWorkers = {}
  BY <1>2 DEF AcceptInv, InSystem, Completed, InHand
<1>4. at' = [at EXCEPT ![w] = "announce"]
  <2>1. c # NoConn
    BY <1>3, Kinds
  <2> QED
    BY <1>1, <2>1
<1>5. Accepts(done') = {}
  BY <1>1, <1>3, AcceptEnds
<1>6. Worker \subseteq Thread /\ DOMAIN at = Thread
  BY DEF Inv, ThreadsInv, Thread
<1>7. AcceptingWorkers' = {w}
  BY <1>3, <1>4, <1>6 DEF AcceptingWorkers, Accepting
<1> QED
  BY <1>1, <1>3, <1>5, <1>7 DEF AcceptInv, InHand

LEMMA PostAcceptAccepts ==
    ASSUME Inv, AcceptInv, NEW w \in Worker, PostAccept(w), isRun'
    PROVE  AcceptInv'
<1>1. /\ at[w] = "postAccept"
      /\ at' = [at EXCEPT ![w] = "idle"]
      /\ op' = BagAdd(op, AcceptOp(Head(pool)))
      /\ done' = done
  BY DEF PostAccept, Leave, Step
<1>2. w \in AcceptingWorkers
  BY <1>1 DEF AcceptingWorkers, Accepting
<1>3. AcceptingWorkers = {w} /\ Accepts(op) = {} /\ Accepts(done) = {}
  BY <1>2 DEF AcceptInv, InSystem, Completed, InHand
<1>4. Worker \subseteq Thread /\ DOMAIN at = Thread
  BY DEF Inv, ThreadsInv, Thread
<1>5. AcceptingWorkers' = {}
  BY <1>1, <1>3, <1>4 DEF AcceptingWorkers, Accepting
<1>6. Accepts(op') = {AcceptOp(Head(pool))} /\ op'[AcceptOp(Head(pool))] = 1
  BY <1>1, <1>3, AcceptStarts, Kinds
<1> QED
  BY <1>1, <1>3, <1>5, <1>6 DEF AcceptInv, InSystem

\* A worker that keeps the accept it has, or has none and gets none.
LEMMA WorkerAccepts ==
    ASSUME Inv, NEW w \in Worker,
           \/ \E s \in Socket : TakeClose(w, s) \/ \E c \in Conn \cup {NoConn} : TakeRecv(w, s, c)
           \/ PostAcceptMessage(w) \/ OpenState(w) \/ FirstRecv(w) \/ FirstRecvFails(w)
           \/ OnRecvTCP(w) \/ PostRecv(w) \/ CloseReturned(w) \/ PoolSocket(w)
    PROVE  AcceptStays
<1> USE DEF Take, Step, Goto, Leave
<1>0. /\ \A place \in {"announce", "open", "firstRecv", "postAccept"} : AcceptPlace(place)
      /\ \A place \in {"idle", "data", "postRecv", "returned", "close", "pool"} : ~AcceptPlace(place)
  BY DEF AcceptPlace
<1>1. PICK place : /\ at' = [at EXCEPT ![w] = place]
                   /\ AcceptPlace(at[w]) <=> AcceptPlace(place)
  <2>1. CASE \E s \in Socket : TakeClose(w, s)
    BY <2>1, <1>0 DEF TakeClose
  <2>2. CASE \E s \in Socket, c \in Conn \cup {NoConn} : TakeRecv(w, s, c)
    BY <2>2, <1>0 DEF TakeRecv
  <2>3. CASE PostAcceptMessage(w)
    BY <2>3, <1>0 DEF PostAcceptMessage
  <2>4. CASE OpenState(w)
    BY <2>4, <1>0 DEF OpenState
  <2>5. CASE FirstRecv(w) \/ FirstRecvFails(w)
    BY <2>5, <1>0 DEF FirstRecv, FirstRecvFails
  <2>6. CASE OnRecvTCP(w)
    BY <2>6, <1>0 DEF OnRecvTCP
  <2>7. CASE PostRecv(w)
    BY <2>7, <1>0 DEF PostRecv
  <2>8. CASE CloseReturned(w)
    BY <2>8, <1>0 DEF CloseReturned
  <2>9. CASE PoolSocket(w)
    BY <2>9, <1>0 DEF PoolSocket
  <2> QED
    BY <2>1, <2>2, <2>3, <2>4, <2>5, <2>6, <2>7, <2>8, <2>9
<1>2. w \in Thread
  BY DEF Thread
<1>3. AcceptingWorkers' = AcceptingWorkers
  BY <1>1, <1>2, OtherPlaces DEF AcceptPlace
<1>4. op' = op \/ op' = BagAdd(op, RecvOp(arg[w]))
  BY DEF TakeClose, TakeRecv, PostAcceptMessage, OpenState, FirstRecv, FirstRecvFails, OnRecvTCP,
         PostRecv, CloseReturned, PoolSocket
<1>5. \/ done' = done
      \/ \E s : done' = BagRemove(done, Closed(s))
      \/ \E s, c : done' = BagRemove(done, Received(s, c))
  BY DEF TakeClose, TakeRecv, PostAcceptMessage, OpenState, FirstRecv, FirstRecvFails, OnRecvTCP,
         PostRecv, CloseReturned, PoolSocket
<1>6. Accepts(op') = Accepts(op) /\ \A x \in Accepts(op) : op'[x] = op[x]
  BY <1>4, OtherKinds, Kinds
<1>7. Accepts(done') = Accepts(done) /\ \A x \in Accepts(done) : done'[x] = done[x]
  BY <1>5, OtherKinds, Kinds
<1> QED
  BY <1>3, <1>6, <1>7 DEF AcceptStays

LEMMA NextAccepts ==
    ASSUME Inv, "AcceptError" \notin may, AcceptInv, [Next]_vars, isRun'
    PROVE  AcceptInv'
<1>1. CASE UNCHANGED vars
  BY <1>1, AcceptStaysInv DEF vars, threads, AcceptStays, AcceptingWorkers, Accepting
<1>2. ASSUME NEW w \in Worker, Handle(w)
      PROVE  AcceptInv'
  BY PostAcceptAccepts, TakeAcceptAccepts, AcceptStaysInv, <1>2, WorkerAccepts DEF Handle
<1> QED
  BY <1>1, <1>2, SystemAccepts, LogicAccepts, PostCloseAccepts, AcceptStaysInv DEF Next

LEMMA InitAccepts == Init => InSystem
<1> SUFFICES ASSUME Init
             PROVE  InSystem
  OBVIOUS
<1>1. PICK m \in Machines, s \in Socket :
        /\ op = SetToBag({AcceptOp(s)})
        /\ at = [t \in Thread |-> IF t = Logic THEN "drain"
                                  ELSE IF t \in m.workers THEN "idle" ELSE "unused"]
  BY MachineAssumption DEF Init
<1>2. done = EmptyBag
  BY DEF Init
<1>3. DOMAIN op = {AcceptOp(s)} /\ op[AcceptOp(s)] = 1
  BY <1>1 DEF SetToBag
<1>4. Accepts(op) = {AcceptOp(s)}
  BY <1>3, Kinds DEF Accepts
<1>5. DOMAIN done = {}
  BY <1>2 DEF EmptyBag, SetToBag
<1>6. Accepts(done) = {}
  BY <1>5 DEF Accepts
<1>7. \A w \in Worker : w \in Thread /\ at[w] \in {"drain", "idle", "unused"}
  BY <1>1 DEF Thread
<1>8. AcceptingWorkers = {}
  BY <1>7 DEF AcceptingWorkers, Accepting
<1> QED
  BY <1>3, <1>4, <1>6, <1>8 DEF InSystem

LEMMA MayConstant == [Next]_vars => may' = may
<1> SUFFICES ASSUME [Next]_vars
             PROVE  may' = may
  OBVIOUS
<1>1. CASE UNCHANGED vars
  BY <1>1 DEF vars
<1>2. CASE System
  BY <1>2 DEF System, SendData, HangUp, RecvEnds, CloseEnds, Connect
<1>3. CASE GameLogicThread
  BY <1>3 DEF GameLogicThread, UpdateQueue, OnAcceptMessage, OnTCPMessage, OnCloseMessage, Close
<1>4. ASSUME NEW t \in Thread, PostClose(t)
      PROVE  may' = may
  BY <1>4 DEF PostClose, CheckState, Transmit, PoolFailed, NoteClose
<1>5. ASSUME NEW w \in Worker, Handle(w)
      PROVE  may' = may
  BY <1>5 DEF Handle, TakeAccept, TakeRecv, TakeClose, PostAcceptMessage, OpenState, FirstRecv,
              FirstRecvFails, PostAccept, OnRecvTCP, PostRecv, CloseReturned, PoolSocket
<1> QED
  BY <1>1, <1>2, <1>3, <1>4, <1>5 DEF Next

\* The invariant counts one accept.
LEMMA CopiesOfOne ==
    ASSUME NEW b, NEW x, b[x] = 1
    PROVE  Copies(b, {x}) = {<<x, 1>>} /\ Cardinality(Copies(b, {x})) = 1
<1>1. Copies(b, {x}) = {<<x, n>> : n \in 1 .. 1}
  BY DEF Copies
<1>2. 1 .. 1 = {1}
  OBVIOUS
<1>3. Copies(b, {x}) = {<<x, 1>>}
  BY <1>1, <1>2
<1> QED
  BY <1>3, FS_Singleton

LEMMA CopiesOfNone == ASSUME NEW b PROVE Cardinality(Copies(b, {})) = 0
  BY FS_EmptySet DEF Copies

LEMMA AcceptInvCounts == AcceptInv => AcceptCount = 1
<1> SUFFICES ASSUME AcceptInv
             PROVE  AcceptCount = 1
  OBVIOUS
<1>1. AcceptCount = Cardinality(Copies(op, Accepts(op))) + Cardinality(Copies(done, Accepts(done)))
                      + Cardinality(AcceptingWorkers)
  BY DEF AcceptCount, AcceptingWorkers
<1>2. CASE InSystem
  <2>1. PICK x : Accepts(op) = {x} /\ op[x] = 1
    BY <1>2 DEF InSystem
  <2>2. Cardinality(Copies(op, Accepts(op))) = 1
    BY <2>1, CopiesOfOne
  <2>3. Cardinality(Copies(done, Accepts(done))) = 0
    BY <1>2, CopiesOfNone DEF InSystem
  <2>4. Cardinality(AcceptingWorkers) = 0
    BY <1>2, FS_EmptySet DEF InSystem
  <2> QED
    BY <1>1, <2>2, <2>3, <2>4
<1>3. CASE Completed
  <2>1. PICK x : Accepts(done) = {x} /\ done[x] = 1
    BY <1>3 DEF Completed
  <2>2. Cardinality(Copies(done, Accepts(done))) = 1
    BY <2>1, CopiesOfOne
  <2>3. Cardinality(Copies(op, Accepts(op))) = 0
    BY <1>3, CopiesOfNone DEF Completed
  <2>4. Cardinality(AcceptingWorkers) = 0
    BY <1>3, FS_EmptySet DEF Completed
  <2> QED
    BY <1>1, <2>2, <2>3, <2>4
<1>4. CASE InHand
  <2>1. Cardinality(Copies(op, Accepts(op))) = 0 /\ Cardinality(Copies(done, Accepts(done))) = 0
    BY <1>4, CopiesOfNone DEF InHand
  <2>2. Cardinality(AcceptingWorkers) = 1
    BY <1>4, FS_Singleton DEF InHand
  <2> QED
    BY <1>1, <2>1, <2>2
<1> QED
  BY <1>2, <1>3, <1>4 DEF AcceptInv

\* _bIsRun is reset when AcceptEx fails, and never set again.
LEMMA RunStops ==
    ASSUME [Next]_vars
    PROVE  \/ isRun' = isRun
           \/ /\ isRun' = FALSE /\ pool # << >>
              /\ May("PostAcceptError") \/ link[Head(pool)] # NoConn
<1>1. CASE UNCHANGED vars
  BY <1>1 DEF vars
<1>2. CASE System \/ GameLogicThread
  BY <1>2 DEF System, SendData, HangUp, RecvEnds, CloseEnds, Connect, GameLogicThread, UpdateQueue, OnAcceptMessage,
    OnTCPMessage, OnCloseMessage, Close
<1>3. ASSUME NEW t \in Thread, PostClose(t)
      PROVE  isRun' = isRun
  BY <1>3 DEF PostClose, CheckState, Transmit, PoolFailed, NoteClose
<1>4. ASSUME NEW w \in Worker, Handle(w), ~PostAccept(w)
      PROVE  isRun' = isRun
  BY <1>4 DEF Handle, TakeAccept, TakeRecv, TakeClose, PostAcceptMessage, OpenState, FirstRecv,
              FirstRecvFails, OnRecvTCP, PostRecv, CloseReturned, PoolSocket
<1>5. ASSUME NEW w \in Worker, PostAccept(w)
      PROVE  \/ isRun' = isRun
             \/ /\ isRun' = FALSE /\ pool # << >>
                /\ May("PostAcceptError") \/ link[Head(pool)] # NoConn
  BY <1>5 DEF PostAccept
<1> QED
  BY <1>1, <1>2, <1>3, <1>4, <1>5 DEF Next

(***************************************************************************)
(* One socket, one place.  As long as no two threads can close at once, no *)
(* close fails and no receive context is reused too early, a socket is     *)
(* either pooled, or outstanding, or completed, or in the hands of one     *)
(* worker, or lost, and where it is determines its state and its link.     *)
(***************************************************************************)
Calm == may \cap {"ServerClose", "CloseError", "OverlapReuse"} = {}

Of(b, s) == {x \in DOMAIN b : x.socket = s}
Places(q, s) == {i \in DOMAIN q : q[i] = s}
Hands(s) == {w \in Worker : arg[w] = s}

Shut(s) == ~sockStates[s] /\ link[s] = NoConn
Open(s) == sockStates[s] /\ link[s] \in Conn

OpPhase(s, x) ==
    \/ x = AcceptOp(s) /\ Shut(s)
    \/ x = RecvOp(s) /\ Open(s)
    \/ x = CloseOp(s) /\ ~sockStates[s]

DonePhase(s, x) ==
    \/ x = Accepted(s, link[s]) /\ ~sockStates[s]
    \/ x \in {Received(s, link[s]), Received(s, NoConn)} /\ Open(s)
    \/ x = Closed(s) /\ Shut(s)

HandPhase(s, w) ==
    \/ at[w] = "announce" /\ ~sockStates[s] /\ link[s] \in Conn /\ from[w] = link[s]
    \/ at[w] = "open" /\ ~sockStates[s] /\ link[s] \in Conn
    \/ at[w] \in {"firstRecv", "postRecv", "returned", "transmit"} /\ Open(s)
    \/ at[w] = "data" /\ Open(s) /\ from[w] = link[s]
    \/ at[w] = "close" /\ (Open(s) \/ Shut(s))
    \/ at[w] = "pool" /\ Shut(s)

NotPooled(s) == Places(pool, s) = {}
PooledOnce(s) == \E i : Places(pool, s) = {i}
NoOp(s) == Of(op, s) = {}
OneOp(s) == \E x : Of(op, s) = {x} /\ op[x] = 1 /\ OpPhase(s, x)
NotDone(s) == Of(done, s) = {}
OneDone(s) == \E x : Of(done, s) = {x} /\ done[x] = 1 /\ DonePhase(s, x)
NoHand(s) == Hands(s) = {}
OneHand(s) == \E w : Hands(s) = {w} /\ HandPhase(s, w)

Lost(s) == NotPooled(s) /\ NoOp(s) /\ NotDone(s) /\ NoHand(s)
InPool(s) == PooledOnce(s) /\ NoOp(s) /\ NotDone(s) /\ NoHand(s) /\ Shut(s)
Outstanding(s) == NotPooled(s) /\ OneOp(s) /\ NotDone(s) /\ NoHand(s)
IsDone(s) == NotPooled(s) /\ NoOp(s) /\ OneDone(s) /\ NoHand(s)
Held(s) == NotPooled(s) /\ NoOp(s) /\ NotDone(s) /\ OneHand(s)

Phase(s) == Lost(s) \/ InPool(s) \/ Outstanding(s) \/ IsDone(s) \/ Held(s)

SocketTypes ==
    /\ pool \in Seq(Socket)
    /\ sockStates \in [Socket -> BOOLEAN]
    /\ link \in [Socket -> Conn \cup {NoConn}]

LogicIdle == at[Logic] = "drain" /\ arg[Logic] = NoSocket

PlacesInv == SocketTypes /\ LogicIdle /\ \A s \in Socket : Phase(s)

\* What is where determines the phase.
LEMMA PooledPhase ==
    ASSUME NEW s, Phase(s), Places(pool, s) # {}
    PROVE  InPool(s)
  BY DEF Phase, Lost, Outstanding, IsDone, Held, NotPooled

LEMMA OpIsPhase ==
    ASSUME NEW s, Phase(s), NEW x \in Of(op, s)
    PROVE  /\ NotPooled(s) /\ NotDone(s) /\ NoHand(s)
           /\ Of(op, s) = {x} /\ op[x] = 1 /\ OpPhase(s, x)
  BY DEF Phase, Lost, InPool, Outstanding, IsDone, Held, NoOp, OneOp

LEMMA DoneIsPhase ==
    ASSUME NEW s, Phase(s), NEW x \in Of(done, s)
    PROVE  /\ NotPooled(s) /\ NoOp(s) /\ NoHand(s)
           /\ Of(done, s) = {x} /\ done[x] = 1 /\ DonePhase(s, x)
  BY DEF Phase, Lost, InPool, Outstanding, IsDone, Held, NotDone, OneDone

LEMMA HandIsPhase ==
    ASSUME NEW s, Phase(s), NEW w \in Hands(s)
    PROVE  /\ NotPooled(s) /\ NoOp(s) /\ NotDone(s)
           /\ Hands(s) = {w} /\ HandPhase(s, w)
  BY DEF Phase, Lost, InPool, Outstanding, IsDone, Held, NoHand, OneHand

\* A step that does not concern socket s.
Untouched(s) ==
    /\ (NotPooled(s) => NotPooled(s)') /\ (PooledOnce(s) => PooledOnce(s)')
    /\ Of(op', s) = Of(op, s) /\ \A x \in Of(op, s) : op'[x] = op[x]
    /\ Of(done', s) = Of(done, s) /\ \A x \in Of(done, s) : done'[x] = done[x]
    /\ Hands(s)' = Hands(s) /\ \A w \in Hands(s) : at'[w] = at[w] /\ from'[w] = from[w]
    /\ sockStates'[s] = sockStates[s] /\ link'[s] = link[s]

LEMMA UntouchedPhase ==
    ASSUME NEW s \in Socket, Phase(s), Untouched(s)
    PROVE  Phase(s)'
<1>1. /\ NoOp(s) => NoOp(s)'
      /\ NotDone(s) => NotDone(s)'
      /\ NoHand(s) => NoHand(s)'
      /\ Shut(s) => Shut(s)'
      /\ Open(s) => Open(s)'
  BY DEF Untouched, NoOp, NotDone, NoHand, Shut, Open
<1>2. OneOp(s) => OneOp(s)'
  <2> SUFFICES ASSUME OneOp(s)
               PROVE  OneOp(s)'
    OBVIOUS
  <2>1. PICK x : Of(op, s) = {x} /\ op[x] = 1 /\ OpPhase(s, x)
    BY DEF OneOp
  <2>2. Of(op', s) = {x} /\ op'[x] = 1
    BY <2>1 DEF Untouched
  <2>3. OpPhase(s, x)'
    BY <1>1, <2>1 DEF OpPhase, Untouched
  <2> QED
    BY <2>2, <2>3 DEF OneOp
<1>3. OneDone(s) => OneDone(s)'
  <2> SUFFICES ASSUME OneDone(s)
               PROVE  OneDone(s)'
    OBVIOUS
  <2>1. PICK x : Of(done, s) = {x} /\ done[x] = 1 /\ DonePhase(s, x)
    BY DEF OneDone
  <2>2. Of(done', s) = {x} /\ done'[x] = 1
    BY <2>1 DEF Untouched
  <2>3. DonePhase(s, x)'
    BY <1>1, <2>1 DEF DonePhase, Untouched
  <2> QED
    BY <2>2, <2>3 DEF OneDone
<1>4. OneHand(s) => OneHand(s)'
  <2> SUFFICES ASSUME OneHand(s)
               PROVE  OneHand(s)'
    OBVIOUS
  <2>1. PICK w : Hands(s) = {w} /\ HandPhase(s, w)
    BY DEF OneHand
  <2>2. Hands(s)' = {w} /\ at'[w] = at[w] /\ from'[w] = from[w]
    BY <2>1 DEF Untouched
  <2>3. HandPhase(s, w)'
    BY <1>1, <2>1, <2>2 DEF HandPhase, Untouched
  <2> QED
    BY <2>2, <2>3 DEF OneHand
<1>5. (NotPooled(s) => NotPooled(s)') /\ (PooledOnce(s) => PooledOnce(s)')
  BY DEF Untouched
<1> QED
  BY <1>1, <1>2, <1>3, <1>4, <1>5 DEF Phase, Lost, InPool, Outstanding, IsDone, Held

\* Bags.
LEMMA AddOf ==
    ASSUME NEW b, NEW x
    PROVE  /\ Of(b, x.socket) = {} => Of(BagAdd(b, x), x.socket) = {x} /\ BagAdd(b, x)[x] = 1
           /\ \A s : s # x.socket => /\ Of(BagAdd(b, x), s) = Of(b, s)
                                     /\ \A y \in Of(b, s) : BagAdd(b, x)[y] = b[y]
<1> DEFINE more == BagAdd(b, x)
<1>1. /\ DOMAIN more = DOMAIN b \cup {x}
      /\ \A y \in DOMAIN b \ {x} : more[y] = b[y]
      /\ x \notin DOMAIN b => more[x] = 1
  BY BagAddDomain
<1> HIDE DEF more
<1>2. ASSUME Of(b, x.socket) = {}
      PROVE  Of(more, x.socket) = {x} /\ more[x] = 1
  BY <1>2, <1>1 DEF Of
<1>3. ASSUME NEW s, s # x.socket
      PROVE  Of(more, s) = Of(b, s) /\ \A y \in Of(b, s) : more[y] = b[y]
  BY <1>3, <1>1 DEF Of
<1> QED
  BY <1>2, <1>3 DEF more

LEMMA RemoveOf ==
    ASSUME NEW b, NEW x
    PROVE  /\ Of(b, x.socket) = {x} /\ b[x] = 1 => Of(BagRemove(b, x), x.socket) = {}
           /\ \A s : s # x.socket => /\ Of(BagRemove(b, x), s) = Of(b, s)
                                     /\ \A y \in Of(b, s) : BagRemove(b, x)[y] = b[y]
<1> DEFINE less == BagRemove(b, x)
<1>1. /\ DOMAIN b \ {x} \subseteq DOMAIN less
      /\ DOMAIN less \subseteq DOMAIN b
      /\ \A y \in DOMAIN b \ {x} : less[y] = b[y]
      /\ x \in DOMAIN b /\ b[x] = 1 => DOMAIN less = DOMAIN b \ {x}
  BY BagRemoveDomain
<1> HIDE DEF less
<1>2. ASSUME Of(b, x.socket) = {x}, b[x] = 1
      PROVE  Of(less, x.socket) = {}
  BY <1>2, <1>1 DEF Of
<1>3. ASSUME NEW s, s # x.socket
      PROVE  Of(less, s) = Of(b, s) /\ \A y \in Of(b, s) : less[y] = b[y]
  BY <1>3, <1>1 DEF Of
<1> QED
  BY <1>2, <1>3 DEF less

\* The pool.
LEMMA PoolAppend ==
    ASSUME NEW q \in Seq(Socket), NEW s \in Socket, Places(q, s) = {}
    PROVE  /\ Append(q, s) \in Seq(Socket)
           /\ Places(Append(q, s), s) = {Len(q) + 1}
           /\ \A u : u # s => Places(Append(q, s), u) = Places(q, u)
<1> DEFINE r == Append(q, s)
<1>1. /\ r \in Seq(Socket) /\ Len(r) = Len(q) + 1
      /\ \A i \in 1 .. Len(q) : r[i] = q[i]
      /\ r[Len(q) + 1] = s
  BY AppendProperties
<1>2. DOMAIN r = 1 .. Len(q) + 1 /\ DOMAIN q = 1 .. Len(q) /\ Len(q) \in Nat
  BY <1>1, LenProperties
<1> HIDE DEF r
<1>3. \A i \in DOMAIN r : i \in DOMAIN q \/ i = Len(q) + 1
  BY <1>2
<1>4. Places(r, s) = {Len(q) + 1}
  BY <1>1, <1>2, <1>3 DEF Places
<1>5. ASSUME NEW u, u # s
      PROVE  Places(r, u) = Places(q, u)
  BY <1>1, <1>2, <1>3, <1>5 DEF Places
<1> QED
  BY <1>1, <1>4, <1>5 DEF r

LEMMA PoolTail ==
    ASSUME NEW q \in Seq(Socket), q # << >>
    PROVE  /\ Tail(q) \in Seq(Socket) /\ Head(q) \in Socket
           /\ Places(q, Head(q)) # {}
           /\ (\E i : Places(q, Head(q)) = {i}) => Places(Tail(q), Head(q)) = {}
           /\ \A u : u # Head(q) =>
                /\ Places(q, u) = {} => Places(Tail(q), u) = {}
                /\ (\E i : Places(q, u) = {i}) => \E i : Places(Tail(q), u) = {i}
<1> DEFINE r == Tail(q)
           h == Head(q)
<1>1. /\ h \in Socket /\ r \in Seq(Socket) /\ Len(r) = Len(q) - 1
      /\ \A i \in 1 .. Len(r) : r[i] = q[i + 1]
  BY HeadTailProperties
<1>2. /\ DOMAIN r = 1 .. Len(r) /\ DOMAIN q = 1 .. Len(q) /\ Len(q) \in Nat \ {0}
      /\ h = q[1]
  BY <1>1, LenProperties, EmptySeq
<1> HIDE DEF r, h
<1>3. 1 \in Places(q, h)
  BY <1>2 DEF Places
<1>4. \A i \in DOMAIN r : i + 1 \in DOMAIN q /\ r[i] = q[i + 1] /\ i # 0 /\ i \in Nat
  BY <1>1, <1>2
<1>5. \A i \in DOMAIN q : i = 1 \/ (i - 1 \in DOMAIN r /\ r[i - 1] = q[i])
  BY <1>1, <1>2
<1>6. ASSUME NEW i, Places(q, h) = {i}
      PROVE  Places(r, h) = {}
  <2>1. i = 1
    BY <1>3, <1>6
  <2>2. \A j \in DOMAIN r : r[j] # h
    <3> SUFFICES ASSUME NEW j \in DOMAIN r, r[j] = h
                 PROVE  FALSE
      OBVIOUS
    <3>1. j + 1 \in Places(q, h)
      BY <1>4 DEF Places
    <3> QED
      BY <1>4, <1>6, <2>1, <3>1
  <2> QED
    BY <2>2 DEF Places
<1>7. ASSUME NEW u, u # h, Places(q, u) = {}
      PROVE  Places(r, u) = {}
  BY <1>4, <1>7 DEF Places
<1>8. ASSUME NEW u, u # h, NEW i, Places(q, u) = {i}
      PROVE  Places(r, u) = {i - 1}
  BY <1>8, <1>2, <1>5, <1>4 DEF Places
<1> QED
  BY <1>1, <1>3, <1>6, <1>7, <1>8 DEF r, h

\* The steps.  Each works on one socket.
Elsewhere(s) == \A u \in Socket \ {s} : Untouched(u)
Works(s) == PlacesInv' /\ Elsewhere(s)

\* The completions of socket s and the workers that have it.
Where(s, ds, ws) == Of(done, s) = ds /\ Hands(s) = ws

\* The logic thread has been told, or will be when it has taken all messages, whose connection
\* socket s carries; it has been told nothing of it, or that it is closed.
Known(s) == Open(s) \/ \E w \in Hands(s) : at[w] = "open"
Fresh(s) == \/ Shut(s) /\ Closed(s) \notin Of(done, s)
            \/ \E c : Accepted(s, c) \in Of(done, s)
            \/ \E w \in Hands(s) : at[w] = "announce"

\* A step that works on socket s and tells the logic thread nothing, or sends it message m.
Silent(s) == /\ queue' = queue
             /\ Known(s)' => Known(s) /\ link'[s] = link[s]
             /\ Fresh(s)' => Fresh(s)
Tells(s, m) == /\ queue' = Append(queue, m) /\ m \in Message /\ m.socket = s
               /\ m.type = "TCP" => Known(s) /\ m.conn = link[s]
               /\ m.type = "ACCEPT" => Fresh(s)
               /\ Known(s)' => /\ link'[s] = link[s]
                               /\ m.type = "TCP" \/ (m.type = "ACCEPT" /\ m.conn = link[s])
               /\ Fresh(s)' => m.type = "CLOSE"

Transition(s) == /\ UNCHANGED <<players, current>>
                 /\ Silent(s) \/ \E m : Tells(s, m)

LEMMA StepsOnOne ==
    ASSUME PlacesInv, NEW s \in Socket, Elsewhere(s), Phase(s)', SocketTypes', LogicIdle'
    PROVE  Works(s)
<1>1. ASSUME NEW u \in Socket \ {s}
      PROVE  Phase(u)'
  BY <1>1, UntouchedPhase DEF PlacesInv, Elsewhere
<1> QED
  BY <1>1 DEF PlacesInv, Works

LEMMA AllStay ==
    ASSUME PlacesInv, UNCHANGED <<pool, op, done, at, arg, from, sockStates, link>>
    PROVE  PlacesInv' /\ \A s \in Socket : Untouched(s)
<1>1. ASSUME NEW u \in Socket
      PROVE  Untouched(u)
  BY DEF Untouched, NotPooled, PooledOnce, Hands
<1>2. SocketTypes' /\ LogicIdle'
  BY DEF PlacesInv, SocketTypes, LogicIdle
<1> QED
  BY <1>1, <1>2, UntouchedPhase DEF PlacesInv

LEMMA KindsDiffer ==
    /\ \A s, u : /\ AcceptOp(s) # RecvOp(u) /\ AcceptOp(s) # CloseOp(u) /\ RecvOp(s) # CloseOp(u)
    /\ \A s, c, u, d : /\ Accepted(s, c) # Received(u, d)
                       /\ Accepted(s, c) # Closed(u) /\ Received(s, c) # Closed(u)
                       /\ Accepted(s, c) = Accepted(u, d) => s = u /\ c = d
                       /\ Received(s, c) = Received(u, d) => s = u /\ c = d
<1>1. \A s, u : AcceptOp(s) # RecvOp(u) /\ AcceptOp(s) # CloseOp(u) /\ RecvOp(s) # CloseOp(u)
  <2> SUFFICES ASSUME NEW s, NEW u
               PROVE  AcceptOp(s) # RecvOp(u) /\ AcceptOp(s) # CloseOp(u) /\ RecvOp(s) # CloseOp(u)
    OBVIOUS
  <2>1. AcceptOp(s).type = "ACCEPT" /\ RecvOp(u).type = "TCP_RECV" /\ CloseOp(u).type = "CLOSE"
        /\ RecvOp(s).type = "TCP_RECV"
    BY Kinds
  <2> QED
    BY <2>1
<1>2. ASSUME NEW s, NEW c, NEW u, NEW d
      PROVE  /\ Accepted(s, c) # Received(u, d)
             /\ Accepted(s, c) # Closed(u) /\ Received(s, c) # Closed(u)
             /\ Accepted(s, c) = Accepted(u, d) => s = u /\ c = d
             /\ Received(s, c) = Received(u, d) => s = u /\ c = d
  BY Kinds
<1> QED
  BY <1>1, <1>2

\* What an outstanding operation, a completion and a place say of their socket.
LEMMA OpSays ==
    ASSUME NEW s, NEW x, OpPhase(s, x)
    PROVE  /\ x = AcceptOp(s) => Shut(s)
           /\ x = RecvOp(s) => Open(s)
           /\ x = CloseOp(s) => ~sockStates[s]
  BY KindsDiffer DEF OpPhase

LEMMA DoneSays ==
    ASSUME NEW s, NEW x, DonePhase(s, x)
    PROVE  /\ \A c : x = Accepted(s, c) => c = link[s] /\ ~sockStates[s]
           /\ \A c : x = Received(s, c) => c \in {link[s], NoConn} /\ Open(s)
           /\ x = Closed(s) => Shut(s)
  BY KindsDiffer DEF DonePhase

\* An operation ends and a completion of the same socket takes its place.
Completes(s, x, y) ==
    /\ x \in DOMAIN op /\ x.socket = s /\ y.socket = s
    /\ op' = BagRemove(op, x)
    /\ done' = BagAdd(done, y)
    /\ UNCHANGED <<pool, sockStates, at, arg, from>>

LEMMA CompletesMoves ==
    ASSUME PlacesInv, NEW s \in Socket, NEW x, NEW y, Completes(s, x, y),
           NEW l \in Conn \cup {NoConn}, link' = [link EXCEPT ![s] = l],
           OpPhase(s, x) => DonePhase(s, y)'
    PROVE  Works(s) /\ Where(s, {}, {}) /\ Where(s, {y}, {})' /\ OpPhase(s, x)
<1> USE DEF Completes
<1>1. Phase(s)
  BY DEF PlacesInv
<1>2. x \in Of(op, s)
  BY DEF Of
<1>3. /\ NotPooled(s) /\ NotDone(s) /\ NoHand(s)
      /\ Of(op, s) = {x} /\ op[x] = 1 /\ OpPhase(s, x)
  BY <1>1, <1>2, OpIsPhase
<1>4. Of(op', s) = {}
  <2>1. Of(op, x.socket) = {x} /\ op[x] = 1
    BY <1>3
  <2>2. Of(BagRemove(op, x), x.socket) = {}
    BY <2>1, RemoveOf
  <2> QED
    BY <2>2
<1>5. Of(done', s) = {y} /\ done'[y] = 1
  BY <1>3, AddOf DEF NotDone
<1>6. OneDone(s)'
  BY <1>3, <1>5 DEF OneDone
<1>7. NotPooled(s)' /\ NoOp(s)' /\ NoHand(s)'
  BY <1>3, <1>4 DEF NotPooled, NoOp, NoHand, Hands
<1>8. Phase(s)'
  BY <1>6, <1>7 DEF Phase, IsDone
<1>9. Elsewhere(s)
  <2> SUFFICES ASSUME NEW u \in Socket \ {s}
               PROVE  Untouched(u)
    BY DEF Elsewhere
  <2>1. Of(op', u) = Of(op, u) /\ \A z \in Of(op, u) : op'[z] = op[z]
    BY RemoveOf
  <2>2. Of(done', u) = Of(done, u) /\ \A z \in Of(done, u) : done'[z] = done[z]
    BY AddOf
  <2>3. sockStates'[u] = sockStates[u] /\ link'[u] = link[u]
    BY DEF PlacesInv, SocketTypes
  <2> QED
    BY <2>1, <2>2, <2>3 DEF Untouched, NotPooled, PooledOnce, Hands
<1>10. SocketTypes' /\ LogicIdle'
  BY DEF PlacesInv, SocketTypes, LogicIdle
<1>11. Works(s)
  BY <1>8, <1>9, <1>10, StepsOnOne
<1> QED
  BY <1>3, <1>5, <1>7, <1>11 DEF Where, NotDone, NoHand

\* Nothing is told, and what is known, or that nothing is, stays true.
LEMMA OpenSilent ==
    ASSUME NEW s, NEW ds, NEW ws, Known(s), link[s] \in Conn, link'[s] = link[s], queue' = queue,
           Where(s, ds, ws)', \A c : Accepted(s, c) \notin ds, \A w \in ws : at'[w] # "announce"
    PROVE  Silent(s)
  BY NullAssumption DEF Shut, Silent, Fresh, Where

LEMMA ShutSilent ==
    ASSUME NEW s, NEW ds, NEW ws, Fresh(s), ~sockStates'[s], queue' = queue,
           Where(s, ds, ws)', \A w \in ws : at'[w] # "open"
    PROVE  Silent(s)
  BY DEF Silent, Known, Open, Where

LEMMA FreshWhere ==
    ASSUME NEW s, Where(s, {}, {}), Shut(s)
    PROVE  Fresh(s)
  BY DEF Fresh, Where

LEMMA UntouchedSilent ==
    ASSUME NEW s \in Socket, Untouched(s)
    PROVE  /\ Known(s)' => Known(s) /\ link'[s] = link[s]
           /\ Fresh(s)' => Fresh(s)
           /\ queue' = queue => Silent(s)
  BY DEF Untouched, Silent, Known, Fresh, Open, Shut

LEMMA SystemPlaces ==
    ASSUME Calm, PlacesInv, System
    PROVE  \E s \in Socket : Works(s) /\ Transition(s)
<1> USE DEF BagIn, BagToSet, threads, Completes
<1>0. /\ link \in [Socket -> Conn \cup {NoConn}] /\ sockStates \in [Socket -> BOOLEAN]
      /\ UNCHANGED <<players, current, queue>>
  BY DEF PlacesInv, SocketTypes, System, SendData, HangUp, RecvEnds, CloseEnds, Connect, logic
<1>1. ASSUME NEW s \in Socket, SendData(s)
      PROVE  Works(s) /\ Silent(s)
  <2>1. Completes(s, RecvOp(s), Received(s, link[s])) /\ link' = link
    BY <1>1, Kinds DEF SendData
  <2>2. link' = [link EXCEPT ![s] = link[s]]
    BY <1>0, <2>1
  <2>3. OpPhase(s, RecvOp(s)) => DonePhase(s, Received(s, link[s]))'
    BY <2>1, OpSays DEF DonePhase, Open
  <2>4. PICK l : l = link[s]
    OBVIOUS
  <2>5. /\ Works(s) /\ OpPhase(s, RecvOp(s))
        /\ Where(s, {Received(s, l)}, {})'
    BY <1>0, <2>1, <2>4, <2>3, <2>2, CompletesMoves
  <2>6. Open(s)
    BY <2>5, OpSays
  <2>7. \A c : Accepted(s, c) \notin {Received(s, l)}
    BY KindsDiffer
  <2> QED
    BY <1>0, <2>1, <2>5, <2>6, <2>7, OpenSilent DEF Known, Open
<1>2. ASSUME NEW s \in Socket, RecvEnds(s)
      PROVE  Works(s) /\ Silent(s)
  <2>1. Completes(s, RecvOp(s), Received(s, NoConn)) /\ link' = link
    BY <1>2, Kinds DEF RecvEnds, os
  <2>2. link' = [link EXCEPT ![s] = link[s]]
    BY <1>0, <2>1
  <2>3. OpPhase(s, RecvOp(s)) => DonePhase(s, Received(s, NoConn))'
    BY <2>1, OpSays DEF DonePhase, Open
  <2>4. /\ Works(s) /\ OpPhase(s, RecvOp(s))
        /\ Where(s, {Received(s, NoConn)}, {})'
    BY <1>0, <2>1, <2>2, <2>3, CompletesMoves
  <2>5. Open(s)
    BY <2>4, OpSays
  <2>6. \A c : Accepted(s, c) \notin {Received(s, NoConn)}
    BY KindsDiffer
  <2> QED
    BY <1>0, <2>1, <2>4, <2>5, <2>6, OpenSilent DEF Known, Open
<1>3. ASSUME NEW s \in Socket, CloseEnds(s)
      PROVE  Works(s) /\ Silent(s)
  <2>1. CloseOp(s) \in Of(op, s)
    BY <1>3, Kinds DEF CloseEnds, Of
  <2>2. Of(op, s) = {CloseOp(s)}
    BY <2>1, OpIsPhase DEF PlacesInv
  <2>3. RecvOp(s) \notin DOMAIN op
    BY <2>2, Kinds, KindsDiffer DEF Of
  <2>4. Completes(s, CloseOp(s), Closed(s)) /\ link' = [link EXCEPT ![s] = NoConn]
    BY <1>3, <2>3, Kinds DEF CloseEnds
  <2>5. OpPhase(s, CloseOp(s)) => DonePhase(s, Closed(s))'
    BY <1>0, <2>4, OpSays DEF DonePhase, Shut
  <2>6. /\ Works(s) /\ OpPhase(s, CloseOp(s))
        /\ Where(s, {Closed(s)}, {})'
    BY <2>4, <2>5, CompletesMoves
  <2>7. ~sockStates'[s]
    BY <2>4, <2>6, OpSays
  <2>8. ~Known(s)'
    BY <2>6, <2>7 DEF Known, Open, Where
  <2>9. ~Fresh(s)'
    BY <2>6, KindsDiffer DEF Fresh, Where
  <2> QED
    BY <1>0, <2>6, <2>8, <2>9 DEF Silent
<1>4. ASSUME NEW s \in Socket, NEW c \in Conn, Connect(c, s)
      PROVE  Works(s) /\ Silent(s)
  <2>1. ASSUME NEW d \in Conn \cup {NoConn},
               link' = [link EXCEPT ![s] = d], done' = BagAdd(done, Accepted(s, d))
        PROVE  Works(s) /\ Silent(s)
    <3>1. Completes(s, AcceptOp(s), Accepted(s, d))
      BY <1>4, <2>1, Kinds DEF Connect
    <3>2. OpPhase(s, AcceptOp(s)) => DonePhase(s, Accepted(s, d))'
      BY <1>0, <2>1, <3>1, OpSays DEF DonePhase, Shut
    <3>3. /\ Works(s) /\ OpPhase(s, AcceptOp(s))
          /\ Where(s, {}, {}) /\ Where(s, {Accepted(s, d)}, {})'
      BY <2>1, <3>1, <3>2, CompletesMoves
    <3>4. Shut(s) /\ Fresh(s)
      BY <3>3, OpSays, FreshWhere
    <3>5. ~sockStates'[s]
      BY <3>1, <3>4 DEF Shut
    <3> QED
      BY <1>0, <3>3, <3>4, <3>5, ShutSilent
  <2>2. CASE link' = link /\ done' = BagAdd(done, Accepted(s, NoConn))
    BY <1>4, Kinds, OpIsPhase, OpSays, <1>0, <2>2, <2>1 DEF Connect, Of, PlacesInv, Shut
  <2> QED
    BY <1>4, <2>1, <2>2 DEF Connect
<1>5. ASSUME NEW s \in Socket, HangUp(s)
      PROVE  Works(s) /\ Silent(s)
  BY <1>5, AllStay, <1>0, UntouchedSilent DEF HangUp, Works, Elsewhere
<1>6. \E s \in Socket : Works(s) /\ Silent(s)
  BY <1>1, <1>2, <1>3, <1>4, <1>5 DEF System
<1> QED
  BY <1>0, <1>6 DEF Transition

LEMMA LogicPlaces ==
    ASSUME Calm, PlacesInv, GameLogicThread
    PROVE  PlacesInv'
<1>1. ~ \E i \in DOMAIN players : Close(i)
  BY DEF Calm, Close, May
<1>2. UNCHANGED <<pool, op, done, at, arg, from, sockStates, link>>
  BY <1>1 DEF GameLogicThread, UpdateQueue, OnAcceptMessage, OnTCPMessage, OnCloseMessage, threads, os
<1> QED
  BY <1>2, AllStay

\* A worker that works on no socket, and one that works on one.
LEMMA IdleHasNone ==
    ASSUME Inv, PlacesInv, NEW w \in Worker, at[w] \in {"idle", "postAccept"}
    PROVE  arg[w] = NoSocket
<1>1. arg[w] \in Socket \cup {NoSocket}
  BY DEF Inv, ThreadsInv, Thread
<1>2. arg[w] \notin Socket
  <2> SUFFICES ASSUME arg[w] \in Socket
               PROVE  FALSE
    OBVIOUS
  <2>1. w \in Hands(arg[w]) /\ Phase(arg[w])
    BY DEF Hands, PlacesInv
  <2>2. HandPhase(arg[w], w)
    BY <2>1, HandIsPhase
  <2> QED
    BY <2>2 DEF HandPhase
<1> QED
  BY <1>1, <1>2

LEMMA WorkerHas ==
    ASSUME Inv, PlacesInv, NEW w \in Worker, at[w] \in WithSocket
    PROVE  /\ arg[w] \in Socket
           /\ NotPooled(arg[w]) /\ NoOp(arg[w]) /\ NotDone(arg[w])
           /\ Hands(arg[w]) = {w} /\ HandPhase(arg[w], w)
  BY HandIsPhase DEF Inv, ThreadsInv, Thread, Hands, PlacesInv

\* Worker w moves; what it does to the threads, seen from socket s and from the others.
Moves(w, s, place, next) ==
    /\ arg[w] \in {s, NoSocket} /\ next \in {s, NoSocket}
    /\ at' = [at EXCEPT ![w] = place]
    /\ arg' = [arg EXCEPT ![w] = next]
    /\ \A v \in Worker \ {w} : from'[v] = from[v]

LEMMA MovesElsewhere ==
    ASSUME Inv, NEW w \in Worker, NEW s \in Socket, NEW place, NEW next, Moves(w, s, place, next)
    PROVE  /\ \A u \in Socket \ {s} : Hands(u)' = Hands(u) /\ \A v \in Hands(u) : at'[v] = at[v] /\ from'[v] = from[v]
           /\ at'[w] = place /\ (LogicIdle => LogicIdle')
<1>1. Worker \subseteq Thread /\ Logic # w /\ Logic \in Thread
  BY ThreadAssumption DEF Thread, Logic
<1>2. arg \in [Thread -> Socket \cup {NoSocket}] /\ DOMAIN at = Thread
  BY DEF Inv, ThreadsInv
<1>3. ASSUME NEW v \in Worker \ {w}
      PROVE  arg'[v] = arg[v] /\ at'[v] = at[v] /\ from'[v] = from[v]
  BY <1>1, <1>2, <1>3 DEF Moves
<1>4. arg'[w] = next /\ at'[w] = place
  BY <1>1, <1>2 DEF Moves
<1>5. ASSUME NEW u \in Socket \ {s}
      PROVE  Hands(u)' = Hands(u) /\ \A v \in Hands(u) : at'[v] = at[v] /\ from'[v] = from[v]
  BY <1>4, <1>5, NullAssumption, <1>3 DEF Moves, Hands
<1>6. LogicIdle => LogicIdle'
  BY <1>1, <1>2 DEF LogicIdle, Moves
<1> QED
  BY <1>4, <1>5, <1>6

LEMMA MovesHands ==
    ASSUME Inv, NEW w \in Worker, NEW s \in Socket, NEW place, NEW next, Moves(w, s, place, next),
           Hands(s) \subseteq {w}
    PROVE  /\ next = s => Hands(s)' = {w}
           /\ next = NoSocket => NoHand(s)'
  BY NullAssumption DEF Inv, ThreadsInv, Thread, Moves, Hands, NoHand

\* The worker keeps the socket, takes it or gives it up; nothing is started.
LEMMA KeepsSocket ==
    ASSUME Inv, PlacesInv, NEW w \in Worker, NEW s \in Socket, NEW place,
           Moves(w, s, place, s), Hands(s) \subseteq {w},
           NotPooled(s), NoOp(s), NotDone(s)', \A u \in Socket \ {s} :
             Of(done', u) = Of(done, u) /\ \A x \in Of(done, u) : done'[x] = done[x],
           UNCHANGED <<pool, op, link>>,
           NEW b \in BOOLEAN, sockStates' = [sockStates EXCEPT ![s] = b],
           HandPhase(s, w)'
    PROVE  Works(s) /\ Where(s, {}, {w})'
<1>1. Hands(s)' = {w}
  BY MovesHands
<1>2. NotPooled(s)' /\ NoOp(s)' /\ OneHand(s)'
  BY <1>1 DEF NotPooled, NoOp, OneHand
<1>3. Phase(s)'
  BY <1>2 DEF Phase, Held
<1>4. Elsewhere(s)
  <2> SUFFICES ASSUME NEW u \in Socket \ {s}
               PROVE  Untouched(u)
    BY DEF Elsewhere
  <2>1. sockStates'[u] = sockStates[u] /\ link'[u] = link[u]
    BY DEF PlacesInv, SocketTypes
  <2>2. Hands(u)' = Hands(u) /\ \A v \in Hands(u) : at'[v] = at[v] /\ from'[v] = from[v]
    BY MovesElsewhere
  <2> QED
    BY <2>1, <2>2 DEF Untouched, NotPooled, PooledOnce
<1>5. SocketTypes' /\ LogicIdle'
  BY MovesElsewhere DEF PlacesInv, SocketTypes
<1>6. Works(s)
  BY <1>3, <1>4, <1>5, StepsOnOne
<1> QED
  BY <1>1, <1>6 DEF Where, NotDone

\* The worker gives the socket to an operation, to the pool or to nobody.
LEMMA GivesSocket ==
    ASSUME Inv, PlacesInv, NEW w \in Worker, NEW s \in Socket, NEW place,
           Moves(w, s, place, NoSocket), Hands(s) \subseteq {w},
           UNCHANGED <<done, link>>, NotDone(s),
           NEW b \in BOOLEAN, sockStates' = [sockStates EXCEPT ![s] = b],
           pool' \in Seq(Socket), \A u \in Socket \ {s} :
             (NotPooled(u) => NotPooled(u)') /\ (PooledOnce(u) => PooledOnce(u)'),
           \A u \in Socket \ {s} :
             Of(op', u) = Of(op, u) /\ \A x \in Of(op, u) : op'[x] = op[x],
           \/ NotPooled(s)' /\ (NoOp(s)' \/ OneOp(s)')
           \/ PooledOnce(s)' /\ NoOp(s)' /\ Shut(s)'
    PROVE  Works(s) /\ Where(s, {}, {})'
<1>1. NoHand(s)'
  BY MovesHands
<1>2. NotDone(s)'
  BY DEF NotDone
<1>3. Phase(s)'
  BY <1>1, <1>2 DEF Phase, Lost, InPool, Outstanding
<1>4. Elsewhere(s)
  <2> SUFFICES ASSUME NEW u \in Socket \ {s}
               PROVE  Untouched(u)
    BY DEF Elsewhere
  <2>1. sockStates'[u] = sockStates[u] /\ link'[u] = link[u]
    BY DEF PlacesInv, SocketTypes
  <2>2. Hands(u)' = Hands(u) /\ \A v \in Hands(u) : at'[v] = at[v] /\ from'[v] = from[v]
    BY MovesElsewhere
  <2> QED
    BY <2>1, <2>2 DEF Untouched
<1>5. SocketTypes' /\ LogicIdle'
  BY MovesElsewhere DEF PlacesInv, SocketTypes
<1>6. Works(s)
  BY <1>3, <1>4, <1>5, StepsOnOne
<1> QED
  BY <1>1, <1>2, <1>6 DEF Where, NotDone, NoHand

\* A worker takes the completion of a socket that is nowhere else.
LEMMA TakePlaces ==
    ASSUME Inv, PlacesInv, NEW w \in Worker, NEW s \in Socket, NEW x, NEW place,
           at[w] = "idle", x \in DOMAIN done, x.socket = s,
           done' = BagRemove(done, x),
           at' = [at EXCEPT ![w] = place], arg' = [arg EXCEPT ![w] = s],
           \A v \in Worker \ {w} : from'[v] = from[v],
           UNCHANGED <<pool, op, link, sockStates>>,
           DonePhase(s, x) => HandPhase(s, w)'
    PROVE  Works(s) /\ Where(s, {x}, {}) /\ Where(s, {}, {w})' /\ DonePhase(s, x)
<1>1. x \in Of(done, s) /\ Phase(s)
  BY DEF Of, PlacesInv
<1>2. /\ NotPooled(s) /\ NoOp(s) /\ NoHand(s)
      /\ Of(done, s) = {x} /\ done[x] = 1 /\ DonePhase(s, x)
  BY <1>1, DoneIsPhase
<1>3. Of(done, x.socket) = {x} /\ done[x] = 1
  BY <1>2
<1>4. Of(done', s) = {}
  BY <1>3, RemoveOf
<1>5. \A u \in Socket \ {s} : Of(done', u) = Of(done, u) /\ \A y \in Of(done, u) : done'[y] = done[y]
  BY RemoveOf
<1>6. Moves(w, s, place, s)
  BY IdleHasNone DEF Moves
<1>7. sockStates' = [sockStates EXCEPT ![s] = sockStates[s]] /\ sockStates[s] \in BOOLEAN
  BY DEF PlacesInv, SocketTypes
<1>8. NotDone(s)' /\ Hands(s) \subseteq {w} /\ HandPhase(s, w)'
  BY <1>2, <1>4 DEF NotDone, NoHand
<1>9. UNCHANGED <<pool, op, link>>
  OBVIOUS
<1> HIDE DEF Moves
<1>10. Works(s) /\ Where(s, {}, {w})'
  BY <1>2, <1>5, <1>6, <1>7, <1>8, <1>9, KeepsSocket
<1> QED
  BY <1>2, <1>10 DEF Where, NoHand

LEMMA TakesPlaces ==
    ASSUME Inv, PlacesInv, NEW w \in Worker, NEW s \in Socket, NEW c \in Conn \cup {NoConn},
           TakeAccept(w, s, c) \/ TakeRecv(w, s, c) \/ TakeClose(w, s)
    PROVE  Works(s) /\ Transition(s)
<1> USE DEF Take, Step, BagIn, BagToSet
<1>1. /\ w \in Thread /\ DOMAIN at = Thread /\ from \in [Worker -> Conn \cup {NoConn}]
      /\ link[s] \in Conn \cup {NoConn}
  BY DEF Inv, ThreadsInv, Thread, PlacesInv, SocketTypes
<1>0. UNCHANGED <<players, current>>
  BY DEF TakeAccept, TakeRecv, TakeClose, logic
<1>2. CASE TakeAccept(w, s, c)
  <2> DEFINE place == IF c = NoConn THEN "close" ELSE "announce"
  <2>1. /\ at[w] = "idle" /\ Accepted(s, c) \in DOMAIN done /\ Accepted(s, c).socket = s
        /\ done' = BagRemove(done, Accepted(s, c))
        /\ at' = [at EXCEPT ![w] = place] /\ arg' = [arg EXCEPT ![w] = s]
        /\ from' = [from EXCEPT ![w] = c]
        /\ UNCHANGED <<pool, op, link, sockStates>>
    <3>1. Accepted(s, c).socket = s
      BY Kinds
    <3>2. arg' = [arg EXCEPT ![w] = Accepted(s, c).socket]
      BY <1>2 DEF TakeAccept
    <3>3. arg' = [arg EXCEPT ![w] = s]
      BY <3>1, <3>2
    <3> QED
      BY <1>2, <3>1, <3>3 DEF TakeAccept, os
  <2>2. ASSUME DonePhase(s, Accepted(s, c))
        PROVE  HandPhase(s, w)'
    BY <2>2, DoneSays, <1>1, <2>1 DEF Shut, HandPhase
  <2>3. \A v \in Worker \ {w} : from'[v] = from[v]
    BY <1>1, <2>1
  <2> HIDE DEF place
  <2>4. /\ Works(s) /\ DonePhase(s, Accepted(s, c))
        /\ Where(s, {Accepted(s, c)}, {}) /\ Where(s, {}, {w})'
    BY <2>1, <2>2, <2>3, TakePlaces
  <2>5. ~sockStates'[s]
    BY <2>1, <2>4, DoneSays
  <2>6. Fresh(s)
    BY <2>4 DEF Fresh, Where
  <2>7. at'[w] # "open"
    BY <1>1, <2>1 DEF place
  <2>8. queue' = queue
    BY <1>2 DEF TakeAccept
  <2>9. Silent(s)
    BY <2>4, <2>5, <2>6, <2>7, <2>8, ShutSilent
  <2> QED
    BY <1>0, <2>4, <2>9 DEF Transition
<1>3. CASE TakeRecv(w, s, c)
  <2> DEFINE place == IF c = NoConn THEN "close" ELSE "data"
  <2>1. /\ at[w] = "idle" /\ Received(s, c) \in DOMAIN done /\ Received(s, c).socket = s
        /\ done' = BagRemove(done, Received(s, c))
        /\ at' = [at EXCEPT ![w] = place] /\ arg' = [arg EXCEPT ![w] = s]
        /\ from' = [from EXCEPT ![w] = c]
        /\ UNCHANGED <<pool, op, link, sockStates>>
    <3>1. Received(s, c).socket = s
      BY Kinds
    <3>2. arg' = [arg EXCEPT ![w] = Received(s, c).socket]
      BY <1>3 DEF TakeRecv
    <3>3. arg' = [arg EXCEPT ![w] = s]
      BY <3>1, <3>2
    <3> QED
      BY <1>3, <3>1, <3>3 DEF TakeRecv, os
  <2>2. ASSUME DonePhase(s, Received(s, c))
        PROVE  HandPhase(s, w)'
    BY <2>2, DoneSays, <1>1, <2>1 DEF Open, HandPhase
  <2>3. \A v \in Worker \ {w} : from'[v] = from[v]
    BY <1>1, <2>1
  <2> HIDE DEF place
  <2>4. Works(s) /\ DonePhase(s, Received(s, c)) /\ Where(s, {}, {w})'
    BY <2>1, <2>2, <2>3, TakePlaces
  <2>5. Open(s)
    BY <2>4, DoneSays
  <2>6. at'[w] # "announce"
    BY <1>1, <2>1 DEF place
  <2>7. queue' = queue /\ link'[s] = link[s]
    BY <1>3, <2>1 DEF TakeRecv
  <2>8. Silent(s)
    BY <2>4, <2>5, <2>6, <2>7, OpenSilent DEF Known, Open
  <2> QED
    BY <1>0, <2>4, <2>8 DEF Transition
<1>4. CASE TakeClose(w, s)
  <2>1. /\ at[w] = "idle" /\ Closed(s) \in DOMAIN done /\ Closed(s).socket = s
        /\ done' = BagRemove(done, Closed(s))
        /\ at' = [at EXCEPT ![w] = "pool"] /\ arg' = [arg EXCEPT ![w] = s]
        /\ UNCHANGED <<pool, op, link, sockStates, from>>
    BY <1>4, Kinds DEF TakeClose, os
  <2>2. ASSUME DonePhase(s, Closed(s))
        PROVE  HandPhase(s, w)'
    BY <2>1, <2>2, DoneSays, <1>1 DEF Shut, HandPhase
  <2>3. Works(s) /\ DonePhase(s, Closed(s)) /\ Where(s, {}, {w})'
    BY <2>1, <2>2, TakePlaces
  <2>4. Shut(s)' /\ at'[w] = "pool"
    BY <1>1, <2>1, <2>3, DoneSays DEF Shut
  <2>5. ~Known(s)'
    BY <2>3, <2>4 DEF Known, Open, Shut, Where
  <2>6. PICK m : m = [type |-> "CLOSE", socket |-> s]
    OBVIOUS
  <2>7. queue' = Append(queue, m) /\ m \in Message /\ m.socket = s /\ m.type = "CLOSE"
    BY <1>4, <2>6, MessageTypes DEF TakeClose, OnClose, Post
  <2>8. Tells(s, m)
    BY <2>5, <2>7 DEF Tells
  <2> QED
    BY <1>0, <2>3, <2>8 DEF Transition
<1> QED
  BY <1>2, <1>3, <1>4

\* A step that leaves the pool alone keeps who is pooled.
LEMMA SamePool ==
    ASSUME pool' = pool
    PROVE  \A u : (NotPooled(u) => NotPooled(u)') /\ (PooledOnce(u) => PooledOnce(u)')
  BY DEF NotPooled, PooledOnce

\* An operation that a step starts is the only one of its socket, and leaves the others alone.
LEMMA StartsOp ==
    ASSUME NEW s, NEW x, x.socket = s, NoOp(s), op' = BagAdd(op, x), OpPhase(s, x)'
    PROVE  /\ OneOp(s)'
           /\ \A u : u # s => Of(op', u) = Of(op, u) /\ \A y \in Of(op, u) : op'[y] = op[y]
  BY AddOf DEF NoOp, OneOp

\* A worker that goes on with its socket.
LEMMA GoesOnPlaces ==
    ASSUME Inv, PlacesInv, NEW w \in Worker, NEW s \in Socket, NEW place,
           arg[w] = s, at[w] \in WithSocket,
           at' = [at EXCEPT ![w] = place], arg' = arg,
           \A v \in Worker \ {w} : from'[v] = from[v],
           UNCHANGED <<pool, op, done, link>>,
           NEW b \in BOOLEAN, sockStates' = [sockStates EXCEPT ![s] = b],
           HandPhase(s, w) => HandPhase(s, w)'
    PROVE  Works(s) /\ Where(s, {}, {w}) /\ Where(s, {}, {w})'
  BY WorkerHas, KeepsSocket DEF Inv, ThreadsInv, Moves, NotDone, Where

\* A worker that gives its socket away.
LEMMA LeavesPlaces ==
    ASSUME Inv, PlacesInv, NEW w \in Worker, NEW s \in Socket, NEW place,
           arg[w] = s, at[w] \in WithSocket,
           at' = [at EXCEPT ![w] = place], arg' = [arg EXCEPT ![w] = NoSocket],
           \A v \in Worker \ {w} : from'[v] = from[v],
           UNCHANGED <<done, link>>,
           NEW b \in BOOLEAN, sockStates' = [sockStates EXCEPT ![s] = b],
           \/ op' = op /\ pool' = pool
           \/ op' = op /\ pool' = Append(pool, s) /\ Shut(s)'
           \/ pool' = pool /\ \E x : x.socket = s /\ op' = BagAdd(op, x) /\ OpPhase(s, x)'
    PROVE  Works(s) /\ Where(s, {}, {w}) /\ Where(s, {}, {})'
<1>1. /\ NotPooled(s) /\ NoOp(s) /\ NotDone(s)
      /\ Hands(s) = {w} /\ HandPhase(s, w)
  BY WorkerHas
<1>2. Moves(w, s, place, NoSocket)
  BY DEF Moves
<1>3. /\ pool \in Seq(Socket) /\ UNCHANGED <<done, link>> /\ Hands(s) \subseteq {w}
  BY <1>1 DEF PlacesInv, SocketTypes
<1>4. ASSUME op' = op, pool' = pool
      PROVE  Works(s) /\ Where(s, {}, {})'
  BY <1>1, <1>3, <1>4, SamePool, <1>2, GivesSocket DEF NotPooled, NoOp
<1>5. ASSUME op' = op, pool' = Append(pool, s), Shut(s)'
      PROVE  Works(s) /\ Where(s, {}, {})'
  <2>1. /\ pool' \in Seq(Socket) /\ Places(pool', s) = {Len(pool) + 1}
        /\ \A u : u # s => Places(pool', u) = Places(pool, u)
    BY <1>1, <1>3, <1>5, PoolAppend DEF NotPooled
  <2>2. PooledOnce(s)' /\ NoOp(s)'
    BY <1>1, <1>5, <2>1 DEF PooledOnce, NoOp
  <2>3. \A u \in Socket \ {s} : (NotPooled(u) => NotPooled(u)') /\ (PooledOnce(u) => PooledOnce(u)')
    BY <2>1 DEF NotPooled, PooledOnce
  <2>4. \A u \in Socket \ {s} : Of(op', u) = Of(op, u) /\ \A x \in Of(op, u) : op'[x] = op[x]
    BY <1>5
  <2> QED
    BY <1>1, <1>2, <1>3, <1>5, <2>1, <2>2, <2>3, <2>4, GivesSocket
<1>6. ASSUME pool' = pool, NEW x, x.socket = s, op' = BagAdd(op, x), OpPhase(s, x)'
      PROVE  Works(s) /\ Where(s, {}, {})'
  <2>1. OneOp(s)' /\ \A u \in Socket \ {s} : Of(op', u) = Of(op, u) /\ \A y \in Of(op, u) : op'[y] = op[y]
    BY <1>1, <1>6, StartsOp
  <2>2. NotPooled(s)' /\ pool' \in Seq(Socket)
    BY <1>1, <1>3, <1>6 DEF NotPooled
  <2>3. \A u \in Socket \ {s} : (NotPooled(u) => NotPooled(u)') /\ (PooledOnce(u) => PooledOnce(u)')
    BY <1>6, SamePool
  <2> QED
    BY <1>1, <1>2, <1>3, <2>1, <2>2, <2>3, GivesSocket
<1>7. Works(s) /\ Where(s, {}, {})'
  BY <1>4, <1>5, <1>6
<1> QED
  BY <1>1, <1>7 DEF Where, NotDone

LEMMA SameState ==
    ASSUME PlacesInv, NEW s \in Socket, UNCHANGED sockStates
    PROVE  sockStates[s] \in BOOLEAN /\ sockStates' = [sockStates EXCEPT ![s] = sockStates[s]]
  BY DEF PlacesInv, SocketTypes

\* What a worker's socket is like at each place.
LEMMA HandSays ==
    ASSUME NEW s, NEW w, HandPhase(s, w)
    PROVE  /\ at[w] = "announce" => ~sockStates[s] /\ link[s] \in Conn /\ from[w] = link[s]
           /\ at[w] = "open" => ~sockStates[s] /\ link[s] \in Conn
           /\ at[w] \in {"firstRecv", "postRecv", "returned", "transmit", "data"} => Open(s)
           /\ at[w] = "data" => from[w] = link[s]
           /\ at[w] = "close" => Open(s) \/ Shut(s)
           /\ at[w] = "pool" => Shut(s)
           /\ at[w] \notin {"poolFailed", "note"}
  BY DEF HandPhase

LEMMA GoesPlaces ==
    ASSUME Inv, Calm, PlacesInv, NEW w \in Worker,
           \/ PostAcceptMessage(w) \/ OpenState(w) \/ OnRecvTCP(w) \/ CloseReturned(w)
           \/ at[w] = "postRecv" /\ PostRecv(w) /\ op' = op
           \/ CheckState(w) /\ sockStates[arg[w]]
    PROVE  \E s \in Socket : Works(s) /\ Transition(s)
<1> USE DEF Step, Goto, WithSocket
<1>0. PICK s : s = arg[w]
  OBVIOUS
<1>1. at[w] \in WithSocket
  BY DEF PostAcceptMessage, OpenState, OnRecvTCP, CloseReturned, CheckState
<1>2. s \in Socket /\ HandPhase(s, w) /\ Where(s, {}, {w})
  BY <1>0, <1>1, WorkerHas DEF Where, NotDone
<1>3. /\ w \in Thread /\ DOMAIN at = Thread /\ from \in [Worker -> Conn \cup {NoConn}]
      /\ sockStates \in [Socket -> BOOLEAN]
  BY DEF Inv, ThreadsInv, Thread, PlacesInv, SocketTypes
<1>4. UNCHANGED <<players, current>>
  BY DEF PostAcceptMessage, OpenState, OnRecvTCP, CloseReturned, PostRecv, CheckState, logic
<1> SUFFICES Works(s) /\ Transition(s)
  BY <1>2
<1>5. CASE PostAcceptMessage(w)
  <2>1. /\ at[w] = "announce" /\ at' = [at EXCEPT ![w] = "open"] /\ arg' = arg
        /\ UNCHANGED <<pool, op, done, link, sockStates, from>>
    BY <1>5 DEF PostAcceptMessage, os
  <2>2. ~sockStates'[s] /\ link[s] \in Conn /\ link'[s] = link[s] /\ from[w] = link[s] /\ at'[w] = "open"
    BY <1>2, <1>3, <2>1, HandSays
  <2>3. HandPhase(s, w)'
    BY <2>1, <2>2 DEF HandPhase
  <2>4. Works(s) /\ Where(s, {}, {w})'
    BY <1>0, <1>1, <1>2, <2>1, <2>3, SameState, GoesOnPlaces
  <2>5. Fresh(s)
    BY <1>2, <2>1 DEF Fresh, Where
  <2>6. ~Fresh(s)'
    BY <2>2, <2>4, NullAssumption DEF Fresh, Shut, Where
  <2>7. PICK m : m = [type |-> "ACCEPT", socket |-> s, conn |-> from[w]]
    OBVIOUS
  <2>8. /\ queue' = Append(queue, m) /\ m \in Message
        /\ m.socket = s /\ m.type = "ACCEPT" /\ m.conn = link[s]
    BY <1>0, <1>2, <1>5, <2>2, <2>7, MessageTypes DEF PostAcceptMessage, Post
  <2>9. Tells(s, m)
    BY <2>2, <2>5, <2>6, <2>8 DEF Tells
  <2> QED
    BY <1>4, <2>4, <2>9 DEF Transition
<1>6. CASE OpenState(w)
  <2>1. /\ at[w] = "open" /\ at' = [at EXCEPT ![w] = "firstRecv"] /\ arg' = arg
        /\ sockStates' = [sockStates EXCEPT ![s] = TRUE]
        /\ UNCHANGED <<pool, op, done, link, from, queue>>
    BY <1>0, <1>6 DEF OpenState, os
  <2>2. sockStates'[s] /\ link[s] \in Conn /\ link'[s] = link[s] /\ at'[w] = "firstRecv"
    BY <1>2, <1>3, <2>1, HandSays
  <2>3. HandPhase(s, w)'
    BY <2>1, <2>2 DEF HandPhase, Open
  <2>4. Works(s) /\ Where(s, {}, {w})'
    BY <1>0, <1>1, <1>2, <2>1, <2>3, GoesOnPlaces
  <2>5. Known(s)
    BY <1>2, <2>1 DEF Known, Where
  <2>6. Silent(s)
    BY <2>1, <2>2, <2>4, <2>5, OpenSilent
  <2> QED
    BY <1>4, <2>4, <2>6 DEF Transition
<1>7. CASE OnRecvTCP(w)
  <2>1. /\ at[w] = "data" /\ at' = [at EXCEPT ![w] = "postRecv"] /\ arg' = arg
        /\ UNCHANGED <<pool, op, done, link, sockStates>>
        /\ from' = [from EXCEPT ![w] = NoConn]
    BY <1>7 DEF OnRecvTCP, os
  <2>2. Open(s) /\ Open(s)' /\ at'[w] = "postRecv" /\ from[w] = link[s] /\ link'[s] = link[s]
    BY <1>2, <1>3, <2>1, HandSays DEF Open
  <2>3. HandPhase(s, w)'
    BY <2>1, <2>2 DEF HandPhase
  <2>4. \A v \in Worker \ {w} : from'[v] = from[v]
    BY <1>3, <2>1
  <2>5. Works(s) /\ Where(s, {}, {w})'
    BY <1>0, <1>1, <1>2, <2>1, <2>3, <2>4, SameState, GoesOnPlaces
  <2>6. ~Fresh(s)'
    BY <2>2, <2>5 DEF Fresh, Shut, Open, Where
  <2>7. PICK m : m = [type |-> "TCP", socket |-> s, conn |-> from[w]]
    OBVIOUS
  <2>8. /\ queue' = Append(queue, m) /\ m \in Message
        /\ m.socket = s /\ m.type = "TCP" /\ m.conn = link[s]
    BY <1>0, <1>2, <1>7, <2>2, <2>7, MessageTypes DEF OnRecvTCP, Post, Open
  <2>9. Tells(s, m)
    BY <2>2, <2>6, <2>8 DEF Tells, Known
  <2> QED
    BY <1>4, <2>5, <2>9 DEF Transition
<1>8. ASSUME Open(s), NEW place \in {"close", "returned", "transmit"},
             at' = [at EXCEPT ![w] = place], arg' = arg,
             UNCHANGED <<pool, op, done, link, sockStates, from, queue>>
      PROVE  Works(s) /\ Transition(s)
  <2>1. Open(s)' /\ at'[w] = place /\ link'[s] = link[s]
    BY <1>3, <1>8 DEF Open
  <2>2. HandPhase(s, w)'
    BY <1>8, <2>1 DEF HandPhase
  <2>3. Works(s) /\ Where(s, {}, {w})'
    BY <1>0, <1>1, <1>2, <1>8, <2>2, SameState, GoesOnPlaces
  <2>4. Silent(s)
    BY <1>8, <2>1, <2>3, OpenSilent DEF Known, Open
  <2> QED
    BY <1>4, <2>3, <2>4 DEF Transition
<1>9. CASE CloseReturned(w)
  BY <1>9, <1>2, HandSays, <1>8 DEF CloseReturned, os
<1>10. CASE at[w] = "postRecv" /\ PostRecv(w) /\ op' = op
  <2>1. Open(s)
    BY <1>2, <1>10, HandSays
  <2>2. CASE at' = [at EXCEPT ![w] = "returned"] /\ arg' = arg
    BY <1>10, <1>8, <2>1, <2>2 DEF PostRecv, os
  <2>3. CASE op' = BagAdd(op, RecvOp(s))
    <3>1. NoOp(s) /\ RecvOp(s).socket = s
      BY <1>0, <1>1, WorkerHas, Kinds
    <3>2. Of(op', s) = {RecvOp(s)}
      BY <2>3, <3>1, AddOf DEF NoOp
    <3> QED
      BY <1>10, <3>1, <3>2 DEF NoOp
  <2> QED
    BY <1>0, <1>10, <2>2, <2>3 DEF PostRecv
<1>11. CASE CheckState(w) /\ sockStates[s]
  BY <1>0, <1>11, <1>2, HandSays, <1>8 DEF CheckState, os, Shut
<1> QED
  BY <1>0, <1>5, <1>6, <1>7, <1>9, <1>10, <1>11

LEMMA GivesPlaces ==
    ASSUME Inv, Calm, PlacesInv, NEW w \in Worker,
           \/ FirstRecv(w) \/ FirstRecvFails(w) \/ PoolSocket(w)
           \/ PostRecv(w) /\ op' # op
           \/ CheckState(w) /\ ~sockStates[arg[w]]
           \/ Transmit(w)
    PROVE  \E s \in Socket : Works(s) /\ Transition(s)
<1> USE DEF Step, Leave, Return, WithSocket
<1>0. PICK s : s = arg[w]
  OBVIOUS
<1>1. at[w] \in WithSocket
  BY DEF FirstRecv, FirstRecvFails, PoolSocket, PostRecv, CheckState, Transmit
<1>2. s \in Socket /\ HandPhase(s, w) /\ Where(s, {}, {w})
  BY <1>0, <1>1, WorkerHas DEF Where, NotDone
<1>3. /\ w \in Thread /\ from \in [Worker -> Conn \cup {NoConn}]
      /\ sockStates \in [Socket -> BOOLEAN] /\ link \in [Socket -> Conn \cup {NoConn}]
  BY DEF Inv, ThreadsInv, Thread, PlacesInv, SocketTypes
<1>4. w # Logic
  BY ThreadAssumption DEF Logic
<1> UNCHANGED <<players, current>>
  BY DEF FirstRecv, FirstRecvFails, PoolSocket, PostRecv, CheckState, Transmit, logic
<1> SUFFICES Works(s) /\ Transition(s)
  BY <1>2
<1>5. CASE FirstRecv(w)
  <2>1. /\ at[w] = "firstRecv" /\ at' = [at EXCEPT ![w] = "postAccept"]
        /\ op' = BagAdd(op, RecvOp(s)) /\ from' = [from EXCEPT ![w] = NoConn]
        /\ UNCHANGED <<pool, done, link, sockStates, queue>>
    BY <1>0, <1>5 DEF FirstRecv, os
  <2>2. arg' = [arg EXCEPT ![w] = NoSocket]
    BY <1>5 DEF Calm, FirstRecv, May
  <2>3. Open(s) /\ OpPhase(s, RecvOp(s))'
    BY <1>2, <2>1, HandSays DEF OpPhase, Open
  <2>4. \E x : x.socket = s /\ op' = BagAdd(op, x) /\ OpPhase(s, x)'
    BY <2>1, <2>3, Kinds
  <2>5. \A v \in Worker \ {w} : from'[v] = from[v]
    BY <1>3, <2>1
  <2>6. sockStates[s] \in BOOLEAN /\ sockStates' = [sockStates EXCEPT ![s] = sockStates[s]]
    BY <1>2, <2>1, SameState
  <2>7. Works(s) /\ Where(s, {}, {})'
    BY <1>0, <1>1, <1>2, <2>1, <2>2, <2>4, <2>5, <2>6, LeavesPlaces
  <2>8. Silent(s)
    BY <2>1, <2>3, <2>7, OpenSilent DEF Known, Open
  <2> QED
    BY <2>7, <2>8 DEF Transition
<1>6. CASE FirstRecvFails(w)
  <2>1. /\ at[w] = "firstRecv" /\ at' = [at EXCEPT ![w] = "postAccept"] /\ arg' = [arg EXCEPT ![w] = NoSocket]
        /\ from' = [from EXCEPT ![w] = NoConn]
        /\ UNCHANGED <<pool, op, done, link, sockStates, queue>>
    BY <1>6 DEF FirstRecvFails, os
  <2>2. \A v \in Worker \ {w} : from'[v] = from[v]
    BY <1>3, <2>1
  <2>3. sockStates[s] \in BOOLEAN /\ sockStates' = [sockStates EXCEPT ![s] = sockStates[s]]
    BY <1>2, <2>1, SameState
  <2>4. Works(s) /\ Where(s, {}, {})'
    BY <1>0, <1>1, <1>2, <2>1, <2>2, <2>3, LeavesPlaces
  <2>5. Open(s)
    BY <1>2, <2>1, HandSays
  <2>6. Silent(s)
    BY <2>1, <2>4, <2>5, OpenSilent DEF Known, Open
  <2> QED
    BY <2>4, <2>6 DEF Transition
<1>7. CASE PoolSocket(w)
  <2>1. /\ at[w] = "pool" /\ at' = [at EXCEPT ![w] = "idle"] /\ arg' = [arg EXCEPT ![w] = NoSocket]
        /\ pool' = Append(pool, s)
        /\ UNCHANGED <<op, done, link, sockStates, from, queue>>
    BY <1>0, <1>7 DEF PoolSocket, os
  <2>2. Shut(s) /\ Shut(s)'
    BY <1>2, <2>1, HandSays DEF Shut
  <2>3. sockStates[s] \in BOOLEAN /\ sockStates' = [sockStates EXCEPT ![s] = sockStates[s]]
    BY <1>2, <2>1, SameState
  <2>4. Works(s) /\ Where(s, {}, {})'
    BY <1>0, <1>1, <1>2, <2>1, <2>2, <2>3, LeavesPlaces
  <2>5. Fresh(s)
    BY <1>2, <2>2 DEF Fresh, Where
  <2>6. Silent(s)
    BY <2>1, <2>2, <2>4, <2>5, ShutSilent DEF Shut
  <2> QED
    BY <2>4, <2>6 DEF Transition
<1>8. CASE PostRecv(w) /\ op' # op
  <2>1. /\ at[w] = "postRecv" /\ at' = [at EXCEPT ![w] = "idle"] /\ arg' = [arg EXCEPT ![w] = NoSocket]
        /\ op' = BagAdd(op, RecvOp(s))
        /\ UNCHANGED <<pool, done, link, sockStates, from, queue>>
    BY <1>0, <1>8 DEF PostRecv, os
  <2>2. Open(s) /\ OpPhase(s, RecvOp(s))'
    BY <1>2, <2>1, HandSays DEF OpPhase, Open
  <2>3. \E x : x.socket = s /\ op' = BagAdd(op, x) /\ OpPhase(s, x)'
    BY <2>1, <2>2, Kinds
  <2>4. sockStates[s] \in BOOLEAN /\ sockStates' = [sockStates EXCEPT ![s] = sockStates[s]]
    BY <1>2, <2>1, SameState
  <2>5. Works(s) /\ Where(s, {}, {})'
    BY <1>0, <1>1, <1>2, <2>1, <2>3, <2>4, LeavesPlaces
  <2>6. Silent(s)
    BY <2>1, <2>2, <2>5, OpenSilent DEF Known, Open
  <2> QED
    BY <2>5, <2>6 DEF Transition
<1>9. CASE CheckState(w) /\ ~sockStates[s]
  <2>1. /\ at' = [at EXCEPT ![w] = "idle"] /\ arg' = [arg EXCEPT ![w] = NoSocket]
        /\ UNCHANGED <<pool, op, done, link, sockStates, from>>
    BY <1>0, <1>4, <1>9 DEF CheckState, os
  <2>2. sockStates[s] \in BOOLEAN /\ sockStates' = [sockStates EXCEPT ![s] = sockStates[s]]
    BY <1>2, <2>1, SameState
  <2>3. Works(s) /\ Where(s, {}, {})'
    BY <1>0, <1>1, <1>2, <2>1, <2>2, LeavesPlaces
  <2>4. ~Known(s)'
    BY <1>9, <2>1, <2>3 DEF Known, Open, Where
  <2>5. PICK m : m = [type |-> "CLOSE", socket |-> s]
    OBVIOUS
  <2>6. queue' = Append(queue, m) /\ m \in Message /\ m.socket = s /\ m.type = "CLOSE"
    BY <1>0, <1>2, <1>9, <2>5, MessageTypes DEF CheckState, OnClose, Post
  <2>7. Tells(s, m)
    BY <2>4, <2>6 DEF Tells
  <2> QED
    BY <2>3, <2>7 DEF Transition
<1>10. CASE Transmit(w)
  <2>1. ~May("CloseError")
    BY DEF Calm, May
  <2>2. /\ at[w] = "transmit" /\ at' = [at EXCEPT ![w] = "idle"] /\ arg' = [arg EXCEPT ![w] = NoSocket]
        /\ op' = BagAdd(op, CloseOp(s))
        /\ sockStates' = [sockStates EXCEPT ![s] = FALSE]
        /\ UNCHANGED <<pool, done, link, from, queue>>
    BY <1>0, <1>4, <1>10, <2>1 DEF Transmit, os
  <2>3. ~sockStates'[s] /\ link'[s] \in Conn /\ OpPhase(s, CloseOp(s))'
    BY <1>2, <1>3, <2>2, HandSays DEF OpPhase, Open
  <2>4. \E x : x.socket = s /\ op' = BagAdd(op, x) /\ OpPhase(s, x)'
    BY <2>2, <2>3, Kinds
  <2>5. Works(s) /\ Where(s, {}, {})'
    BY <1>0, <1>1, <1>2, <2>2, <2>4, LeavesPlaces
  <2>6. ~Known(s)' /\ ~Fresh(s)'
    BY <2>3, <2>5, NullAssumption DEF Known, Fresh, Open, Shut, Where
  <2> QED
    BY <2>2, <2>5, <2>6 DEF Transition, Silent
<1> QED
  BY <1>0, <1>5, <1>6, <1>7, <1>8, <1>9, <1>10

\* The next accept takes the first socket of the pool, which is nowhere else; if it fails the
\* worker goes on to close that socket.
LEMMA PostAcceptPlaces ==
    ASSUME Inv, PlacesInv, NEW w \in Worker, PostAccept(w)
    PROVE  \E s \in Socket : Works(s) /\ Transition(s)
<1>1. PICK s : s = Head(pool)
  OBVIOUS
<1>2. /\ at[w] = "postAccept"
      /\ pool # << >> /\ pool' = Tail(pool)
      /\ UNCHANGED <<done, link, sockStates, from, queue>>
  BY <1>1 DEF PostAccept, os
<1>3. pool \in Seq(Socket)
  BY DEF PlacesInv, SocketTypes
<1>4. /\ pool' \in Seq(Socket) /\ s \in Socket
      /\ Places(pool, s) # {}
      /\ (\E i : Places(pool, s) = {i}) => Places(pool', s) = {}
      /\ \A u : u # s => /\ Places(pool, u) = {} => Places(pool', u) = {}
                         /\ (\E i : Places(pool, u) = {i}) => \E i : Places(pool', u) = {i}
  BY <1>1, <1>2, <1>3, PoolTail
<1>5. InPool(s)
  BY <1>4, PooledPhase DEF PlacesInv
<1>6. NotPooled(s)'
  BY <1>4, <1>5 DEF InPool, PooledOnce, NotPooled
<1>7. \A u \in Socket \ {s} : (NotPooled(u) => NotPooled(u)') /\ (PooledOnce(u) => PooledOnce(u)')
  BY <1>4 DEF PooledOnce, NotPooled
<1>8. Hands(s) \subseteq {w} /\ NotDone(s) /\ NoOp(s) /\ Shut(s)
  BY <1>5 DEF InPool, NoHand
<1>9. sockStates[s] \in BOOLEAN /\ sockStates' = [sockStates EXCEPT ![s] = sockStates[s]]
  BY <1>2, <1>4, SameState
<1>10. Fresh(s) /\ ~sockStates'[s]
  BY <1>2, <1>8 DEF Fresh, Shut, NotDone
<1>11. CASE op' = BagAdd(op, AcceptOp(s)) /\ Leave(w, "idle")
  <2>1. at' = [at EXCEPT ![w] = "idle"] /\ arg' = [arg EXCEPT ![w] = NoSocket]
    BY <1>11 DEF Leave, Step
  <2>2. OpPhase(s, AcceptOp(s))'
    BY <1>2, <1>8 DEF OpPhase, Shut
  <2>3. OneOp(s)' /\ \A u \in Socket \ {s} : Of(op', u) = Of(op, u) /\ \A y \in Of(op, u) : op'[y] = op[y]
    BY <1>8, <1>11, <2>2, StartsOp, Kinds
  <2>4. Moves(w, s, "idle", NoSocket)
    BY <1>2, <2>1, IdleHasNone DEF Moves
  <2>5. Works(s) /\ Where(s, {}, {})'
    BY <1>2, <1>4, <1>6, <1>7, <1>8, <1>9, <2>3, <2>4, GivesSocket
  <2> QED
    BY <1>2, <1>4, <1>10, <2>5, ShutSilent DEF Transition, PostAccept, logic
<1>12. CASE op' = op /\ Step(w, "close") /\ arg' = [arg EXCEPT ![w] = s]
  <2>1. at' = [at EXCEPT ![w] = "close"]
    BY <1>12 DEF Step
  <2>2. Moves(w, s, "close", s)
    BY <1>2, <1>12, <2>1, IdleHasNone DEF Moves
  <2>3. at'[w] = "close" /\ Hands(s)' = {w}
    BY <1>4, <1>8, <2>2, MovesElsewhere, MovesHands
  <2>4. HandPhase(s, w)'
    BY <1>2, <1>8, <2>3 DEF HandPhase, Shut
  <2>5. NoOp(s)' /\ NotDone(s)'
    BY <1>2, <1>8, <1>12 DEF NoOp, NotDone
  <2>6. Phase(s)'
    BY <1>6, <2>3, <2>4, <2>5 DEF Phase, Held, OneHand
  <2>7. ASSUME NEW u \in Socket \ {s}
        PROVE  Untouched(u)
    BY <1>2, <1>4, <1>7, <1>12, <2>2, MovesElsewhere DEF Untouched
  <2>8. SocketTypes' /\ LogicIdle'
    BY <1>2, <1>4, <2>2, MovesElsewhere DEF PlacesInv, SocketTypes
  <2>9. Works(s) /\ Where(s, {}, {w})'
    BY <1>4, <2>3, <2>5, <2>6, <2>7, <2>8, StepsOnOne DEF Elsewhere, Where, NotDone
  <2> QED
    BY <1>2, <1>4, <1>10, <2>3, <2>9, ShutSilent DEF Transition, PostAccept, logic
<1> QED
  BY <1>1, <1>11, <1>12 DEF PostAccept

\* The logic thread closes nothing, and no close of a worker fails.
LEMMA CloserIsWorker ==
    ASSUME Inv, Calm, PlacesInv, NEW t \in Thread, PostClose(t)
    PROVE  t \in Worker /\ (CheckState(t) \/ Transmit(t))
  BY WorkerHas, HandSays DEF PostClose, CheckState, Transmit, PoolFailed, NoteClose, PlacesInv, LogicIdle, Thread,
    WithSocket

LEMMA NextPlaces ==
    ASSUME Inv, Calm, PlacesInv, [Next]_vars
    PROVE  /\ PlacesInv'
           /\ \/ \E s \in Socket : Works(s) /\ Transition(s)
              \/ GameLogicThread \/ UNCHANGED vars
<1> DEFINE Good == \E s \in Socket : Works(s) /\ Transition(s)
<1>1. ASSUME UNCHANGED vars
      PROVE  PlacesInv'
  BY <1>1, AllStay DEF vars, os, threads
<1>2. ASSUME NEW w \in Worker, Handle(w)
      PROVE  Good
  BY TakesPlaces, GoesPlaces, GivesPlaces, PostAcceptPlaces, <1>2 DEF PostRecv, Handle
<1>3. ASSUME NEW t \in Thread, PostClose(t)
      PROVE  Good
  BY <1>3, CloserIsWorker, GoesPlaces, GivesPlaces
<1>4. Good => PlacesInv'
  BY DEF Works
<1> HIDE DEF Good
<1>5. CASE System
  BY <1>4, <1>5, SystemPlaces DEF Good
<1>6. CASE GameLogicThread
  BY <1>6, LogicPlaces
<1>7. CASE UNCHANGED vars
  BY <1>1, <1>7
<1>8. CASE Good
  BY <1>4, <1>8 DEF Good
<1> QED
  BY <1>2, <1>3, <1>5, <1>6, <1>7, <1>8 DEF Next

LEMMA InitPlaces == Init => PlacesInv
<1> SUFFICES ASSUME Init
             PROVE  PlacesInv
  OBVIOUS
<1>0. PICK m \in Machines :
        /\ \E s \in m.sockets : op = SetToBag({AcceptOp(s)}) /\ pool = SetToSeq(m.sockets \ {s})
        /\ at = [t \in Thread |-> IF t = Logic THEN "drain"
                                  ELSE IF t \in m.workers THEN "idle" ELSE "unused"]
  BY DEF Init
<1>1. PICK s \in m.sockets :
        /\ op = SetToBag({AcceptOp(s)})
        /\ pool = SetToSeq(m.sockets \ {s})
        /\ at = [t \in Thread |-> IF t = Logic THEN "drain"
                                  ELSE IF t \in m.workers THEN "idle" ELSE "unused"]
  BY <1>0
<1>2. /\ sockStates = [u \in Socket |-> FALSE]
      /\ link = [u \in Socket |-> NoConn]
      /\ done = EmptyBag
      /\ arg = [t \in Thread |-> NoSocket]
  BY DEF Init
<1>3. s \in Socket /\ m.sockets \subseteq Socket /\ IsFiniteSet(m.sockets \ {s})
  BY MachineAssumption, FS_Subset, <1>1
<1>4. pool \in Seq(m.sockets \ {s}) /\ IsInjective(pool)
  BY <1>1, <1>3, SetToSeqOnce
<1>5. pool \in Seq(Socket) /\ s \notin {pool[i] : i \in DOMAIN pool}
  BY <1>4, LenProperties, ElementOfSeq, <1>3
<1>6. DOMAIN op = {AcceptOp(s)} /\ op[AcceptOp(s)] = 1 /\ DOMAIN done = {}
  BY <1>1, <1>2 DEF SetToBag, EmptyBag
<1>7. LogicIdle
  BY <1>1, <1>2 DEF LogicIdle, Thread
<1>8. SocketTypes
  BY <1>2, <1>5 DEF SocketTypes
<1>9. ASSUME NEW u \in Socket
      PROVE  Phase(u)
  <2>1. Shut(u) /\ NotDone(u)
    BY <1>2, <1>6 DEF Shut, NotDone, Of
  <2>2. NoHand(u)
    BY <1>2, NullAssumption DEF NoHand, Hands, Thread
  <2>3. NotPooled(u) \/ PooledOnce(u)
    BY <1>4 DEF NotPooled, PooledOnce, Places, IsInjective
  <2>4. CASE u = s
    BY <1>5, <2>4, <1>6, <2>1, Kinds, <2>2 DEF NotPooled, Places, Of, OpPhase, OneOp, Phase, Outstanding
  <2>5. CASE u # s
    BY <1>6, <2>5, Kinds, <2>1, <2>2, <2>3 DEF NoOp, Of, Phase, Lost, InPool
  <2> QED
    BY <2>4, <2>5
<1> QED
  BY <1>7, <1>8, <1>9 DEF PlacesInv

LEMMA PlacesHold == Spec => [](Calm => PlacesInv)
<1>1. Init => (Calm => PlacesInv)
  BY InitPlaces
<1>2. Inv /\ (Calm => PlacesInv) /\ [Next]_vars => (Calm => PlacesInv)'
  BY NextPlaces, MayConstant DEF Calm
<1> QED
  BY <1>1, <1>2, InvHolds, PTL DEF Spec

\* The server goes on accepting, for any number of workers and sockets, or says that it does not:
\* a client that gives up while it is accepted is the only thing that can end it in silence, and
\* as long as AcceptEx fails for no other reason and the pool is clean, it does not end at all.
THEOREM AlwaysAcceptingCorrect == Spec => []AlwaysAccepting
<1> DEFINE Goes1 == "AcceptError" \notin may => AcceptInv \/ ~isRun
           Goes2 == Calm /\ "PostAcceptError" \notin may => isRun
           IInv == Goes1 /\ Goes2
<1>1. Init => IInv
  BY InitAccepts DEF AcceptInv, Init
<1>2. Inv /\ Goes1 /\ [Next]_vars => Goes1'
  <2> SUFFICES ASSUME Inv, Goes1, [Next]_vars, "AcceptError" \notin may, isRun'
               PROVE  AcceptInv'
    BY MayConstant
  <2> QED
    BY RunStops, NextAccepts
<1>3. Inv /\ (Calm => PlacesInv) /\ Goes2 /\ [Next]_vars => Goes2'
  <2> SUFFICES ASSUME Inv, PlacesInv, [Next]_vars, Calm, "PostAcceptError" \notin may, isRun
               PROVE  isRun'
    BY MayConstant DEF Calm
  <2>1. ASSUME pool # << >>
        PROVE  link[Head(pool)] = NoConn
    <3>1. pool \in Seq(Socket)
      BY DEF PlacesInv, SocketTypes
    <3>2. Head(pool) \in Socket /\ Places(pool, Head(pool)) # {}
      BY <2>1, <3>1, PoolTail
    <3> QED
      BY <3>2, PooledPhase DEF PlacesInv, InPool, Shut
  <2> QED
    BY <2>1, RunStops DEF May
<1>4. IInv => AlwaysAccepting
  BY AcceptInvCounts DEF AlwaysAccepting, Calm
<1> HIDE DEF Goes1, Goes2
<1> QED
  BY <1>1, <1>2, <1>3, <1>4, InvHolds, PlacesHold, PTL DEF Spec, IInv

\* The pool holds only sockets that can be accepted on: the state is reset, the connection is
\* gone, and no worker, operation or completion still has the socket.
THEOREM PoolIsCleanCorrect == Spec => []PoolIsClean
<1>1. Inv /\ (Calm => PlacesInv) => PoolIsClean
  <2> SUFFICES ASSUME Inv, Calm, PlacesInv
               PROVE  PoolIsClean
    BY DEF PoolIsClean, Calm
  <2>1. ASSUME NEW i \in DOMAIN pool
        PROVE  pool[i] \in Socket /\ InPool(pool[i])
    BY LenProperties, ElementOfSeq, PooledPhase DEF PlacesInv, SocketTypes, Places
  <2>2. IsInjective(pool)
    <3> SUFFICES ASSUME NEW i \in DOMAIN pool, NEW j \in DOMAIN pool, pool[i] = pool[j]
                 PROVE  i = j
      BY DEF IsInjective
    <3>1. i \in Places(pool, pool[i]) /\ j \in Places(pool, pool[i])
      BY DEF Places
    <3> QED
      BY <2>1, <3>1 DEF InPool, PooledOnce
  <2>3. ASSUME NEW i \in DOMAIN pool
        PROVE  /\ ~sockStates[pool[i]] /\ link[pool[i]] = NoConn
               /\ \A x \in DOMAIN op \cup DOMAIN done : x.socket # pool[i]
               /\ \A w \in Worker : arg[w] # pool[i]
    BY <2>1, <2>3 DEF InPool, Shut, NoOp, NotDone, NoHand, Of, Hands
  <2> QED
    BY <2>2, <2>3 DEF PoolIsClean
<1> QED
  BY <1>1, InvHolds, PlacesHold, PTL

(***************************************************************************)
(* What the logic thread will know of a socket when it reaches a message.  *)
(* q is the queue from the next message on, ps the players there are now.  *)
(***************************************************************************)
IsAccept(m, s) == m.type = "ACCEPT" /\ m.socket = s
OnlyData(q, s, j, k) == \A i \in j .. k : q[i].socket = s => q[i].type = "TCP"
NoAccept(q, s, j, k) == \A i \in j .. k : ~IsAccept(q[i], s)

\* After k messages the player of connection c is the one that has socket s.
Knows(q, ps, s, c, k) ==
    \/ \E j \in 1 .. k : IsAccept(q[j], s) /\ q[j].conn = c /\ OnlyData(q, s, j + 1, k)
    \/ OnlyData(q, s, 1, k) /\ \E p \in DOMAIN ps : ps[p].socket = s /\ ps[p].conn = c

\* After k messages no player has socket s.
Forgot(q, ps, s, k) ==
    \/ \E j \in 1 .. k : q[j].type = "CLOSE" /\ q[j].socket = s /\ NoAccept(q, s, j + 1, k)
    \/ NoAccept(q, s, 1, k) /\ \A p \in DOMAIN ps : ps[p].socket # s

\* Every ACCEPT finds its socket unknown, and all bytes find their player.
InOrder(q, ps) ==
    \A k \in DOMAIN q :
        /\ q[k].type = "TCP" => Knows(q, ps, q[k].socket, q[k].conn, k - 1)
        /\ q[k].type = "ACCEPT" => Forgot(q, ps, q[k].socket, k - 1)

OnePlayer(ps) == \A i, j \in DOMAIN ps : ps[i].socket = ps[j].socket => i = j

\* Messages after the first k do not matter.
LEMMA PrefixKnows ==
    ASSUME NEW q, NEW r, NEW ps, NEW k \in Nat, \A i \in 1 .. k : r[i] = q[i], NEW s, NEW c
    PROVE  /\ Knows(q, ps, s, c, k) => Knows(r, ps, s, c, k)
           /\ Forgot(q, ps, s, k) => Forgot(r, ps, s, k)
<1>1. ASSUME NEW j \in 1 .. k, IsAccept(q[j], s), q[j].conn = c, OnlyData(q, s, j + 1, k)
      PROVE  IsAccept(r[j], s) /\ r[j].conn = c /\ OnlyData(r, s, j + 1, k)
  BY <1>1 DEF OnlyData
<1>2. OnlyData(q, s, 1, k) => OnlyData(r, s, 1, k)
  BY DEF OnlyData
<1>3. Knows(q, ps, s, c, k) => Knows(r, ps, s, c, k)
  BY <1>1, <1>2 DEF Knows
<1>4. ASSUME NEW j \in 1 .. k, q[j].type = "CLOSE", q[j].socket = s, NoAccept(q, s, j + 1, k)
      PROVE  r[j].type = "CLOSE" /\ r[j].socket = s /\ NoAccept(r, s, j + 1, k)
  BY <1>4 DEF NoAccept
<1>5. NoAccept(q, s, 1, k) => NoAccept(r, s, 1, k)
  BY DEF NoAccept
<1>6. Forgot(q, ps, s, k) => Forgot(r, ps, s, k)
  BY <1>4, <1>5 DEF Forgot
<1> QED
  BY <1>3, <1>6

\* A message more.
LEMMA OneMore ==
    ASSUME NEW q, NEW ps, NEW k \in Nat, NEW s, NEW c
    PROVE  /\ (q[k + 1].socket = s => q[k + 1].type = "TCP") =>
                (Knows(q, ps, s, c, k) => Knows(q, ps, s, c, k + 1))
           /\ ~IsAccept(q[k + 1], s) => (Forgot(q, ps, s, k) => Forgot(q, ps, s, k + 1))
           /\ IsAccept(q[k + 1], s) /\ q[k + 1].conn = c => Knows(q, ps, s, c, k + 1)
           /\ q[k + 1].type = "CLOSE" /\ q[k + 1].socket = s => Forgot(q, ps, s, k + 1)
<1>1. \A j \in 1 .. k + 1 : \A i \in j .. k + 1 : i = k + 1 \/ i \in j .. k
  OBVIOUS
<1>2. ASSUME q[k + 1].socket = s => q[k + 1].type = "TCP", NEW j \in 1 .. k + 1, OnlyData(q, s, j, k)
      PROVE  OnlyData(q, s, j, k + 1)
  BY <1>1, <1>2 DEF OnlyData
<1>3. ASSUME ~IsAccept(q[k + 1], s), NEW j \in 1 .. k + 1, NoAccept(q, s, j, k)
      PROVE  NoAccept(q, s, j, k + 1)
  BY <1>1, <1>3 DEF NoAccept
<1>4. \A j \in 1 .. k : j \in 1 .. k + 1 /\ j + 1 \in 1 .. k + 1
  OBVIOUS
<1>5. 1 \in 1 .. k + 1 /\ k + 1 \in 1 .. k + 1 /\ k + 2 .. k + 1 = {}
  OBVIOUS
<1>6. ASSUME q[k + 1].socket = s => q[k + 1].type = "TCP", Knows(q, ps, s, c, k)
      PROVE  Knows(q, ps, s, c, k + 1)
  <2>1. CASE OnlyData(q, s, 1, k) /\ \E p \in DOMAIN ps : ps[p].socket = s /\ ps[p].conn = c
    BY <1>2, <1>5, <1>6, <2>1 DEF Knows
  <2>2. ASSUME NEW j \in 1 .. k, IsAccept(q[j], s), q[j].conn = c, OnlyData(q, s, j + 1, k)
        PROVE  Knows(q, ps, s, c, k + 1)
    BY <1>2, <1>4, <1>6, <2>2 DEF Knows
  <2> QED
    BY <1>6, <2>1, <2>2 DEF Knows
<1>7. ASSUME ~IsAccept(q[k + 1], s), Forgot(q, ps, s, k)
      PROVE  Forgot(q, ps, s, k + 1)
  <2>1. CASE NoAccept(q, s, 1, k) /\ \A p \in DOMAIN ps : ps[p].socket # s
    BY <1>3, <1>5, <1>7, <2>1 DEF Forgot
  <2>2. ASSUME NEW j \in 1 .. k, q[j].type = "CLOSE", q[j].socket = s, NoAccept(q, s, j + 1, k)
        PROVE  Forgot(q, ps, s, k + 1)
    BY <1>3, <1>4, <1>7, <2>2 DEF Forgot
  <2> QED
    BY <1>7, <2>1, <2>2 DEF Forgot
<1>8. ASSUME IsAccept(q[k + 1], s), q[k + 1].conn = c
      PROVE  Knows(q, ps, s, c, k + 1)
  BY <1>5, <1>8 DEF OnlyData, Knows
<1>9. ASSUME q[k + 1].type = "CLOSE", q[k + 1].socket = s
      PROVE  Forgot(q, ps, s, k + 1)
  BY <1>5, <1>9 DEF NoAccept, Forgot
<1> QED
  BY <1>6, <1>7, <1>8, <1>9

\* A message is appended that the logic thread will be ready for.
LEMMA AppendInOrder ==
    ASSUME NEW q \in Seq(Message), NEW ps, NEW m \in Message, InOrder(q, ps),
           m.type = "TCP" => Knows(q, ps, m.socket, m.conn, Len(q)),
           m.type = "ACCEPT" => Forgot(q, ps, m.socket, Len(q))
    PROVE  /\ InOrder(Append(q, m), ps)
           /\ \A s, c : /\ Knows(q, ps, s, c, Len(q)) /\ (m.socket = s => m.type = "TCP")
                             => Knows(Append(q, m), ps, s, c, Len(q) + 1)
                        /\ IsAccept(m, s) /\ m.conn = c => Knows(Append(q, m), ps, s, c, Len(q) + 1)
           /\ \A s : /\ Forgot(q, ps, s, Len(q)) /\ ~IsAccept(m, s) => Forgot(Append(q, m), ps, s, Len(q) + 1)
                     /\ m.type = "CLOSE" /\ m.socket = s => Forgot(Append(q, m), ps, s, Len(q) + 1)
<1> DEFINE r == Append(q, m)
           n == Len(q)
<1>1. /\ r \in Seq(Message) /\ Len(r) = n + 1 /\ n \in Nat
      /\ \A i \in 1 .. n : r[i] = q[i]
      /\ r[n + 1] = m
  BY AppendProperties, LenProperties
<1>2. DOMAIN r = 1 .. n + 1 /\ DOMAIN q = 1 .. n
  BY <1>1, LenProperties
<1> HIDE DEF r
<1>3. \A s, c : Knows(q, ps, s, c, n) => Knows(r, ps, s, c, n)
  BY <1>1, PrefixKnows
<1>4. \A s : Forgot(q, ps, s, n) => Forgot(r, ps, s, n)
  BY <1>1, PrefixKnows
<1>5. ASSUME NEW k \in DOMAIN r
      PROVE  /\ r[k].type = "TCP" => Knows(r, ps, r[k].socket, r[k].conn, k - 1)
             /\ r[k].type = "ACCEPT" => Forgot(r, ps, r[k].socket, k - 1)
  <2>1. CASE k = n + 1
    BY <1>1, <2>1, <1>3, <1>4
  <2>2. CASE k # n + 1
    <3>1. k \in DOMAIN q /\ r[k] = q[k] /\ k - 1 \in Nat
      BY <1>1, <1>2, <2>2
    <3>2. \A i \in 1 .. k - 1 : r[i] = q[i]
      BY <1>1, <1>2, <3>1
    <3>3. /\ Knows(q, ps, q[k].socket, q[k].conn, k - 1) => Knows(r, ps, q[k].socket, q[k].conn, k - 1)
          /\ Forgot(q, ps, q[k].socket, k - 1) => Forgot(r, ps, q[k].socket, k - 1)
      BY <3>1, <3>2, PrefixKnows
    <3> QED
      BY <3>1, <3>3 DEF InOrder
  <2> QED
    BY <2>1, <2>2
<1>6. InOrder(r, ps)
  BY <1>5 DEF InOrder
<1>7. ASSUME NEW s, NEW c
      PROVE  /\ Knows(q, ps, s, c, n) /\ (m.socket = s => m.type = "TCP") => Knows(r, ps, s, c, n + 1)
             /\ IsAccept(m, s) /\ m.conn = c => Knows(r, ps, s, c, n + 1)
             /\ Forgot(q, ps, s, n) /\ ~IsAccept(m, s) => Forgot(r, ps, s, n + 1)
             /\ m.type = "CLOSE" /\ m.socket = s => Forgot(r, ps, s, n + 1)
  BY <1>1, OneMore, <1>3, <1>4
<1> QED
  BY <1>6, <1>7 DEF r

\* What taking message m does to the players.
HasPlayer(ps, s, c) == \E p \in DOMAIN ps : ps[p].socket = s /\ ps[p].conn = c
NoPlayer(ps, s) == \A p \in DOMAIN ps : ps[p].socket # s

Takes1(m, ps, ps2) ==
    /\ \A s : (m.socket # s \/ m.type = "TCP") =>
                /\ \A c : HasPlayer(ps, s, c) => HasPlayer(ps2, s, c)
                /\ NoPlayer(ps, s) => NoPlayer(ps2, s)
    /\ m.type = "ACCEPT" => HasPlayer(ps2, m.socket, m.conn)
    /\ m.type = "CLOSE" => NoPlayer(ps2, m.socket)

LEMMA PopInOrder ==
    ASSUME NEW q \in Seq(Message), q # << >>, NEW ps, NEW ps2, InOrder(q, ps), Takes1(Head(q), ps, ps2)
    PROVE  /\ InOrder(Tail(q), ps2)
           /\ \A s, c : Knows(q, ps, s, c, Len(q)) => Knows(Tail(q), ps2, s, c, Len(q) - 1)
           /\ \A s : Forgot(q, ps, s, Len(q)) => Forgot(Tail(q), ps2, s, Len(q) - 1)
<1> DEFINE r == Tail(q)
           n == Len(q)
<1>1. /\ n \in Nat \ {0} /\ Head(q) = q[1] /\ Head(q) \in Message
      /\ Len(r) = n - 1 /\ r \in Seq(Message)
      /\ \A i \in 1 .. n - 1 : r[i] = q[i + 1]
  BY HeadTailProperties, LenProperties, EmptySeq
<1>2. DOMAIN r = 1 .. n - 1 /\ DOMAIN q = 1 .. n
  BY <1>1, LenProperties
<1>3. PICK m \in Message : m = q[1]
  BY <1>1
<1>4. m.type \in {"ACCEPT", "TCP", "CLOSE"}
  BY DEF Message
<1>5. Takes1(m, ps, ps2)
  BY <1>1, <1>3
<1> HIDE DEF r, n
<1>6. ASSUME NEW k \in 1 .. n, NEW j \in 1 .. k, NEW s
      PROVE  /\ OnlyData(q, s, j + 1, k) => OnlyData(r, s, j, k - 1)
             /\ NoAccept(q, s, j + 1, k) => NoAccept(r, s, j, k - 1)
  <2>1. \A i \in j .. k - 1 : r[i] = q[i + 1] /\ i + 1 \in j + 1 .. k
    BY <1>1
  <2> QED
    BY <2>1 DEF OnlyData, NoAccept
<1>7. ASSUME NEW k \in 1 .. n, NEW s, NEW c, Knows(q, ps, s, c, k)
      PROVE  Knows(r, ps2, s, c, k - 1)
  <2>1. ASSUME NEW j \in 1 .. k, IsAccept(q[j], s), q[j].conn = c, OnlyData(q, s, j + 1, k)
        PROVE  Knows(r, ps2, s, c, k - 1)
    <3>1. OnlyData(r, s, j, k - 1)
      BY <1>6, <2>1
    <3>2. CASE j = 1
      BY <1>3, <2>1, <3>2, <1>5, <3>1 DEF IsAccept, Takes1, Knows, HasPlayer
    <3>3. CASE j # 1
      <4>1. j - 1 \in 1 .. k - 1 /\ r[j - 1] = q[j]
        BY <1>1, <3>3
      <4>2. (j - 1) + 1 = j
        OBVIOUS
      <4> QED
        BY <2>1, <3>1, <4>1, <4>2 DEF Knows
    <3> QED
      BY <3>2, <3>3
  <2>2. ASSUME OnlyData(q, s, 1, k), HasPlayer(ps, s, c)
        PROVE  Knows(r, ps2, s, c, k - 1)
    <3>1. m.socket # s \/ m.type = "TCP"
      BY <1>3, <2>2 DEF OnlyData
    <3>2. HasPlayer(ps2, s, c)
      BY <1>5, <2>2, <3>1 DEF Takes1
    <3>3. OnlyData(q, s, 1 + 1, k)
      BY <2>2 DEF OnlyData
    <3>4. OnlyData(r, s, 1, k - 1)
      BY <1>6, <3>3
    <3> QED
      BY <3>2, <3>4 DEF Knows, HasPlayer
  <2> QED
    BY <1>7, <2>1, <2>2 DEF Knows, HasPlayer
<1>8. ASSUME NEW k \in 1 .. n, NEW s, Forgot(q, ps, s, k)
      PROVE  Forgot(r, ps2, s, k - 1)
  <2>1. ASSUME NEW j \in 1 .. k, q[j].type = "CLOSE", q[j].socket = s, NoAccept(q, s, j + 1, k)
        PROVE  Forgot(r, ps2, s, k - 1)
    <3>1. NoAccept(r, s, j, k - 1)
      BY <1>6, <2>1
    <3>2. CASE j = 1
      BY <1>3, <1>5, <2>1, <3>2, <3>1 DEF Takes1, Forgot, NoPlayer
    <3>3. CASE j # 1
      <4>1. j - 1 \in 1 .. k - 1 /\ r[j - 1] = q[j]
        BY <1>1, <3>3
      <4>2. (j - 1) + 1 = j
        OBVIOUS
      <4> QED
        BY <2>1, <3>1, <4>1, <4>2 DEF Forgot
    <3> QED
      BY <3>2, <3>3
  <2>2. ASSUME NoAccept(q, s, 1, k), NoPlayer(ps, s)
        PROVE  Forgot(r, ps2, s, k - 1)
    <3>1. ~IsAccept(m, s)
      BY <1>3, <2>2 DEF NoAccept
    <3>2. NoPlayer(ps2, s)
      BY <1>4, <1>5, <2>2, <3>1 DEF Takes1, IsAccept
    <3>3. NoAccept(q, s, 1 + 1, k)
      BY <2>2 DEF NoAccept
    <3>4. NoAccept(r, s, 1, k - 1)
      BY <1>6, <3>3
    <3> QED
      BY <3>2, <3>4 DEF Forgot, NoPlayer
  <2> QED
    BY <1>8, <2>1, <2>2 DEF Forgot, NoPlayer
<1>9. ASSUME NEW k \in DOMAIN r
      PROVE  /\ r[k].type = "TCP" => Knows(r, ps2, r[k].socket, r[k].conn, k - 1)
             /\ r[k].type = "ACCEPT" => Forgot(r, ps2, r[k].socket, k - 1)
  <2>1. k + 1 \in DOMAIN q /\ r[k] = q[k + 1] /\ (k + 1) - 1 = k /\ k \in 1 .. n
    BY <1>1, <1>2
  <2>2. /\ q[k + 1].type = "TCP" => Knows(q, ps, q[k + 1].socket, q[k + 1].conn, k)
        /\ q[k + 1].type = "ACCEPT" => Forgot(q, ps, q[k + 1].socket, k)
    BY <2>1 DEF InOrder
  <2> QED
    BY <1>7, <1>8, <2>1, <2>2
<1>10. InOrder(r, ps2)
  BY <1>9 DEF InOrder
<1>11. n \in 1 .. n
  BY <1>1
<1> QED
  BY <1>7, <1>8, <1>10, <1>11 DEF r, n

\* The players after a player came, and after the player with socket s left.
LEMMA PlayerComes ==
    ASSUME NEW ps \in Seq(PlayerRec), NEW p \in PlayerRec
    PROVE  /\ \A s, c : HasPlayer(ps, s, c) => HasPlayer(Append(ps, p), s, c)
           /\ \A s : s # p.socket /\ NoPlayer(ps, s) => NoPlayer(Append(ps, p), s)
           /\ HasPlayer(Append(ps, p), p.socket, p.conn)
           /\ OnePlayer(ps) /\ NoPlayer(ps, p.socket) => OnePlayer(Append(ps, p))
           /\ \A s, c : HasPlayer(Append(ps, p), s, c) => HasPlayer(ps, s, c) \/ (s = p.socket /\ c = p.conn)
<1> DEFINE r == Append(ps, p)
<1>1. /\ Len(r) = Len(ps) + 1 /\ r \in Seq(PlayerRec) /\ Len(ps) \in Nat
      /\ \A i \in 1 .. Len(ps) : r[i] = ps[i]
      /\ r[Len(ps) + 1] = p
  BY AppendProperties, LenProperties
<1>2. DOMAIN r = 1 .. Len(ps) + 1 /\ DOMAIN ps = 1 .. Len(ps)
  BY <1>1, LenProperties
<1> HIDE DEF r
<1>3. \A i \in DOMAIN r : (i \in DOMAIN ps /\ r[i] = ps[i]) \/ (i = Len(ps) + 1 /\ r[i] = p)
  BY <1>1, <1>2
<1>4. \A i \in DOMAIN ps : i \in DOMAIN r /\ r[i] = ps[i]
  BY <1>1, <1>2
<1>5. \A s, c : HasPlayer(ps, s, c) => HasPlayer(r, s, c)
  BY <1>4 DEF HasPlayer
<1>6. \A s : s # p.socket /\ NoPlayer(ps, s) => NoPlayer(r, s)
  BY <1>3 DEF NoPlayer
<1>7. HasPlayer(r, p.socket, p.conn)
  BY <1>1, <1>2 DEF HasPlayer
<1>8. OnePlayer(ps) /\ NoPlayer(ps, p.socket) => OnePlayer(r)
  BY <1>3 DEF OnePlayer, NoPlayer
<1>9. \A s, c : HasPlayer(r, s, c) => HasPlayer(ps, s, c) \/ (s = p.socket /\ c = p.conn)
  BY <1>3 DEF HasPlayer
<1> QED
  BY <1>5, <1>6, <1>7, <1>8, <1>9 DEF r

LEMMA PlayerLeaves ==
    ASSUME NEW ps \in Seq(PlayerRec), NEW i \in DOMAIN ps, OnePlayer(ps)
    PROVE  /\ \A s, c : s # ps[i].socket /\ HasPlayer(ps, s, c) => HasPlayer(RemoveAt(ps, i), s, c)
           /\ \A s : NoPlayer(ps, s) => NoPlayer(RemoveAt(ps, i), s)
           /\ NoPlayer(RemoveAt(ps, i), ps[i].socket)
           /\ OnePlayer(RemoveAt(ps, i))
           /\ \A s, c : HasPlayer(RemoveAt(ps, i), s, c) => HasPlayer(ps, s, c)
<1> DEFINE n == Len(ps)
           before == SubSeq(ps, 1, i - 1)
           after == SubSeq(ps, i + 1, n)
           r == RemoveAt(ps, i)
<1>1. DOMAIN ps = 1 .. n /\ n \in Nat /\ i \in 1 .. n
  BY LenProperties
<1>2. /\ before \in Seq(PlayerRec) /\ Len(before) = i - 1
      /\ \A j \in 1 .. i - 1 : before[j] = ps[j]
  BY <1>1, SubSeqProperties
<1>3. /\ after \in Seq(PlayerRec) /\ Len(after) = n - i
      /\ \A j \in 1 .. n - i : after[j] = ps[i + j]
  <2>3. /\ i + 1 \in Int /\ n \in Int /\ \A j \in i + 1 .. n : ps[j] \in PlayerRec
        /\ n - (i + 1) + 1 = n - i /\ \A j \in 1 .. n - i : (i + 1) + j - 1 = i + j
    BY <1>1
  <2>4. /\ after \in Seq(PlayerRec) /\ Len(after) = (IF i + 1 <= n THEN n - (i + 1) + 1 ELSE 0)
        /\ \A j \in 1 .. n - (i + 1) + 1 : after[j] = ps[(i + 1) + j - 1]
    BY <2>3, SubSeqProperties
  <2> HIDE DEF after
  <2>1. CASE i = n
    BY <1>1, <2>1, <2>3, <2>4
  <2>2. CASE i < n
    BY <1>1, <2>2, <2>3, <2>4
  <2> QED
    BY <1>1, <2>1, <2>2
<1>4. r = before \o after
  BY DEF RemoveAt
<1> HIDE DEF before, after, r
<1>5. /\ r \in Seq(PlayerRec) /\ Len(r) = n - 1
      /\ \A j \in 1 .. n - 1 : r[j] = IF j <= i - 1 THEN before[j] ELSE after[j - (i - 1)]
  <2>1. /\ before \o after \in Seq(PlayerRec)
        /\ Len(before \o after) = Len(before) + Len(after)
        /\ \A j \in 1 .. Len(before) + Len(after) :
             (before \o after)[j] = IF j <= Len(before) THEN before[j] ELSE after[j - Len(before)]
    BY <1>2, <1>3, ConcatProperties
  <2>2. Len(before) + Len(after) = n - 1
    BY <1>1, <1>2, <1>3
  <2> QED
    BY <1>2, <1>4, <2>1, <2>2
<1>6. DOMAIN r = 1 .. n - 1
  BY <1>5, LenProperties
<1> DEFINE old(j) == IF j < i THEN j ELSE j + 1
           new(j) == IF j < i THEN j ELSE j - 1
<1>7. ASSUME NEW j \in DOMAIN r
      PROVE  old(j) \in DOMAIN ps /\ old(j) # i /\ r[j] = ps[old(j)]
  <2>1. CASE j < i
    BY <1>1, <1>2, <1>5, <1>6, <2>1
  <2>2. CASE ~(j < i)
    <3>1. j - (i - 1) \in 1 .. n - i /\ i + (j - (i - 1)) = j + 1
      BY <1>1, <1>6, <2>2
    <3>2. r[j] = after[j - (i - 1)]
      BY <1>5, <1>6, <1>1, <2>2
    <3>3. r[j] = ps[j + 1]
      BY <1>3, <3>1, <3>2
    <3> QED
      BY <1>1, <1>6, <2>2, <3>3
  <2> QED
    BY <2>1, <2>2
<1>8. ASSUME NEW j \in DOMAIN ps, j # i
      PROVE  new(j) \in DOMAIN r /\ old(new(j)) = j
  BY <1>1, <1>6, <1>8
<1>9. \A j, k \in DOMAIN r : old(j) = old(k) => j = k
  BY <1>1, <1>6
<1> HIDE DEF old, new
<1>10. ASSUME NEW s, NEW c, s # ps[i].socket, HasPlayer(ps, s, c)
       PROVE  HasPlayer(r, s, c)
  <2>1. PICK j \in DOMAIN ps : ps[j].socket = s /\ ps[j].conn = c
    BY <1>10 DEF HasPlayer
  <2>2. j # i
    BY <1>10, <2>1
  <2>3. new(j) \in DOMAIN r /\ r[new(j)] = ps[j]
    BY <1>7, <1>8, <2>2
  <2> QED
    BY <2>1, <2>3 DEF HasPlayer
<1>11. \A s : NoPlayer(ps, s) => NoPlayer(r, s)
  BY <1>7 DEF NoPlayer
<1>12. NoPlayer(r, ps[i].socket)
  BY <1>7 DEF NoPlayer, OnePlayer
<1>13. OnePlayer(r)
  BY <1>7, <1>9 DEF OnePlayer
<1>14. \A s, c : HasPlayer(r, s, c) => HasPlayer(ps, s, c)
  BY <1>7 DEF HasPlayer
<1> QED
  BY <1>10, <1>11, <1>12, <1>13, <1>14 DEF r

\* The connections that the sockets carry, as the logic thread will see them.
ToldOf(q, ps, s) ==
    /\ Known(s) => Knows(q, ps, s, link[s], Len(q))
    /\ Fresh(s) => Forgot(q, ps, s, Len(q))
Told(q, ps) == InOrder(q, ps) /\ OnePlayer(ps) /\ \A s \in Socket : ToldOf(q, ps, s)

ToldInv == Told(current \o queue, players)

\* A thread that is not the logic thread takes a step.
LEMMA TransitionTold ==
    ASSUME QueuesInv, ToldInv, NEW s \in Socket, Works(s), Transition(s)
    PROVE  ToldInv'
<1> DEFINE q == current \o queue
           n == Len(q)
<1>1. q \in Seq(Message) /\ n \in Nat
  BY ConcatProperties, LenProperties DEF QueuesInv
<1>2. /\ InOrder(q, players) /\ OnePlayer(players)
      /\ \A u \in Socket : /\ Known(u) => Knows(q, players, u, link[u], n)
                           /\ Fresh(u) => Forgot(q, players, u, n)
  BY DEF ToldInv, Told, ToldOf
<1>3. ASSUME NEW u \in Socket \ {s}
      PROVE  (Known(u)' => Known(u) /\ link'[u] = link[u]) /\ (Fresh(u)' => Fresh(u))
  BY <1>3, UntouchedSilent DEF Works, Elsewhere
<1>4. players' = players /\ current' = current
  BY DEF Transition
<1>5. CASE Silent(s)
  <2>1. (current \o queue)' = q
    BY <1>4, <1>5 DEF Silent
  <2>2. ASSUME NEW u \in Socket
        PROVE  (Known(u)' => Known(u) /\ link'[u] = link[u]) /\ (Fresh(u)' => Fresh(u))
    BY <1>3, <1>5 DEF Silent
  <2> HIDE DEF q
  <2>3. \A u \in Socket : /\ Known(u)' => Knows(q, players, u, link'[u], n)
                          /\ Fresh(u)' => Forgot(q, players, u, n)
    BY <1>2, <2>2
  <2>4. \A u \in Socket : ToldOf(current \o queue, players, u)'
    BY <1>4, <2>1, <2>3 DEF ToldOf
  <2>5. Told(current \o queue, players)'
    BY <1>2, <1>4, <2>1, <2>4 DEF Told
  <2> QED
    BY <2>5 DEF ToldInv
<1>6. ASSUME NEW m, Tells(s, m)
      PROVE  ToldInv'
  <2>1. /\ queue' = Append(queue, m) /\ m \in Message /\ m.socket = s
        /\ m.type = "TCP" => Known(s) /\ m.conn = link[s]
        /\ m.type = "ACCEPT" => Fresh(s)
    BY <1>6 DEF Tells
  <2>2. (current \o queue)' = Append(q, m)
    BY <1>4, <2>1, ConcatAppend DEF QueuesInv
  <2> DEFINE r == Append(q, m)
  <2>3. r \in Seq(Message) /\ Len(r) = n + 1
    BY <1>1, <2>1, AppendProperties
  <2> HIDE DEF q
  <2>4. /\ m.type = "TCP" => Knows(q, players, m.socket, m.conn, n)
        /\ m.type = "ACCEPT" => Forgot(q, players, m.socket, n)
    BY <1>2, <2>1
  <2>5. /\ InOrder(r, players)
        /\ \A u, c : /\ Knows(q, players, u, c, n) /\ (m.socket = u => m.type = "TCP")
                          => Knows(r, players, u, c, n + 1)
                     /\ IsAccept(m, u) /\ m.conn = c => Knows(r, players, u, c, n + 1)
        /\ \A u : /\ Forgot(q, players, u, n) /\ ~IsAccept(m, u) => Forgot(r, players, u, n + 1)
                  /\ m.type = "CLOSE" /\ m.socket = u => Forgot(r, players, u, n + 1)
    BY <1>1, <1>2, <2>1, <2>4, AppendInOrder
  <2>6. ASSUME NEW u \in Socket, Known(u)'
        PROVE  Knows(r, players, u, link'[u], n + 1)
    BY <1>6, <2>6, <1>2, <2>1, <2>5, <1>3 DEF Tells, IsAccept
  <2>7. ASSUME NEW u \in Socket, Fresh(u)'
        PROVE  Forgot(r, players, u, n + 1)
    BY <1>6, <2>1, <2>7, <2>5, <1>2, <1>3 DEF Tells, IsAccept
  <2> HIDE DEF r
  <2>8. \A u \in Socket : ToldOf(current \o queue, players, u)'
    BY <1>4, <2>2, <2>3, <2>6, <2>7 DEF ToldOf, r
  <2>9. Told(current \o queue, players)'
    BY <1>2, <1>4, <2>2, <2>5, <2>8 DEF Told, r
  <2> QED
    BY <2>9 DEF ToldInv
<1> QED
  BY <1>5, <1>6 DEF Transition

\* The logic thread takes a message.
LEMMA PopTold ==
    ASSUME QueuesInv, ToldInv, Pops, Takes1(Head(current), players, players'), OnePlayer(players'),
           \A u \in Socket : Untouched(u)
    PROVE  ToldInv'
<1> DEFINE q == current \o queue
           n == Len(q)
<1>1. q \in Seq(Message) /\ n \in Nat
  BY ConcatProperties, LenProperties DEF QueuesInv
<1>2. /\ InOrder(q, players)
      /\ \A u \in Socket : /\ Known(u) => Knows(q, players, u, link[u], n)
                           /\ Fresh(u) => Forgot(q, players, u, n)
  BY DEF ToldInv, Told, ToldOf
<1>3. q # << >> /\ Head(q) = Head(current) /\ (current \o queue)' = Tail(q)
  BY SMTT(60), ConcatTail DEF Pops, QueuesInv
<1>4. ASSUME NEW u \in Socket
      PROVE  (Known(u)' => Known(u) /\ link'[u] = link[u]) /\ (Fresh(u)' => Fresh(u))
  BY UntouchedSilent
<1> HIDE DEF q
<1>5. Len(Tail(q)) = n - 1
  BY <1>1, <1>3, HeadTailProperties
<1>6. /\ InOrder(Tail(q), players')
      /\ \A s, c : Knows(q, players, s, c, n) => Knows(Tail(q), players', s, c, n - 1)
      /\ \A s : Forgot(q, players, s, n) => Forgot(Tail(q), players', s, n - 1)
  BY <1>1, <1>2, <1>3, PopInOrder
<1>7. \A u \in Socket : ToldOf(current \o queue, players, u)'
  BY <1>2, <1>3, <1>4, <1>5, <1>6 DEF ToldOf
<1>8. Told(current \o queue, players)'
  BY <1>3, <1>6, <1>7 DEF Told
<1> QED
  BY <1>8 DEF ToldInv

\* The three handlers: a player comes, stays, or leaves.
LEMMA HandlersTold ==
    ASSUME Inv, ToldInv, \A u \in Socket : Untouched(u), OnAcceptMessage \/ OnTCPMessage \/ OnCloseMessage
    PROVE  ToldInv'
<1>1. Pops
  BY DEF OnAcceptMessage, OnTCPMessage, OnCloseMessage, Pop, Pops
<1>2. PICK m \in Message : m = Head(current)
  BY <1>1, HeadTailInSeq DEF Inv, QueuesInv, Pops
<1>3. players \in Seq(PlayerRec) /\ OnePlayer(players) /\ DOMAIN players = 1 .. Len(players)
  BY LenProperties DEF Inv, PlayersInv, ToldInv, Told
<1>4. CASE OnTCPMessage
  BY <1>2, <1>4, <1>1, <1>3, PopTold DEF OnTCPMessage, Takes1, Inv
<1>5. CASE OnAcceptMessage
  <2>1. m.type = "ACCEPT" /\ players' = Append(players, [socket |-> m.socket, conn |-> m.conn])
    BY <1>2, <1>5 DEF OnAcceptMessage
  <2>2. PICK p \in PlayerRec : p = [socket |-> m.socket, conn |-> m.conn]
    BY <2>1, AcceptMessage DEF PlayerRec
  <2>3. p.socket = m.socket /\ p.conn = m.conn /\ players' = Append(players, p)
    BY <2>1, <2>2
  <2>4. NoPlayer(players, p.socket)
    <3> DEFINE q == current \o queue
    <3>1. q \in Seq(Message) /\ q # << >> /\ Head(q) = m
      BY <1>1, <1>2, ConcatProperties, ConcatTail DEF Inv, QueuesInv, Pops
    <3>2. InOrder(q, players)
      BY DEF ToldInv, Told
    <3> HIDE DEF q
    <3>3. 1 \in DOMAIN q /\ q[1] = m
      BY <3>1, HeadTailProperties, LenProperties, EmptySeq
    <3>4. Forgot(q, players, m.socket, 0)
      BY <2>1, <3>2, <3>3 DEF InOrder
    <3>5. 1 .. 0 = {}
      OBVIOUS
    <3> QED
      BY <2>3, <3>4, <3>5 DEF Forgot, NoPlayer
  <2>5. /\ \A s, c : HasPlayer(players, s, c) => HasPlayer(players', s, c)
        /\ \A s : s # m.socket /\ NoPlayer(players, s) => NoPlayer(players', s)
        /\ HasPlayer(players', m.socket, m.conn)
        /\ OnePlayer(players')
    BY <1>3, <2>3, <2>4, PlayerComes
  <2>6. Takes1(m, players, players')
    BY <2>1, <2>5 DEF Takes1
  <2> QED
    BY <1>1, <1>2, <2>5, <2>6, PopTold DEF Inv
<1>6. CASE OnCloseMessage
  <2>1. m.type = "CLOSE"
    BY <1>2, <1>6 DEF OnCloseMessage
  <2>2. CASE players' = players /\ PlayerBySocket(m.socket) = {}
    <3>1. ASSUME NEW p \in DOMAIN players, players[p].socket = m.socket
          PROVE  p \in PlayerBySocket(m.socket)
      BY <1>3, <3>1 DEF OnePlayer, PlayerBySocket
    <3>2. NoPlayer(players, m.socket)
      BY <2>2, <3>1 DEF NoPlayer
    <3>3. Takes1(m, players, players')
      BY <2>1, <2>2, <3>2 DEF Takes1
    <3> QED
      BY <1>1, <1>2, <1>3, <2>2, <3>3, PopTold DEF Inv
  <2>3. ASSUME NEW p \in PlayerBySocket(m.socket), players' = RemoveAt(players, p)
        PROVE  ToldInv'
    BY <2>3, <1>3, PlayerLeaves, <2>1, <1>1, <1>2, PopTold DEF PlayerBySocket, Takes1, Inv
  <2> QED
    BY <1>2, <1>6, <2>2, <2>3 DEF OnCloseMessage
<1> QED
  BY <1>4, <1>5, <1>6

LEMMA SameTold ==
    ASSUME ToldInv, current' \o queue' = current \o queue, players' = players,
           \A u \in Socket : Untouched(u)
    PROVE  ToldInv'
<1> DEFINE q == current \o queue
           n == Len(q)
<1>1. /\ InOrder(q, players) /\ OnePlayer(players)
      /\ \A u \in Socket : /\ Known(u) => Knows(q, players, u, link[u], n)
                           /\ Fresh(u) => Forgot(q, players, u, n)
  BY DEF ToldInv, Told, ToldOf
<1>2. (current \o queue)' = q
  OBVIOUS
<1>3. ASSUME NEW u \in Socket
      PROVE  (Known(u)' => Known(u) /\ link'[u] = link[u]) /\ (Fresh(u)' => Fresh(u))
  BY UntouchedSilent
<1> HIDE DEF q
<1>4. \A u \in Socket : ToldOf(current \o queue, players, u)'
  BY <1>1, <1>2, <1>3 DEF ToldOf
<1> QED
  BY <1>1, <1>2, <1>4 DEF ToldInv, Told

LEMMA NextTold ==
    ASSUME Inv, Calm, PlacesInv, ToldInv, [Next]_vars
    PROVE  ToldInv'
<1>1. CASE \E s \in Socket : Works(s) /\ Transition(s)
  BY <1>1, TransitionTold DEF Inv
<1>2. CASE GameLogicThread
  <2>1. ~ \E i \in DOMAIN players : Close(i)
    BY DEF Calm, Close, May
  <2>2. UNCHANGED <<pool, op, done, at, arg, from, sockStates, link>>
    BY <1>2, <2>1 DEF GameLogicThread, UpdateQueue, OnAcceptMessage, OnTCPMessage, OnCloseMessage,
                      threads, os
  <2>3. \A u \in Socket : Untouched(u)
    BY <2>2, AllStay
  <2>4. CASE UpdateQueue
    BY <2>4, ConcatNothing, <2>3, SameTold DEF UpdateQueue, Inv, QueuesInv
  <2> QED
    BY <1>2, <2>1, <2>3, <2>4, HandlersTold DEF GameLogicThread
<1>3. CASE UNCHANGED vars
  BY <1>3, AllStay, SameTold DEF vars, os, threads, logic
<1> QED
  BY <1>1, <1>2, <1>3, NextPlaces

LEMMA InitTold == Init => ToldInv
<1> SUFFICES ASSUME Init
             PROVE  ToldInv
  OBVIOUS
<1>1. /\ queue = << >> /\ current = << >> /\ players = << >>
      /\ sockStates = [s \in Socket |-> FALSE]
  BY DEF Init
<1>2. current \o queue = << >> /\ Len(current \o queue) = 0
  BY <1>1
<1>3. PICK a : at = [t \in Thread |-> a[t]] /\ \A t \in Thread : a[t] \in {"drain", "idle", "unused"}
  <2>1. PICK m \in Machines : at = [t \in Thread |-> IF t = Logic THEN "drain"
                                   ELSE IF t \in m.workers THEN "idle" ELSE "unused"]
    BY DEF Init
  <2> QED
    BY <2>1
<1>4. ASSUME NEW s \in Socket
      PROVE  ~Known(s)
  BY <1>1, <1>3, <1>4 DEF Known, Open, Hands, Thread
<1>5. \A k \in DOMAIN << >> : FALSE
  OBVIOUS
<1>6. 1 .. 0 = {}
  OBVIOUS
<1>7. InOrder(<< >>, << >>) /\ OnePlayer(<< >>)
  BY <1>5 DEF InOrder, OnePlayer
<1>8. \A s : Forgot(<< >>, << >>, s, 0)
  BY <1>5, <1>6 DEF Forgot, NoAccept
<1>9. \A s \in Socket : ToldOf(<< >>, << >>, s)
  BY <1>2, <1>4, <1>8 DEF ToldOf
<1> QED
  BY <1>1, <1>2, <1>7, <1>9 DEF ToldInv, Told

LEMMA ToldHolds == Spec => [](Calm => PlacesInv /\ ToldInv)
<1>1. Init => (Calm => ToldInv)
  BY InitTold
<1>2. Inv /\ (Calm => PlacesInv) /\ (Calm => ToldInv) /\ [Next]_vars => (Calm => ToldInv)'
  BY NextTold, MayConstant DEF Calm
<1> QED
  BY <1>1, <1>2, InvHolds, PlacesHold, PTL DEF Spec

\* The bytes that the logic thread takes from its queue belong to the client whose player has
\* the socket: the announcement of that client was taken before, and the end of the connection,
\* after which the socket may carry another client, was not.
THEOREM DataReachesOwnerCorrect == Spec => DataReachesOwner
<1> DEFINE Body == may \cap {"ServerClose", "CloseError", "OverlapReuse"} = {} =>
                     (OnTCPMessage => \E p \in PlayerBySocket(Head(current).socket) :
                                        players[p].conn = Head(current).conn)
<1>1. Inv /\ (Calm => PlacesInv /\ ToldInv) /\ [Next]_vars => [Body]_vars
  <2> SUFFICES ASSUME Inv, ToldInv, OnTCPMessage
               PROVE  \E p \in PlayerBySocket(Head(current).socket) : players[p].conn = Head(current).conn
    BY DEF Calm
  <2>1. Pops
    BY DEF OnTCPMessage, Pop, Pops
  <2>2. PICK m \in Message : m = Head(current)
    BY <2>1, HeadTailInSeq DEF Inv, QueuesInv, Pops
  <2>3. m.type = "TCP"
    BY <2>2 DEF OnTCPMessage
  <2> DEFINE q == current \o queue
  <2>4. q \in Seq(Message) /\ q # << >> /\ Head(q) = m
    BY <2>1, <2>2, ConcatProperties, ConcatTail DEF Inv, QueuesInv, Pops
  <2>5. InOrder(q, players) /\ OnePlayer(players)
    BY DEF ToldInv, Told
  <2> HIDE DEF q
  <2>6. 1 \in DOMAIN q /\ q[1] = m
    BY <2>4, HeadTailProperties, LenProperties, EmptySeq
  <2>7. Knows(q, players, m.socket, m.conn, 0)
    BY <2>3, <2>5, <2>6 DEF InOrder
  <2>8. 1 .. 0 = {}
    OBVIOUS
  <2>9. PICK p \in DOMAIN players : players[p].socket = m.socket /\ players[p].conn = m.conn
    BY <2>7, <2>8 DEF Knows
  <2>10. \A j \in 1 .. p - 1 : j \in DOMAIN players /\ j # p
    BY LenProperties DEF Inv, PlayersInv
  <2>11. p \in PlayerBySocket(m.socket)
    BY <2>5, <2>9, <2>10 DEF OnePlayer, PlayerBySocket
  <2> QED
    BY <2>2, <2>9, <2>11
<1> HIDE DEF Body
<1>2. DataReachesOwner <=> [][Body]_vars
  BY DEF DataReachesOwner, Body
<1> QED
  BY <1>1, <1>2, InvHolds, ToldHolds, PTL DEF Spec

(***************************************************************************)
(* The connections.  As long as only clients leave, each step is one that  *)
(* Connections allows, or changes nothing that it sees.                    *)
(***************************************************************************)

\* Connection c has begun; it has ended or socket s still carries it.
Begun(c) == c \in gone \/ \E s \in Socket : link[s] = c
Has(s, c) == c \in gone \/ link[s] = c

\* What is announced has begun, what the logic thread will close has ended, and whom it will
\* know by a socket has ended or is still carried by it.
Announced(q) == \A k \in DOMAIN q : q[k].type = "ACCEPT" => Begun(q[k].conn)
Ended(q, ps) ==
    \A k \in DOMAIN q, c \in Conn :
        q[k].type = "CLOSE" /\ Knows(q, ps, q[k].socket, c, k - 1) => c \in gone
Carried(q, ps) == \A s \in Socket, c \in Conn : Knows(q, ps, s, c, Len(q)) => Has(s, c)
Lines(q, ps) == Announced(q) /\ Ended(q, ps) /\ Carried(q, ps)

LinesInv == Lines(current \o queue, players)

\* Connections begin, and end for good.
Onward ==
    /\ \A c \in Conn : Begun(c) => Begun(c)'
    /\ gone \subseteq gone'
    /\ \A s \in Socket, c \in Conn : Has(s, c) => Has(s, c)'

LEMMA OnwardLines ==
    ASSUME QueuesInv, LinesInv, Onward, current' \o queue' = current \o queue, players' = players
    PROVE  LinesInv'
<1> DEFINE q == current \o queue
<1>1. Announced(q) /\ Ended(q, players) /\ Carried(q, players) /\ q \in Seq(Message)
  BY ConcatProperties DEF LinesInv, Lines, QueuesInv
<1>2. (current \o queue)' = q
  OBVIOUS
<1> HIDE DEF q
<1>3. ASSUME NEW k \in DOMAIN q, NEW c, q[k].type = "ACCEPT", c = q[k].conn
      PROVE  Begun(c)'
  BY <1>1, LenProperties, <1>3, AcceptMessage DEF Announced, Onward
<1>4. Announced(current \o queue)'
  BY <1>2, <1>3 DEF Announced, Begun
<1>5. Ended(current \o queue, players)'
  BY <1>1, <1>2 DEF Ended, Onward
<1>6. Carried(current \o queue, players)'
  BY <1>1, <1>2 DEF Carried, Onward
<1> QED
  BY <1>4, <1>5, <1>6 DEF LinesInv, Lines

\* A message more makes nobody known whom it does not announce.
LEMMA NoneMoreKnown ==
    ASSUME NEW q \in Seq(Message), NEW m \in Message, NEW ps, NEW s, NEW c
    PROVE  /\ \A k \in 0 .. Len(q) : Knows(Append(q, m), ps, s, c, k) => Knows(q, ps, s, c, k)
           /\ Knows(Append(q, m), ps, s, c, Len(q) + 1) =>
                \/ IsAccept(m, s) /\ m.conn = c
                \/ (m.socket = s => m.type = "TCP") /\ Knows(q, ps, s, c, Len(q))
<1> DEFINE r == Append(q, m)
           n == Len(q)
<1>1. n \in Nat /\ r[n + 1] = m /\ \A i \in 1 .. n : r[i] = q[i]
  BY AppendProperties, LenProperties
<1> HIDE DEF r, n
<1>2. ASSUME NEW k \in 0 .. n, Knows(r, ps, s, c, k)
      PROVE  Knows(q, ps, s, c, k)
  BY <1>1, <1>2, PrefixKnows
<1>3. ASSUME Knows(r, ps, s, c, n + 1), ~(IsAccept(m, s) /\ m.conn = c)
      PROVE  (m.socket = s => m.type = "TCP") /\ Knows(q, ps, s, c, n)
  <2>1. \A j \in 1 .. n + 1 : j # n + 1 => j \in 1 .. n
    BY <1>1
  <2>2. \A j \in 1 .. n + 1 : OnlyData(r, s, j, n + 1) => (m.socket = s => m.type = "TCP") /\ OnlyData(r, s, j, n)
    BY <1>1 DEF OnlyData
  <2>3. CASE \E j \in 1 .. n + 1 : IsAccept(r[j], s) /\ r[j].conn = c /\ OnlyData(r, s, j + 1, n + 1)
    <3>1. PICK j \in 1 .. n + 1 : IsAccept(r[j], s) /\ r[j].conn = c /\ OnlyData(r, s, j + 1, n + 1)
      BY <2>3
    <3>2. j \in 1 .. n /\ j + 1 \in 1 .. n + 1
      BY <1>1, <1>3, <2>1, <3>1
    <3>3. (m.socket = s => m.type = "TCP") /\ Knows(r, ps, s, c, n)
      BY <2>2, <3>1, <3>2 DEF Knows
    <3>4. n \in 0 .. n
      BY <1>1
    <3> QED
      BY <1>2, <3>3, <3>4
  <2>4. CASE OnlyData(r, s, 1, n + 1) /\ \E p \in DOMAIN ps : ps[p].socket = s /\ ps[p].conn = c
    BY <1>1, <2>2, <2>4, <1>2 DEF Knows
  <2> QED
    BY <1>3, <2>3, <2>4 DEF Knows
<1> QED
  BY <1>2, <1>3 DEF r, n

\* A thread that is not the logic thread sends a message.
Sends(m) ==
    /\ queue' = Append(queue, m) /\ m \in Message /\ m.socket \in Socket
    /\ m.type = "ACCEPT" => link[m.socket] = m.conn
    /\ m.type = "CLOSE" => link[m.socket] = NoConn

LEMMA SendsLines ==
    ASSUME QueuesInv, LinesInv, UNCHANGED <<players, current, link, gone>>, NEW m, Sends(m)
    PROVE  LinesInv'
<1> DEFINE q == current \o queue
           n == Len(q)
           r == Append(q, m)
<1>1. q \in Seq(Message) /\ m \in Message /\ n \in Nat
  BY ConcatProperties, LenProperties DEF QueuesInv, Sends
<1>2. (current \o queue)' = r
  BY ConcatAppend DEF QueuesInv, Sends
<1>3. Announced(q) /\ Ended(q, players) /\ Carried(q, players)
  BY DEF LinesInv, Lines
<1>4. /\ DOMAIN q = 1 .. n /\ DOMAIN r = 1 .. n + 1 /\ Len(r) = n + 1
      /\ r[n + 1] = m /\ \A i \in 1 .. n : r[i] = q[i]
  BY <1>1, AppendProperties, LenProperties
<1>5. \A s, c : /\ \A k \in 0 .. n : Knows(r, players, s, c, k) => Knows(q, players, s, c, k)
                /\ Knows(r, players, s, c, n + 1) =>
                     \/ IsAccept(m, s) /\ m.conn = c
                     \/ (m.socket = s => m.type = "TCP") /\ Knows(q, players, s, c, n)
  BY <1>1, NoneMoreKnown
<1> HIDE DEF q, n, r
<1>6. \A k \in 1 .. n + 1 : k - 1 \in 0 .. n /\ (k # n + 1 => k \in 1 .. n)
  BY <1>1
<1>7. Announced(r)
  <2> SUFFICES ASSUME NEW k \in 1 .. n + 1, r[k].type = "ACCEPT"
               PROVE  Begun(r[k].conn)
    BY <1>4 DEF Announced
  <2>1. CASE k = n + 1
    BY <1>4, <2>1 DEF Sends, Begun
  <2>2. CASE k # n + 1
    BY <1>3, <1>4, <1>6, <2>2 DEF Announced
  <2> QED
    BY <2>1, <2>2
<1>8. Ended(r, players)
  <2> SUFFICES ASSUME NEW k \in 1 .. n + 1, NEW c \in Conn, r[k].type = "CLOSE",
                      Knows(r, players, r[k].socket, c, k - 1)
               PROVE  c \in gone
    BY <1>4 DEF Ended
  <2>1. Knows(q, players, r[k].socket, c, k - 1)
    BY <1>5, <1>6
  <2>2. CASE k = n + 1
    BY <1>1, <1>4, <2>2, <1>3, <2>1, NullAssumption DEF Sends, Carried, n, Has
  <2>3. CASE k # n + 1
    BY <1>4, <1>6, <2>3, <1>3, <2>1 DEF Ended
  <2> QED
    BY <2>2, <2>3
<1>9. Carried(r, players)
  <2> SUFFICES ASSUME NEW s \in Socket, NEW c \in Conn, Knows(r, players, s, c, n + 1)
               PROVE  Has(s, c)
    BY <1>4 DEF Carried
  <2>1. CASE IsAccept(m, s) /\ m.conn = c
    BY <2>1 DEF IsAccept, Sends, Has
  <2>2. CASE Knows(q, players, s, c, n)
    BY <1>3, <2>2 DEF Carried, n
  <2> QED
    BY <1>5, <2>1, <2>2
<1>10. players' = players /\ link' = link /\ gone' = gone
  OBVIOUS
<1>11. Announced(current \o queue)'
  BY <1>2, <1>7, <1>10 DEF Announced, Begun
<1>12. Ended(current \o queue, players)'
  BY <1>2, <1>8, <1>10 DEF Ended
<1>13. Carried(current \o queue, players)'
  BY <1>2, <1>9, <1>10 DEF Carried, Has
<1> QED
  BY <1>11, <1>12, <1>13 DEF LinesInv, Lines

\* Taking message m makes nobody known whom it does not announce.
Takes2(m, ps, ps2) ==
    \A s, c : HasPlayer(ps2, s, c) =>
        \/ HasPlayer(ps, s, c) /\ (m.socket = s => m.type = "TCP")
        \/ IsAccept(m, s) /\ m.conn = c

LEMMA NoneKnownByPop ==
    ASSUME NEW q \in Seq(Message), q # << >>, NEW ps, NEW ps2, Takes2(Head(q), ps, ps2), NEW s, NEW c,
           NEW k \in 0 .. Len(q) - 1, Knows(Tail(q), ps2, s, c, k)
    PROVE  Knows(q, ps, s, c, k + 1)
<1> DEFINE r == Tail(q)
           m == Head(q)
<1>1. /\ Len(q) \in Nat /\ m = q[1] /\ Len(r) = Len(q) - 1
      /\ \A i \in 1 .. Len(q) - 1 : r[i] = q[i + 1]
  BY HeadTailProperties, LenProperties
<1> HIDE DEF r, m
<1>2. \A i \in 1 .. k + 1 : i = 1 \/ (i - 1 \in 1 .. k /\ i - 1 \in 1 .. Len(q) - 1 /\ q[i] = r[i - 1])
  BY <1>1
<1>3. \A j \in 0 .. k : OnlyData(r, s, j + 1, k) => OnlyData(q, s, j + 2, k + 1)
  <2> SUFFICES ASSUME NEW j \in 0 .. k, OnlyData(r, s, j + 1, k), NEW i \in j + 2 .. k + 1, q[i].socket = s
               PROVE  q[i].type = "TCP"
    BY DEF OnlyData
  <2>1. i - 1 \in j + 1 .. k /\ i \in 1 .. k + 1 /\ i # 1
    OBVIOUS
  <2> QED
    BY <1>2, <2>1 DEF OnlyData
<1>4. CASE \E j \in 1 .. k : IsAccept(r[j], s) /\ r[j].conn = c /\ OnlyData(r, s, j + 1, k)
  <2>1. PICK j \in 1 .. k : IsAccept(r[j], s) /\ r[j].conn = c /\ OnlyData(r, s, j + 1, k)
    BY <1>4
  <2>2. j + 1 \in 1 .. k + 1 /\ j \in 0 .. k /\ (j + 1) + 1 = j + 2 /\ q[j + 1] = r[j]
    BY <1>1
  <2>3. OnlyData(q, s, (j + 1) + 1, k + 1)
    BY <1>3, <2>1, <2>2
  <2> QED
    BY <2>1, <2>2, <2>3 DEF Knows
<1>5. CASE OnlyData(r, s, 1, k) /\ HasPlayer(ps2, s, c)
  <2>1. 0 \in 0 .. k /\ 0 + 1 = 1 /\ 0 + 2 = 2 /\ 1 + 1 = 2 /\ 1 \in 1 .. k + 1
    OBVIOUS
  <2>2. OnlyData(q, s, 2, k + 1)
    BY <1>3, <1>5, <2>1
  <2>3. CASE IsAccept(m, s) /\ m.conn = c
    BY <1>1, <2>1, <2>2, <2>3 DEF Knows
  <2>4. CASE HasPlayer(ps, s, c) /\ (m.socket = s => m.type = "TCP")
    BY <1>1, <2>2, <2>4 DEF OnlyData, Knows, HasPlayer
  <2> QED
    BY <1>5, <2>3, <2>4 DEF Takes2, m
<1> QED
  BY <1>4, <1>5 DEF Knows, HasPlayer, r

LEMMA PopLines ==
    ASSUME QueuesInv, LinesInv, Pops, Takes2(Head(current), players, players'), UNCHANGED <<link, gone>>
    PROVE  LinesInv'
<1> DEFINE q == current \o queue
           n == Len(q)
<1>1. q \in Seq(Message) /\ n \in Nat
  BY ConcatProperties, LenProperties DEF QueuesInv
<1>2. q # << >> /\ Head(q) = Head(current) /\ (current \o queue)' = Tail(q)
  BY ConcatTail DEF Pops, QueuesInv
<1>3. Announced(q) /\ Ended(q, players) /\ Carried(q, players)
  BY DEF LinesInv, Lines
<1>4. link' = link /\ gone' = gone
  OBVIOUS
<1> HIDE DEF q
<1> DEFINE r == Tail(q)
<1>5. /\ Len(r) = n - 1 /\ DOMAIN r = 1 .. n - 1 /\ DOMAIN q = 1 .. n
      /\ \A i \in 1 .. n - 1 : r[i] = q[i + 1]
  BY <1>1, <1>2, HeadTailProperties, LenProperties
<1>6. \A s, c : \A k \in 0 .. n - 1 : Knows(r, players', s, c, k) => Knows(q, players, s, c, k + 1)
  BY <1>1, <1>2, NoneKnownByPop
<1> HIDE DEF r, n
<1>7. \A k \in 1 .. n - 1 : k - 1 \in 0 .. n - 1 /\ (k - 1) + 1 = (k + 1) - 1 /\ k + 1 \in 1 .. n
  BY <1>1 DEF n
<1>8. Announced(r)
  BY <1>3, <1>5, <1>7 DEF Announced
<1>9. \A k \in DOMAIN r, c \in Conn :
        r[k].type = "CLOSE" /\ Knows(r, players', r[k].socket, c, k - 1) => c \in gone
  BY <1>3, <1>5, <1>6, <1>7 DEF Ended
<1>10. n - 1 \in 0 .. n - 1 /\ (n - 1) + 1 = n
  BY <1>1, <1>2, EmptySeq DEF n
<1>11. \A s \in Socket, c \in Conn : Knows(r, players', s, c, n - 1) => Has(s, c)
  BY <1>3, <1>6, <1>10 DEF Carried, n
<1>12. (current \o queue)' = r
  BY <1>2 DEF r
<1>13. Announced(current \o queue)'
  BY <1>4, <1>8, <1>12 DEF Announced, Begun
<1>14. Ended(current \o queue, players)'
  BY <1>4, <1>9, <1>12 DEF Ended
<1>15. Carried(current \o queue, players)'
  BY <1>4, <1>5, <1>11, <1>12 DEF Carried, Has
<1> QED
  BY <1>13, <1>14, <1>15 DEF LinesInv, Lines

\* A step as Connections sees it.
Begins(c) == Line(c) = "idle" /\ Line(c)' = "up"
Breaks(c) == Line(c) = "up" /\ Line(c)' = "down"
IsServed(c) == Line(c) # "idle" /\ Served(c) = "no" /\ Served(c)' = "yes"
IsDropped(c) == Line(c) = "down" /\ Served(c) = "yes" /\ Served(c)' = "done"
LineKept(c) == Line(c)' = Line(c)
ServedKept(c) == Served(c)' = Served(c)
Seen ==
    \/ \A c \in Conn : LineKept(c) /\ ServedKept(c)
    \/ \E c \in Conn : /\ \A d \in Conn \ {c} : LineKept(d) /\ ServedKept(d)
                       /\ \/ ServedKept(c) /\ (Begins(c) \/ Breaks(c))
                          \/ LineKept(c) /\ (IsServed(c) \/ IsDropped(c))

LEMMA SeenRefines ==
    ASSUME Seen
    PROVE  [Promise!Next]_(Promise!vars)
<1>1. CASE \A c \in Conn : LineKept(c) /\ ServedKept(c)
  BY <1>1 DEF Promise!vars, LineKept, ServedKept
<1>2. ASSUME NEW c \in Conn, \A d \in Conn \ {c} : LineKept(d) /\ ServedKept(d),
             \/ ServedKept(c) /\ (Begins(c) \/ Breaks(c))
             \/ LineKept(c) /\ (IsServed(c) \/ IsDropped(c))
      PROVE  Promise!Next
  <2>1. CASE ServedKept(c)
    BY <1>2, <2>1 DEF ServedKept, LineKept, Begins, Promise!Next, Promise!Connect, Breaks, Promise!Break, IsServed,
      IsDropped
  <2>2. CASE LineKept(c) /\ (IsServed(c) \/ IsDropped(c))
    BY <1>2, <2>2 DEF LineKept, ServedKept, IsServed, Promise!Next, Promise!Serve, IsDropped, Promise!Drop
  <2> QED
    BY <1>2, <2>1, <2>2
<1> QED
  BY <1>1, <1>2 DEF Seen

LEMMA SameLine == ASSUME UNCHANGED <<may, gone, link>>, NEW c PROVE LineKept(c)
  BY DEF LineKept, Line, OnlyClientsLeave

LEMMA SameServed == ASSUME UNCHANGED <<may, players, closed>>, NEW c PROVE ServedKept(c)
  BY DEF ServedKept, Served, OnlyClientsLeave

\* The logic thread takes a message.
LEMMA HandlersSeen ==
    ASSUME Inv, ToldInv, LinesInv, OnlyClientsLeave, OnAcceptMessage \/ OnTCPMessage \/ OnCloseMessage
    PROVE  LinesInv' /\ Seen
<1> DEFINE q == current \o queue
<1>1. /\ Pops /\ UNCHANGED <<link, gone, may>>
  BY DEF OnAcceptMessage, OnTCPMessage, OnCloseMessage, Pop, Pops, os
<1>2. PICK m \in Message : m = Head(current)
  BY <1>1, HeadTailInSeq DEF Inv, QueuesInv, Pops
<1>3. players \in Seq(PlayerRec) /\ OnePlayer(players) /\ DOMAIN players = 1 .. Len(players)
  BY LenProperties DEF Inv, PlayersInv, ToldInv, Told
<1>4. q \in Seq(Message) /\ q # << >> /\ Head(q) = m
  BY <1>1, <1>2, ConcatProperties, ConcatTail DEF Inv, QueuesInv, Pops
<1>5. InOrder(q, players) /\ Announced(q) /\ Ended(q, players)
  BY DEF ToldInv, Told, LinesInv, Lines
<1> HIDE DEF q
<1>6. 1 \in DOMAIN q /\ q[1] = m
  BY <1>4, HeadTailProperties, LenProperties, EmptySeq
<1>7. 1 - 1 = 0 /\ 1 .. 0 = {}
  OBVIOUS
<1>8. ASSUME NEW c
      PROVE  LineKept(c)
  BY <1>1, SameLine
<1>9. CASE OnTCPMessage
  BY <1>2, <1>9, <1>1, <1>8, PopLines, SameServed DEF OnTCPMessage, Takes2, Inv, Seen
<1>10. CASE OnAcceptMessage
  <2>1. /\ m.type = "ACCEPT" /\ players' = Append(players, [socket |-> m.socket, conn |-> m.conn])
        /\ closed' = closed
    BY <1>2, <1>10 DEF OnAcceptMessage
  <2>2. PICK p \in PlayerRec : p = [socket |-> m.socket, conn |-> m.conn]
    BY <2>1, AcceptMessage DEF PlayerRec
  <2>3. p.socket = m.socket /\ p.conn = m.conn /\ players' = Append(players, p) /\ m.conn \in Conn
    BY <2>1, <2>2 DEF PlayerRec
  <2>4. NoPlayer(players, m.socket)
    BY <1>5, <1>6, <1>7, <2>1 DEF InOrder, Forgot, NoPlayer
  <2>5. /\ \A s, c : HasPlayer(players, s, c) => HasPlayer(players', s, c)
        /\ HasPlayer(players', m.socket, m.conn)
        /\ \A s, c : HasPlayer(players', s, c) => HasPlayer(players, s, c) \/ (s = m.socket /\ c = m.conn)
    BY <1>3, <2>3, PlayerComes
  <2>6. Takes2(m, players, players')
    BY <2>1, <2>4, <2>5 DEF Takes2, IsAccept, NoPlayer, HasPlayer
  <2>7. LinesInv'
    BY <1>1, <1>2, <2>6, PopLines DEF Inv
  <2>8. \A c : Served(c) = IF c \in closed THEN "done" ELSE IF \E s : HasPlayer(players, s, c) THEN "yes" ELSE "no"
    BY DEF Served, HasPlayer
  <2>9. \A c : Served(c)' = IF c \in closed THEN "done" ELSE IF \E s : HasPlayer(players', s, c) THEN "yes" ELSE "no"
    BY <1>1, <2>1 DEF Served, HasPlayer, OnlyClientsLeave
  <2>10. \A c \in Conn \ {m.conn} : ServedKept(c)
    BY <2>5, <2>8, <2>9 DEF ServedKept
  <2>11. Line(m.conn) # "idle"
    BY <1>5, <1>6, <2>1 DEF Announced, Begun, Line
  <2>12. ServedKept(m.conn) \/ IsServed(m.conn)
    BY <2>5, <2>8, <2>9, <2>11 DEF ServedKept, IsServed
  <2> QED
    BY <1>8, <2>3, <2>7, <2>10, <2>12 DEF Seen
<1>11. CASE OnCloseMessage
  <2>1. m.type = "CLOSE"
    BY <1>2, <1>11 DEF OnCloseMessage
  <2>2. CASE players' = players /\ closed' = closed /\ PlayerBySocket(m.socket) = {}
    <3>1. ASSUME NEW p \in DOMAIN players, players[p].socket = m.socket
          PROVE  p \in PlayerBySocket(m.socket)
      BY <1>3, <3>1 DEF OnePlayer, PlayerBySocket
    <3>2. Takes2(m, players, players')
      BY <2>2, <3>1 DEF Takes2, HasPlayer
    <3> QED
      BY <1>1, <1>2, <1>8, <2>2, <3>2, PopLines, SameServed DEF Inv, Seen
  <2>3. ASSUME NEW p \in PlayerBySocket(m.socket), players' = RemoveAt(players, p),
               closed' = closed \cup {players[p].conn}
        PROVE  LinesInv' /\ Seen
    <3>1. PICK c \in Conn : c = players[p].conn
      <4>1. p \in DOMAIN players
        BY <2>3 DEF PlayerBySocket
      <4>2. players[p] \in PlayerRec
        BY <1>3, <4>1
      <4> QED
        BY <4>2 DEF PlayerRec
    <3>2. p \in DOMAIN players /\ players[p].socket = m.socket
      BY <2>3 DEF PlayerBySocket
    <3>3. /\ \A s, d : s # m.socket /\ HasPlayer(players, s, d) => HasPlayer(players', s, d)
          /\ NoPlayer(players', m.socket)
          /\ \A s, d : HasPlayer(players', s, d) => HasPlayer(players, s, d)
      BY <1>3, <2>3, <3>2, PlayerLeaves
    <3>4. Takes2(m, players, players')
      BY <3>3 DEF Takes2, NoPlayer, HasPlayer
    <3>5. LinesInv'
      BY <1>1, <1>2, <3>4, PopLines DEF Inv
    <3>6. \A d : Served(d) = IF d \in closed THEN "done" ELSE IF \E s : HasPlayer(players, s, d) THEN "yes" ELSE "no"
      BY DEF Served, HasPlayer
    <3>7. \A d : Served(d)' = IF d \in closed \cup {c} THEN "done"
                             ELSE IF \E s : HasPlayer(players', s, d) THEN "yes" ELSE "no"
      BY <1>1, <2>3, <3>1 DEF Served, HasPlayer, OnlyClientsLeave
    <3>8. \A d : d # c => ~HasPlayer(players, m.socket, d)
      BY <1>3, <3>1, <3>2 DEF HasPlayer, OnePlayer
    <3>9. \A d \in Conn \ {c} : ServedKept(d)
      BY <3>3, <3>6, <3>7, <3>8 DEF ServedKept
    <3>10. HasPlayer(players, m.socket, c)
      BY <3>1, <3>2 DEF HasPlayer
    <3>11. Knows(q, players, m.socket, c, 1 - 1)
      BY <1>7, <3>10 DEF Knows, OnlyData, HasPlayer
    <3>12. Line(c) = "down"
      BY <1>5, <1>6, <2>1, <3>11 DEF Ended, Line
    <3>13. ServedKept(c) \/ IsDropped(c)
      BY <3>6, <3>7, <3>10, <3>12 DEF ServedKept, IsDropped
    <3> QED
      BY <1>8, <3>5, <3>9, <3>13 DEF Seen
  <2> QED
    BY <1>2, <1>11, <2>2, <2>3 DEF OnCloseMessage
<1> QED
  BY <1>9, <1>10, <1>11

\* What the other threads send.
Says == /\ UNCHANGED <<may, players, current, closed, link, gone>>
        /\ queue' = queue \/ \E m : Sends(m)

LEMMA SaysSeen ==
    ASSUME QueuesInv, LinesInv, Says
    PROVE  LinesInv' /\ Seen
  BY OnwardLines, SameLine, SameServed, SendsLines DEF Says, Onward, Begun, Has, Seen

LEMMA SendsClose ==
    ASSUME NEW s \in Socket, OnClose(s), link[s] = NoConn
    PROVE  \E m : Sends(m)
<1> DEFINE m == [type |-> "CLOSE", socket |-> s]
<1>1. m \in Message
  BY DEF Message
<1> QED
  BY <1>1 DEF Sends, OnClose, Post

LEMMA WorkersSay ==
    ASSUME Inv, PlacesInv, NEW w \in Worker, Handle(w)
    PROVE  Says
<1>1. UNCHANGED <<may, players, current, closed, link, gone>>
  BY DEF Handle, TakeAccept, TakeRecv, TakeClose, PostAcceptMessage, OpenState, FirstRecv, FirstRecvFails,
         PostAccept, OnRecvTCP, PostRecv, CloseReturned, PoolSocket, logic, os
<1>2. CASE PostAcceptMessage(w)
  <2>1. at[w] = "announce"
    BY <1>2 DEF PostAcceptMessage
  <2>2. arg[w] \in Socket /\ link[arg[w]] \in Conn /\ from[w] = link[arg[w]]
    BY <2>1, WorkerHas, HandSays DEF WithSocket
  <2> DEFINE m == [type |-> "ACCEPT", socket |-> arg[w], conn |-> from[w]]
  <2>3. m \in Message
    BY <2>2 DEF Message
  <2>4. Sends(m)
    BY <1>2, <2>2, <2>3 DEF Sends, PostAcceptMessage, Post
  <2> QED
    BY <1>1, <2>4 DEF Says
<1>3. CASE OnRecvTCP(w)
  <2>1. at[w] = "data"
    BY <1>3 DEF OnRecvTCP
  <2>2. arg[w] \in Socket /\ from[w] \in Conn
    BY <2>1, WorkerHas DEF WithSocket, Inv, ThreadsInv, WithConn
  <2> DEFINE m == [type |-> "TCP", socket |-> arg[w], conn |-> from[w]]
  <2>3. m \in Message
    BY <2>2 DEF Message
  <2>4. Sends(m)
    BY <1>3, <2>2, <2>3 DEF Sends, OnRecvTCP, Post
  <2> QED
    BY <1>1, <2>4 DEF Says
<1>4. ASSUME NEW s \in Socket, TakeClose(w, s)
      PROVE  Says
  BY <1>4, DoneIsPhase, DoneSays, <1>1, SendsClose DEF TakeClose, Take, BagIn, BagToSet, Of, Closed, PlacesInv, Shut,
    Says
<1>5. (\A s \in Socket : ~TakeClose(w, s)) /\ ~PostAcceptMessage(w) /\ ~OnRecvTCP(w) => queue' = queue
  BY DEF Handle, TakeAccept, TakeRecv, OpenState, FirstRecv, FirstRecvFails,
         PostAccept, PostRecv, CloseReturned, PoolSocket
<1> QED
  BY <1>1, <1>2, <1>3, <1>4, <1>5 DEF Says

LEMMA ClosersSay ==
    ASSUME Inv, Calm, PlacesInv, NEW t \in Thread, PostClose(t)
    PROVE  Says
  BY CloserIsWorker, WorkerHas, HandSays, SendsClose DEF CheckState, Transmit, logic, os, WithSocket, Open, Shut,
    Says

\* Clients and the operating system: a connection begins or ends.
LEMMA SystemSeen ==
    ASSUME QueuesInv, PlacesInv, LinesInv, OnlyClientsLeave, System
    PROVE  LinesInv' /\ Seen
<1>1. UNCHANGED <<may, players, current, closed, queue>>
  BY DEF System, SendData, HangUp, RecvEnds, CloseEnds, Connect, logic
<1>2. link \in [Socket -> Conn \cup {NoConn}]
  BY DEF PlacesInv, SocketTypes
<1>3. \A c : ServedKept(c)
  BY <1>1, SameServed
<1>4. Onward => LinesInv'
  BY <1>1, OnwardLines
<1>5. \A c \in Conn : Line(c)' = IF c \in gone' THEN "down"
                                 ELSE IF \E u \in Socket : link'[u] = c THEN "up" ELSE "idle"
  BY <1>1 DEF Line, OnlyClientsLeave
<1>6. ASSUME NEW s \in Socket, NEW c \in Conn, Connect(c, s)
      PROVE  LinesInv' /\ Seen
  <2>1. ~May("AcceptError")
    BY DEF OnlyClientsLeave, May
  <2>2. AcceptOp(s) \in Of(op, s)
    BY <1>6 DEF Connect, BagIn, BagToSet, Of, AcceptOp
  <2>3. link[s] = NoConn
    BY <2>2, OpIsPhase, OpSays DEF PlacesInv, Shut
  <2>4. gone' = gone /\ link' = [link EXCEPT ![s] = c] /\ c \notin gone /\ \A u \in Socket : link[u] # c
    BY <1>6, <2>1 DEF Connect, Waiting
  <2>5. Onward
    BY <1>2, <2>3, <2>4, NullAssumption DEF Onward, Begun, Has
  <2>6. \A d \in Conn \ {c} : LineKept(d)
    BY <1>2, <1>5, <2>3, <2>4, NullAssumption DEF LineKept, Line
  <2>7. Begins(c)
    BY <1>2, <1>5, <2>4 DEF Begins, Line
  <2> QED
    BY <1>3, <1>4, <2>5, <2>6, <2>7 DEF Seen
<1>7. ASSUME NEW s \in Socket, HangUp(s)
      PROVE  LinesInv' /\ Seen
  <2>1. PICK c \in Conn : c = link[s] /\ c \notin gone
    BY <1>7 DEF HangUp
  <2>2. gone' = gone \cup {c} /\ link' = link
    BY <1>7, <2>1 DEF HangUp
  <2>3. Onward
    BY <2>2 DEF Onward, Begun, Has
  <2>4. \A d \in Conn \ {c} : LineKept(d)
    BY <1>5, <2>2 DEF LineKept, Line
  <2>5. Breaks(c)
    BY <1>5, <2>1, <2>2 DEF Breaks, Line
  <2> QED
    BY <1>3, <1>4, <2>3, <2>4, <2>5 DEF Seen
<1>8. ASSUME NEW s \in Socket, CloseEnds(s)
      PROVE  LinesInv' /\ Seen
  <2>1. gone' = gone \cup ({link[s]} \ {NoConn}) /\ link' = [link EXCEPT ![s] = NoConn]
    BY <1>8 DEF CloseEnds
  <2>2. Onward
    BY <1>2, <2>1, NullAssumption DEF Onward, Begun, Has
  <2>3. \A d \in Conn : d # link[s] => LineKept(d)
    BY <1>2, <1>5, <2>1, NullAssumption DEF LineKept, Line
  <2>4. CASE link[s] = NoConn
    BY <1>3, <1>4, <2>2, <2>3, <2>4, NullAssumption DEF Seen
  <2>5. CASE link[s] # NoConn
    <3>1. PICK c \in Conn : c = link[s]
      BY <1>2, <2>5
    <3>2. LineKept(c) \/ Breaks(c)
      BY <1>5, <2>1, <2>5, <3>1 DEF LineKept, Breaks, Line
    <3> QED
      BY <1>3, <1>4, <2>2, <2>3, <3>1, <3>2 DEF Seen
  <2> QED
    BY <2>4, <2>5
<1>9. ASSUME NEW s \in Socket, SendData(s) \/ RecvEnds(s)
      PROVE  LinesInv' /\ Seen
  BY <1>9, <1>1, SameLine, <1>3, <1>4 DEF SendData, RecvEnds, os, Onward, Begun, Has, Seen
<1> QED
  BY <1>6, <1>7, <1>8, <1>9 DEF System

LEMMA NextSeen ==
    ASSUME Inv, OnlyClientsLeave, PlacesInv, ToldInv, LinesInv, [Next]_vars
    PROVE  LinesInv' /\ Seen
<1>1. Calm
  BY DEF Calm, OnlyClientsLeave
<1>2. ASSUME UNCHANGED <<may, players, closed, gone, link>>, current' \o queue' = current \o queue
      PROVE  LinesInv' /\ Seen
  BY <1>2, OnwardLines, SameLine, SameServed DEF Onward, Begun, Has, Inv, Seen
<1>3. CASE UNCHANGED vars
  BY <1>2, <1>3 DEF vars, os, logic
<1>4. CASE GameLogicThread
  BY <1>1, ConcatNothing, <1>2, <1>4, HandlersSeen DEF Calm, Close, May, UpdateQueue, Inv, QueuesInv, os,
    GameLogicThread
<1>5. ASSUME NEW w \in Worker, Handle(w)
      PROVE  LinesInv' /\ Seen
  BY <1>5, WorkersSay, SaysSeen DEF Inv
<1>6. ASSUME NEW t \in Thread, PostClose(t)
      PROVE  LinesInv' /\ Seen
  BY <1>1, <1>6, ClosersSay, SaysSeen DEF Inv
<1> QED
  BY <1>3, <1>4, <1>5, <1>6, SystemSeen DEF Next, Inv

LEMMA InitLines == Init => LinesInv
<1> SUFFICES ASSUME Init
             PROVE  LinesInv
  OBVIOUS
<1>1. current \o queue = << >> /\ players = << >> /\ Len(<< >>) = 0 /\ 1 .. 0 = {}
  BY DEF Init
<1>2. \A k \in DOMAIN << >> : FALSE
  OBVIOUS
<1>3. Announced(<< >>) /\ Ended(<< >>, << >>)
  BY <1>2 DEF Announced, Ended
<1>4. Carried(<< >>, << >>)
  BY <1>1, <1>2 DEF Carried, Knows
<1> QED
  BY <1>1, <1>3, <1>4 DEF LinesInv, Lines

\* SocketServer implements Connections, without its liveness: as long as only clients leave, every
\* connection gets a player at most once, and loses it once, after it has ended.
THEOREM ConnectionsKeepOrder == Spec => ConnectionsInOrder
<1>1. Init => Promise!Init
  <2> SUFFICES ASSUME Init, NEW c \in Conn
               PROVE  Line(c) = "idle" /\ Served(c) = "no"
    BY DEF Promise!Init
  <2>1. gone = {} /\ closed = {} /\ players = << >> /\ link = [s \in Socket |-> NoConn]
    BY DEF Init
  <2>2. \A i \in DOMAIN << >> : FALSE
    OBVIOUS
  <2> QED
    BY <2>1, <2>2, NullAssumption DEF Line, Served
<1>2. Init => (OnlyClientsLeave => LinesInv)
  BY InitLines
<1>3. Inv /\ (Calm => PlacesInv /\ ToldInv) /\ (OnlyClientsLeave => LinesInv) /\ [Next]_vars
        => (OnlyClientsLeave => LinesInv)' /\ [Promise!Next]_(Promise!vars)
  <2> SUFFICES ASSUME Inv, Calm => PlacesInv /\ ToldInv, OnlyClientsLeave => LinesInv, [Next]_vars
               PROVE  (OnlyClientsLeave => LinesInv)' /\ [Promise!Next]_(Promise!vars)
    OBVIOUS
  <2>1. may' = may
    BY MayConstant
  <2>2. CASE OnlyClientsLeave
    BY <2>2, NextSeen, SeenRefines DEF Calm, OnlyClientsLeave
  <2>3. CASE ~OnlyClientsLeave
    BY <2>1, <2>3, SeenRefines DEF OnlyClientsLeave, Seen, LineKept, ServedKept, Line, Served
  <2> QED
    BY <2>2, <2>3
<1> QED
  BY <1>1, <1>2, <1>3, InvHolds, ToldHolds, PTL DEF Spec, ConnectionsInOrder, Promise!Spec
=============================================================================
