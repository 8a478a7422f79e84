---------------------------- MODULE SocketServer ----------------------------
(***************************************************************************)
(* CIOCPServer: TCP sockets on an I/O completion port.  Several worker     *)
(* threads take completions in any order and turn them into messages; the  *)
(* logic thread drains the message queue and may close sockets itself.     *)
(* The threads share sockStates, the socket pool and the queue.            *)
(*                                                                         *)
(* A step is what one thread does up to its next access to something       *)
(* shared.  at[t] is the place thread t has reached, arg[t] the socket it  *)
(* works on, from[w] the connection whose bytes it holds.                  *)
(* The operating system is external: it completes outstanding operations.  *)
(***************************************************************************)
EXTENDS Integers, FiniteSets, Functions, BagsExt, SequencesExt

CONSTANTS Socket, Worker, Conn,
          NoSocket, NoConn,
          Machines,      \* the sets of sockets and of workers that a behaviour may start with
          EventSets,     \* the sets of events and faults that a behaviour may have
          MaxData,       \* bound: packets the clients send
          MaxCloses      \* bound: sockets the logic thread closes

\* Data: clients send.  RecvError, FirstRecvError: WSARecv fails at once, in PostRecv or in
\* _AcceptProc.  AcceptError: a client gives up before its accept is completed.  PostAcceptError:
\* AcceptEx fails at once.  CloseError: TransmitFile fails.  OverlapReuse: a receive context is reused as soon as it is returned.
\* ServerClose: the logic thread closes sockets.
Event == {"Data", "RecvError", "FirstRecvError", "AcceptError", "PostAcceptError", "CloseError",
          "OverlapReuse", "ServerClose"}

ASSUME NullAssumption == NoSocket \notin Socket /\ NoConn \notin Conn
ASSUME ThreadAssumption == "logic" \notin Worker
ASSUME MachineAssumption ==
    /\ Machines \subseteq [sockets : (SUBSET Socket) \ {{}}, workers : SUBSET Worker]
    /\ \A m \in Machines : IsFiniteSet(m.sockets)
ASSUME EventAssumption == EventSets \subseteq SUBSET Event
ASSUME BoundAssumption == MaxData \in Nat /\ MaxCloses \in Nat

Logic == "logic"
Thread == Worker \cup {Logic}

VARIABLES
    may,           \* what may happen in this behaviour
    isRun,         \* _bIsRun
    pool,          \* socketObjectPool
    sockStates,
    link,          \* link[s]: the connection that the socket carries
    gone,          \* connections whose client has left
    sent, closes,  \* packets sent by clients, closes called by the logic thread
    op, done,      \* bags: operations outstanding, completions not yet taken
    at, arg, from,
    queue,         \* CMessageQueue::_messageQueue
    current,       \* CGameProcessor::_currentQueue
    players,       \* the players the logic thread has created, in order
    closed         \* connections whose end the logic thread has handled

os == <<link, gone, sent>>
threads == <<at, arg, from>>
logic == <<current, players, closed, closes>>
vars == <<may, isRun, pool, sockStates, os, op, done, threads, queue, logic>>

May(e) == e \in may

\* Overlapped operations and their completions.
AcceptOp(s) == [type |-> "ACCEPT", socket |-> s]
RecvOp(s) == [type |-> "TCP_RECV", socket |-> s]
CloseOp(s) == [type |-> "CLOSE", socket |-> s]
Accepted(s, c) == [type |-> "ACCEPT", socket |-> s, conn |-> c]       \* NoConn: it is gone
Received(s, c) == [type |-> "TCP_RECV", socket |-> s, conn |-> c]     \* NoConn: no bytes
Closed(s) == [type |-> "CLOSE", socket |-> s]

\* Messages to the logic thread.  An ACCEPT carries the client's address, a TCP its bytes.
Message == [type : {"ACCEPT", "TCP"}, socket : Socket, conn : Conn]
             \cup [type : {"CLOSE"}, socket : Socket]

Post(m) == queue' = Append(queue, m)
OnClose(s) == Post([type |-> "CLOSE", socket |-> s])

\* Thread t goes on at a place, with the same socket or with none.
Step(t, place) == at' = [at EXCEPT ![t] = place]
Goto(t, place) == Step(t, place) /\ UNCHANGED arg
Leave(t, place) == Step(t, place) /\ arg' = [arg EXCEPT ![t] = NoSocket]

\* Where a thread goes on after PostClose.
Return(t) == Leave(t, IF t = Logic THEN "drain" ELSE "idle")

Init ==
    /\ may \in EventSets /\ isRun = TRUE
    /\ \E m \in Machines :
         /\ \E s \in m.sockets :       \* Run: the first PostAccept
              /\ op = SetToBag({AcceptOp(s)})
              /\ pool = SetToSeq(m.sockets \ {s})
         /\ at = [t \in Thread |-> IF t = Logic THEN "drain"
                                   ELSE IF t \in m.workers THEN "idle" ELSE "unused"]
    /\ sockStates = [s \in Socket |-> FALSE]
    /\ link = [s \in Socket |-> NoConn]
    /\ gone = {} /\ sent = 0 /\ closes = 0
    /\ done = EmptyBag
    /\ arg = [t \in Thread |-> NoSocket]
    /\ from = [w \in Worker |-> NoConn]
    /\ queue = << >> /\ current = << >> /\ players = << >> /\ closed = {}
-----------------------------------------------------------------------------
(* The operating system and the clients. *)

Waiting(c) == c \notin gone /\ \A s \in Socket : link[s] # c

Connect(c, s) ==
    /\ Waiting(c)
    /\ BagIn(AcceptOp(s), op)
    /\ op' = BagRemove(op, AcceptOp(s))
    /\ \/ /\ link' = [link EXCEPT ![s] = c]
          /\ done' = BagAdd(done, Accepted(s, c))
          /\ UNCHANGED gone
       \/ /\ May("AcceptError")
          /\ gone' = gone \cup {c}
          /\ done' = BagAdd(done, Accepted(s, NoConn))
          /\ UNCHANGED link
    /\ UNCHANGED <<may, isRun, pool, sockStates, sent, threads, queue, logic>>

SendData(s) ==
    /\ link[s] \in Conn \ gone
    /\ May("Data") /\ sent < MaxData
    /\ BagIn(RecvOp(s), op)
    /\ op' = BagRemove(op, RecvOp(s))
    /\ done' = BagAdd(done, Received(s, link[s]))
    /\ sent' = sent + 1
    /\ UNCHANGED <<may, isRun, pool, sockStates, link, gone, threads, queue, logic>>

HangUp(s) ==
    /\ link[s] \in Conn \ gone
    /\ gone' = gone \cup {link[s]}
    /\ UNCHANGED <<may, isRun, pool, sockStates, link, sent, op, done, threads, queue, logic>>

\* A receive on a connection that has ended completes without bytes.
RecvEnds(s) ==
    /\ link[s] \in gone
    /\ BagIn(RecvOp(s), op)
    /\ op' = BagRemove(op, RecvOp(s))
    /\ done' = BagAdd(done, Received(s, NoConn))
    /\ UNCHANGED <<may, isRun, pool, sockStates, os, threads, queue, logic>>

\* TransmitFile with TF_REUSE_SOCKET has ended the connection; a receive is aborted with it.
CloseEnds(s) ==
    /\ BagIn(CloseOp(s), op)
    /\ IF BagIn(RecvOp(s), op)
       THEN /\ op' = BagRemove(BagRemove(op, CloseOp(s)), RecvOp(s))
            /\ done' = BagAdd(BagAdd(done, Received(s, NoConn)), Closed(s))
       ELSE /\ op' = BagRemove(op, CloseOp(s))
            /\ done' = BagAdd(done, Closed(s))
    /\ gone' = gone \cup ({link[s]} \ {NoConn})
    /\ link' = [link EXCEPT ![s] = NoConn]
    /\ UNCHANGED <<may, isRun, pool, sockStates, sent, threads, queue, logic>>
-----------------------------------------------------------------------------
(* WorkerThread: GetQueuedCompletionStatus and the handlers it calls. *)

Take(w, d) ==
    /\ at[w] = "idle"
    /\ BagIn(d, done)
    /\ done' = BagRemove(done, d)
    /\ arg' = [arg EXCEPT ![w] = d.socket]

\* _AcceptProc: SO_UPDATE_ACCEPT_CONTEXT fails if the client is gone; the worker then closes
\* the socket and returns.
TakeAccept(w, s, c) ==
    /\ Take(w, Accepted(s, c))
    /\ Step(w, IF c = NoConn THEN "close" ELSE "announce")
    /\ from' = [from EXCEPT ![w] = c]
    /\ UNCHANGED <<may, isRun, pool, sockStates, os, op, queue, logic>>

PostAcceptMessage(w) ==
    /\ at[w] = "announce"
    /\ Post([type |-> "ACCEPT", socket |-> arg[w], conn |-> from[w]])
    /\ Goto(w, "open")
    /\ UNCHANGED <<may, isRun, pool, sockStates, os, op, done, from, logic>>

OpenState(w) ==
    /\ at[w] = "open"
    /\ sockStates' = [sockStates EXCEPT ![arg[w]] = TRUE]
    /\ Goto(w, "firstRecv")
    /\ UNCHANGED <<may, isRun, pool, os, op, done, from, queue, logic>>

\* The receive context popped here may be one that a worker in PostRecv has returned and still
\* reads; that worker then goes on with this socket.
FirstRecv(w) ==
    /\ at[w] = "firstRecv" /\ link[arg[w]] # NoConn
    /\ \E taken \in {v \in Worker : at[v] = "returned" /\ May("OverlapReuse")} \cup {w} :
         arg' = [arg EXCEPT ![taken] = arg[w], ![w] = NoSocket]
    /\ op' = BagAdd(op, RecvOp(arg[w]))
    /\ Step(w, "postAccept")
    /\ from' = [from EXCEPT ![w] = NoConn]
    /\ UNCHANGED <<may, isRun, pool, sockStates, os, done, queue, logic>>

\* Mutant: a failing first receive ends _AcceptProc.
FirstRecvFails_Returns(w) ==
    /\ at[w] = "firstRecv"
    /\ May("FirstRecvError") \/ link[arg[w]] = NoConn
    /\ Leave(w, "idle")
    /\ from' = [from EXCEPT ![w] = NoConn]
    /\ UNCHANGED <<may, isRun, pool, sockStates, os, op, done, queue, logic>>

\* The first receive fails: logged, nothing else.
FirstRecvFails(w) ==
    /\ at[w] = "firstRecv"
    /\ May("FirstRecvError") \/ link[arg[w]] = NoConn
    /\ Leave(w, "postAccept")
    /\ from' = [from EXCEPT ![w] = NoConn]
    /\ UNCHANGED <<may, isRun, pool, sockStates, os, op, done, queue, logic>>

\* The pool makes new sockets when it is empty; here, where they are bounded, the worker waits.
\* AcceptEx fails at once on a socket that is still connected.  Then PostClose follows, the server
\* counts as stopped, and nobody posts another accept.  _bIsRun is read by the main thread alone,
\* now and then (JHNETGameServer.cpp:61), which ends the process: what follows here is what
\* happens until then.
PostAccept(w) ==
    /\ at[w] = "postAccept"
    /\ pool # << >> /\ pool' = Tail(pool)
    /\ LET s == Head(pool)
       IN  \/ /\ link[s] = NoConn
              /\ op' = BagAdd(op, AcceptOp(s)) /\ Leave(w, "idle") /\ UNCHANGED isRun
           \/ /\ May("PostAcceptError") \/ link[s] # NoConn
              /\ Step(w, "close") /\ arg' = [arg EXCEPT ![w] = s]
              /\ isRun' = FALSE /\ UNCHANGED op
    /\ UNCHANGED <<may, sockStates, os, done, from, queue, logic>>

\* _RecvProc.
TakeRecv(w, s, c) ==
    /\ Take(w, Received(s, c))
    /\ Step(w, IF c = NoConn THEN "close" ELSE "data")
    /\ from' = [from EXCEPT ![w] = c]
    /\ UNCHANGED <<may, isRun, pool, sockStates, os, op, queue, logic>>

OnRecvTCP(w) ==
    /\ at[w] = "data"
    /\ Post([type |-> "TCP", socket |-> arg[w], conn |-> from[w]])
    /\ from' = [from EXCEPT ![w] = NoConn]
    /\ Goto(w, "postRecv")
    /\ UNCHANGED <<may, isRun, pool, sockStates, os, op, done, arg, logic>>

\* PostRecv: when WSARecv fails the receive context goes back to its pool before the socket is
\* read from it to be closed.
PostRecv(w) ==
    /\ at[w] = "postRecv"
    /\ \/ link[arg[w]] # NoConn /\ op' = BagAdd(op, RecvOp(arg[w])) /\ Leave(w, "idle")
       \/ /\ May("RecvError") \/ link[arg[w]] = NoConn
          /\ Goto(w, "returned") /\ UNCHANGED op
    /\ UNCHANGED <<may, isRun, pool, sockStates, os, done, from, queue, logic>>

CloseReturned(w) ==
    /\ at[w] = "returned"
    /\ Goto(w, "close")
    /\ UNCHANGED <<may, isRun, pool, sockStates, os, op, done, from, queue, logic>>

\* Mutants: the end is not announced; the socket is pooled before it is.
TakeClose_Silent(w, s) ==
    /\ Take(w, Closed(s))
    /\ Step(w, "pool")
    /\ UNCHANGED <<may, isRun, pool, sockStates, os, op, from, queue, logic>>

TakeClose_PoolFirst(w, s) ==
    /\ Take(w, Closed(s))
    /\ pool' = Append(pool, s)
    /\ Step(w, "note")
    /\ UNCHANGED <<may, isRun, sockStates, os, op, from, queue, logic>>

\* _CloseProc.
TakeClose(w, s) ==
    /\ Take(w, Closed(s))
    /\ OnClose(s)
    /\ Step(w, "pool")
    /\ UNCHANGED <<may, isRun, pool, sockStates, os, op, from, logic>>

PoolSocket(w) ==
    /\ at[w] = "pool"
    /\ pool' = Append(pool, arg[w])
    /\ Leave(w, "idle")
    /\ UNCHANGED <<may, isRun, sockStates, os, op, done, from, queue, logic>>
-----------------------------------------------------------------------------
(* PostClose, on any thread. *)

CheckState(t) ==
    /\ at[t] = "close"
    /\ IF sockStates[arg[t]]
       THEN Goto(t, "transmit") /\ UNCHANGED queue
       ELSE OnClose(arg[t]) /\ Return(t)
    /\ UNCHANGED <<may, isRun, pool, sockStates, os, op, done, from, logic>>

\* Mutant: the state is not reset.
Transmit_NotReset(t) ==
    /\ at[t] = "transmit"
    /\ op' = BagAdd(op, CloseOp(arg[t])) /\ Return(t)
    /\ UNCHANGED <<may, isRun, pool, sockStates, os, done, from, queue, logic>>

Transmit(t) ==
    /\ at[t] = "transmit"
    /\ sockStates' = [sockStates EXCEPT ![arg[t]] = FALSE]
    /\ \/ /\ op' = BagAdd(op, CloseOp(arg[t])) /\ Return(t)
       \/ /\ May("CloseError") /\ UNCHANGED op
          /\ \/ Goto(t, "poolFailed")
             \/ link[arg[t]] \in gone \cup {NoConn} /\ Goto(t, "note")     \* WSAENOTCONN
    /\ UNCHANGED <<may, isRun, pool, os, done, from, queue, logic>>

PoolFailed(t) ==
    /\ at[t] = "poolFailed"
    /\ pool' = Append(pool, arg[t])
    /\ Goto(t, "note")
    /\ UNCHANGED <<may, isRun, sockStates, os, op, done, from, queue, logic>>

NoteClose(t) ==
    /\ at[t] = "note"
    /\ OnClose(arg[t])
    /\ Return(t)
    /\ UNCHANGED <<may, isRun, pool, sockStates, os, op, done, from, logic>>
-----------------------------------------------------------------------------
(* GameLogicThread: takes the queue when it has emptied the one it took before. *)

\* Mutant: the messages are copied, not exchanged.
UpdateQueue_Copied ==
    /\ at[Logic] = "drain" /\ current = << >>
    /\ current' = queue
    /\ UNCHANGED <<may, isRun, pool, sockStates, os, op, done, threads, queue, players, closed, closes>>

UpdateQueue ==
    /\ at[Logic] = "drain" /\ current = << >>
    /\ current' = queue
    /\ queue' = current
    /\ UNCHANGED <<may, isRun, pool, sockStates, os, op, done, threads, players, closed, closes>>

\* GetPlayerBySocket: the place of the first player with the socket, if there is one.
PlayerBySocket(s) == {i \in DOMAIN players : /\ players[i].socket = s
                                            /\ \A j \in 1 .. i - 1 : players[j].socket # s}

Pop == at[Logic] = "drain" /\ current # << >> /\ current' = Tail(current)

OnAcceptMessage ==
    /\ Pop /\ Head(current).type = "ACCEPT"
    /\ players' = Append(players, [socket |-> Head(current).socket, conn |-> Head(current).conn])
    /\ UNCHANGED <<may, isRun, pool, sockStates, os, op, done, threads, queue, closed, closes>>

OnTCPMessage ==
    /\ Pop /\ Head(current).type = "TCP"
    /\ UNCHANGED <<may, isRun, pool, sockStates, os, op, done, threads, queue, players, closed, closes>>

OnCloseMessage ==
    LET found == PlayerBySocket(Head(current).socket)
    IN  /\ Pop /\ Head(current).type = "CLOSE"
        /\ \/ found = {} /\ UNCHANGED <<players, closed>>
           \/ \E p \in found : /\ players' = RemoveAt(players, p)
                               /\ closed' = closed \cup {players[p].conn}
        /\ UNCHANGED <<may, isRun, pool, sockStates, os, op, done, threads, queue, closes>>

\* Handlers and Update close the sockets of players: bytes that make no sense, a failing send,
\* a player that came back on another connection, one that does not answer.
Close(i) ==
    /\ at[Logic] = "drain" /\ May("ServerClose")
    /\ i \in DOMAIN players
    /\ closes < MaxCloses /\ closes' = closes + 1
    /\ Step(Logic, "close") /\ arg' = [arg EXCEPT ![Logic] = players[i].socket]
    /\ UNCHANGED <<may, isRun, pool, sockStates, os, op, done, from, queue, current, players, closed>>

UpdateEnds ==
    /\ at[Logic] = "drain" /\ current = << >>
    /\ Goto(Logic, "swap")
    /\ UNCHANGED <<may, isRun, pool, sockStates, os, op, done, from, queue, logic>>
-----------------------------------------------------------------------------
System == \E s \in Socket : SendData(s) \/ HangUp(s) \/ RecvEnds(s) \/ CloseEnds(s)
                              \/ \E c \in Conn : Connect(c, s)

Handle(w) ==
    \/ \E s \in Socket : \/ \E c \in Conn \cup {NoConn} : TakeAccept(w, s, c) \/ TakeRecv(w, s, c)
                         \/ TakeClose(w, s)
    \/ PostAcceptMessage(w) \/ OpenState(w) \/ FirstRecv(w) \/ FirstRecvFails(w) \/ PostAccept(w)
    \/ OnRecvTCP(w) \/ PostRecv(w) \/ CloseReturned(w) \/ PoolSocket(w)

PostClose(t) == CheckState(t) \/ Transmit(t) \/ PoolFailed(t) \/ NoteClose(t)

GameLogicThread ==
    \/ UpdateQueue \/ OnAcceptMessage \/ OnTCPMessage \/ OnCloseMessage
    \/ \E i \in DOMAIN players : Close(i)

Next == System \/ GameLogicThread \/ \E t \in Thread : PostClose(t) \/ \E w \in Worker : Handle(w)

Spec == Init /\ [][Next]_vars

\* Every thread goes on as long as it can, and the operating system ends what has to end.
Fairness ==
    /\ WF_vars(GameLogicThread \/ PostClose(Logic))
    /\ \A w \in Worker : WF_vars(Handle(w) \/ PostClose(w))
    /\ WF_vars(\E s \in Socket : RecvEnds(s) \/ CloseEnds(s))

FairSpec == Spec /\ Fairness
-----------------------------------------------------------------------------
(* Properties. *)

\* CMessageQueue and the exchange of its queue with _currentQueue are one queue: no message is
\* lost, repeated or overtaken.
Fifo == INSTANCE MessageQueue WITH fifo <- current \o queue
QueueIsFIFO == Fifo!Spec

\* As long as only the receives of a lost connection fail, every connection is announced once,
\* its end is handled once and after it ended, and neither is forgotten.  (With other
\* events this does not hold; the mapping is then constant.)
OnlyClientsLeave == may \subseteq {"Data", "RecvError"}

Line(c) == IF ~OnlyClientsLeave THEN "idle"
           ELSE IF c \in gone THEN "down"
           ELSE IF \E s \in Socket : link[s] = c THEN "up" ELSE "idle"
Served(c) == IF ~OnlyClientsLeave THEN "no"
             ELSE IF c \in closed THEN "done"
             ELSE IF \E i \in DOMAIN players : players[i].conn = c THEN "yes" ELSE "no"

Promise == INSTANCE Connections WITH line <- [c \in Conn |-> Line(c)],
                                     served <- [c \in Conn |-> Served(c)]
ConnectionsInOrder == Promise!Spec
ConnectionsServed == Promise!FairSpec

\* Unless a client gave up while it was accepted, the server goes on accepting, or says that it
\* does not: exactly one accept is outstanding, completed, or in the hands of a worker that will
\* post the next, until _bIsRun is reset, which happens only if AcceptEx fails by itself or
\* because one of the faults put a socket into the pool that is still connected.
Accepting(w) == at[w] \in {"announce", "open", "firstRecv", "postAccept"}
Accepts(b) == {x \in DOMAIN b : x.type = "ACCEPT"}
Copies(b, S) == UNION {{<<x, n>> : n \in 1 .. b[x]} : x \in S}
AcceptCount == Cardinality(Copies(op, Accepts(op))) + Cardinality(Copies(done, Accepts(done)))
                 + Cardinality({w \in Worker : Accepting(w)})
AlwaysAccepting ==
    /\ "AcceptError" \notin may => AcceptCount = 1 \/ ~isRun
    /\ may \cap {"PostAcceptError", "ServerClose", "CloseError", "OverlapReuse"} = {} => isRun

\* Unless two threads can close at once, a close can fail, or a receive context can be reused too
\* early, a socket in the pool is there once, counts as closed, carries no connection, and nothing
\* that is outstanding, completed or being handled refers to it.
PoolIsClean ==
    may \cap {"ServerClose", "CloseError", "OverlapReuse"} = {} =>
        /\ IsInjective(pool)
        /\ \A i \in DOMAIN pool :
             /\ ~sockStates[pool[i]] /\ link[pool[i]] = NoConn
             /\ \A x \in DOMAIN op \cup DOMAIN done : x.socket # pool[i]
             /\ \A w \in Worker : arg[w] # pool[i]

\* Under the same condition the bytes of a client are given to the player of that client.
DataReachesOwner ==
    [][may \cap {"ServerClose", "CloseError", "OverlapReuse"} = {} =>
         (OnTCPMessage => \E p \in PlayerBySocket(Head(current).socket) :
                            players[p].conn = Head(current).conn)]_vars
=============================================================================
