----------------------------- MODULE Replication -----------------------------
(***************************************************************************)
(* Replication of the objects of a game on the machines of its players:    *)
(* SyncVars, written by the machine that has authority over the object,    *)
(* and RPCs.  A message for an object that does not play yet, or whose     *)
(* synchronisation is stopped, is saved and tried again                    *)
(* (AInGameNetworkProcessor, UNetworkBaseCP).                              *)
(*                                                                         *)
(* The server relays in order what is sent by TCP.  A SyncVar sent to it   *)
(* by UDP may be lost or late, and it relays it by TCP.  An object has one *)
(* SyncVar; its value is the number of the write.  A machine is a record,  *)
(* and a handler maps it to the next one.                                  *)
(***************************************************************************)
EXTENDS Integers, SequencesExt

CONSTANTS Object,
          EventSets,        \* the sets of events that a behaviour may have
          MaxWrites,        \* bound: writes of SyncVars
          MaxCalls          \* bound: RPCs

Slot == {0, 1}              \* MAX_PLAYER = 2; slot 0 is the master
Other(m) == 1 - m

\* Authority: the master hands an object to the slave.  Destroy: it destroys one.
\* StopSync: a machine stops the synchronisation of an object for some time.
\* Late: an object begins to play on one machine after the other.  Timeout: a message
\* stays saved for MAX_SAVED_TIME.  Unreliable: SyncVars may be sent by UDP.
Event == {"Authority", "Destroy", "StopSync", "Late", "Timeout", "Unreliable"}
ReplicationAssumption == EventSets \subseteq {e \in SUBSET Event : ~{"Late", "Destroy"} \subseteq e}

VARIABLES may, machine, tcp, udp, writes, calls

vars == <<may, machine, tcp, udp, writes, calls>>

\* begun: objects registered and playing.  stopped: with _bOnSync off.  authority: the
\* _authorityId of each.  player: with isPlayerAuthority.  saved: _savedList.
\* odd: whether an RPC of the authority has met other values than it was called with.
Init ==
    /\ may \in EventSets
    /\ machine \in [Slot -> [begun : IF "Late" \in may THEN SUBSET Object ELSE {Object},
                             stopped : {{}}, player : {{}}, odd : {FALSE}, saved : {<< >>},
                             value : {[o \in Object |-> 0]}, authority : {[o \in Object |-> 0]}]]
    /\ tcp = [m \in Slot |-> << >>]
    /\ udp = [m \in Slot |-> {}]
    /\ writes = 0 /\ calls = 0

HasAuthority(m, w, o) == w.authority[o] = m
-----------------------------------------------------------------------------
(* Handlers. *)

\* Mutant: the master never accepts one.
RecvSyncVar_SlaveOnly(m, w, msg) == IF m = 0 THEN w ELSE [w EXCEPT !.value[msg.object] = msg.arg]

\* Who writes an object does not accept a value for it.
RecvSyncVar(m, w, msg) ==
    IF IF msg.object \in w.player THEN HasAuthority(m, w, msg.object) ELSE m = 0
    THEN w ELSE [w EXCEPT !.value[msg.object] = msg.arg]

SetAuthorityBody(w, o, slot) == [w EXCEPT !.player = @ \cup {o}, !.authority[o] = slot]

AddObject(w, o) == [w EXCEPT !.begun = @ \cup {o}]
RemoveObject(w, o) == [w EXCEPT !.begun = @ \ {o}]

\* Destroy() ends play, which removes the object.
DestroyBody(w, o) == RemoveObject(w, o)

\* The argument of an ordinary RPC is the value of the SyncVar where it was called, or -1
\* when its caller is not the authority.
Body(w, msg) == [w EXCEPT !.odd = @ \/ msg.arg \notin {-1, w.value[msg.object]}]

Execute(m, w, msg) ==
    [ sync |-> RecvSyncVar(m, w, msg), call |-> Body(w, msg), destroy |-> DestroyBody(w, msg.object),
      authority |-> SetAuthorityBody(w, msg.object, msg.arg) ][msg.kind]

Reaches(w, msg) == msg.object \in w.begun \ w.stopped

\* InGame_RPC and InGame_SyncVar try a message at once, whatever is saved before it.
SendToObject(m, w, msg) ==
    IF Reaches(w, msg) THEN Execute(m, w, msg) ELSE [w EXCEPT !.saved = Append(@, msg)]

\* The saved messages of some objects are tried again, in their order.
Retry(m, w, objects) ==
    LET Try(v, msg) == IF msg.object \in objects THEN SendToObject(m, v, msg)
                       ELSE [v EXCEPT !.saved = Append(@, msg)]
        tried[i \in 0 .. Len(w.saved)] ==
            IF i = 0 THEN [w EXCEPT !.saved = << >>] ELSE Try(tried[i - 1], w.saved[i])
    IN  tried[Len(w.saved)]

\* Mutant: what was saved waits for the next tick.
EnableSync_NotForced(m, w, o) == [w EXCEPT !.stopped = @ \ {o}]

EnableSync(m, w, o) == Retry(m, [w EXCEPT !.stopped = @ \ {o}], {o})
-----------------------------------------------------------------------------
(* Steps of the main thread of machine m. *)

Msg(kind, o, arg) == [kind |-> kind, object |-> o, arg |-> arg]

Send(m, msgs) == tcp' = [tcp EXCEPT ![Other(m)] = @ \o msgs]

SetSyncVar(m, o) ==
    /\ o \in machine[m].begun /\ HasAuthority(m, machine[m], o)
    /\ writes < MaxWrites /\ writes' = writes + 1
    /\ machine' = [machine EXCEPT ![m].value[o] = writes + 1]
    /\ \/ Send(m, <<Msg("sync", o, writes + 1)>>) /\ UNCHANGED udp
       \/ /\ "Unreliable" \in may
          /\ udp' = [udp EXCEPT ![Other(m)] = @ \cup {Msg("sync", o, writes + 1)}]
          /\ UNCHANGED tcp
    /\ UNCHANGED <<may, calls>>

Arg(m, o) == IF HasAuthority(m, machine[m], o) THEN machine[m].value[o] ELSE -1

\* A multicast RPC is sent before it runs here: what it writes itself is sent after it, like a
\* later write.
Multicast(m, o) ==
    /\ o \in machine[m].begun
    /\ calls < MaxCalls /\ calls' = calls + 1
    /\ Send(m, <<Msg("call", o, Arg(m, o))>>)
    /\ UNCHANGED <<may, machine, udp, writes>>

\* An RPC to the master runs there only; the server drops what the master sends to itself.
CallMaster(m, o) ==
    /\ o \in machine[m].begun
    /\ m # 0 /\ calls < MaxCalls /\ calls' = calls + 1
    /\ Send(m, <<Msg("call", o, Arg(m, o))>>)
    /\ UNCHANGED <<may, machine, udp, writes>>

SetAuthority(o) ==
    /\ "Authority" \in may
    /\ o \in machine[0].begun \ machine[0].player
    /\ \E slot \in Slot :
         /\ machine' = [machine EXCEPT ![0] = SetAuthorityBody(@, o, slot)]
         /\ Send(0, <<Msg("authority", o, slot)>>)
    /\ UNCHANGED <<may, udp, writes, calls>>

NetworkDestroy(o) ==
    /\ "Destroy" \in may /\ o \in machine[0].begun
    /\ machine' = [machine EXCEPT ![0] = DestroyBody(@, o)]
    /\ Send(0, <<Msg("destroy", o, 0)>>)
    /\ UNCHANGED <<may, udp, writes, calls>>

BeginPlay(m, o) ==
    /\ "Late" \in may /\ o \notin machine[m].begun
    /\ machine' = [machine EXCEPT ![m] = AddObject(@, o)]
    /\ UNCHANGED <<may, tcp, udp, writes, calls>>

PlayStopSyncTime(m, o) ==
    /\ "StopSync" \in may /\ o \in machine[m].begun \ machine[m].stopped
    /\ machine' = [machine EXCEPT ![m].stopped = @ \cup {o}]
    /\ UNCHANGED <<may, tcp, udp, writes, calls>>

\* The timer, or the game before it.
OnStopSyncEnd(m, o) ==
    /\ o \in machine[m].begun \cap machine[m].stopped
    /\ machine' = [machine EXCEPT ![m] = EnableSync(m, @, o)]
    /\ UNCHANGED <<may, tcp, udp, writes, calls>>

RecvTCP(m) ==
    /\ tcp[m] # << >>
    /\ machine' = [machine EXCEPT ![m] = SendToObject(m, @, Head(tcp[m]))]
    /\ tcp' = [tcp EXCEPT ![m] = Tail(@)]
    /\ UNCHANGED <<may, udp, writes, calls>>

\* The server relays a datagram: it may come before what the client has sent earlier by TCP.
RelaySyncVar(m) ==
    /\ \E msg \in udp[m], i \in 1 .. Len(tcp[m]) + 1 :
         /\ udp' = [udp EXCEPT ![m] = @ \ {msg}]
         /\ tcp' = [tcp EXCEPT ![m] = InsertAt(@, i, msg)]
    /\ UNCHANGED <<may, machine, writes, calls>>

LoseUDP(m) ==
    /\ \E msg \in udp[m] : udp' = [udp EXCEPT ![m] = @ \ {msg}]
    /\ UNCHANGED <<may, machine, tcp, writes, calls>>

\* The first n saved messages are too old.
Tick(m) ==
    /\ \E n \in 0 .. Len(machine[m].saved) :
         /\ n > 0 => "Timeout" \in may
         /\ machine' = [machine EXCEPT ![m] =
                Retry(m, [machine[m] EXCEPT !.saved = SubSeq(@, n + 1, Len(@))], Object)]
    /\ UNCHANGED <<may, tcp, udp, writes, calls>>

Next ==
    \/ \E m \in Slot :
         \/ RecvTCP(m) \/ RelaySyncVar(m) \/ LoseUDP(m) \/ Tick(m)
         \/ \E o \in Object : \/ SetSyncVar(m, o) \/ Multicast(m, o) \/ CallMaster(m, o)
                              \/ BeginPlay(m, o) \/ PlayStopSyncTime(m, o) \/ OnStopSyncEnd(m, o)
    \/ \E o \in Object : SetAuthority(o) \/ NetworkDestroy(o)

Spec == Init /\ [][Next]_vars
-----------------------------------------------------------------------------
Pending(m) == Range(tcp[m] \o machine[m].saved)

Kept == may \cap {"Late", "Timeout"} = {}
Ordered == Kept /\ "Unreliable" \notin may

\* As long as every object plays on both machines, nothing is saved for too long and SyncVars
\* are sent by TCP: an RPC of the authority runs with the values it was called with, also when
\* synchronisation was stopped in between.
CallsSeeTheirState == Ordered => \A m \in Slot : ~machine[m].odd

\* Also when SyncVars are sent by UDP, the machines never both have authority over an object, and
\* when nothing is under way they agree on who has it; on its value when they are sent by TCP.
Converges ==
    Kept =>
        \A o \in machine[0].begun \cap machine[1].begun :
            /\ \E m \in Slot : ~HasAuthority(m, machine[m], o)
            /\ (\A m \in Slot : \A msg \in Pending(m) : msg.object # o) =>
                   /\ machine[0].authority[o] = machine[1].authority[o]
                   /\ Ordered => machine[0].value[o] = machine[1].value[o]
=============================================================================
