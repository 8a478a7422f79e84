------------------------------ MODULE Transforms ------------------------------
(***************************************************************************)
(* How an actor that one client moves is shown by the other one            *)
(* (UNetworkTransformCP).  The client with authority sends a location when *)
(* it is farther than a gap from the last one sent, once and by UDP: the   *)
(* datagram may be lost or late on either side of the server, which relays *)
(* it by TCP to a player whose UDP address it does not know.  The other    *)
(* client leads its actor there, or puts it there when it is far.          *)
(*                                                                         *)
(* The axes are alike: a place is a number.  Rotations go the same way,    *)
(* except that they are never put; the view is put at once.                *)
(***************************************************************************)
EXTENDS Integers, Sequences

CONSTANTS Kinds,          \* "location", "rotation", "control"
          Places,         \* where an actor moves to
          Gap,            \* what is not sent: sendLocationGab
          Limit,          \* from where it is put there at once: teleportLimit
          Steps,          \* parts of interporationSpeed
          MaxMoves,       \* bound: moves
          MaxThrows       \* bound: throws

TransformsAssumption ==
    /\ Kinds \subseteq {"location", "rotation", "control"} /\ Places \subseteq Int
    /\ Gap \in Nat /\ Limit \in Nat /\ Steps \in Nat \ {0}

VARIABLES
    kind,
    mover,      \* the actor on the client that has authority
    shadow,     \* the actor on the other one
    up,         \* datagrams on their way to the server
    down,       \* datagrams on their way from the server
    relayed,    \* what the server has relayed by TCP
    last,       \* the number of the last datagram
    moves, throws

vars == <<kind, mover, shadow, up, down, relayed, last, moves, throws>>

Distance(a, b) == IF a < b THEN b - a ELSE a - b

\* saved: the last place sent, and where the way to recv begins.  seen: the last place the actor
\* was led to, by its number, or 0 when it was thrown or held since.
Init ==
    /\ kind \in Kinds
    /\ \E at \in Places :
         /\ mover = [at |-> at, saved |-> 0, on |-> TRUE]
         /\ shadow = [at |-> at, saved |-> 0, recv |-> at, moving |-> FALSE, time |-> 0, on |-> TRUE,
                      seen |-> 0]
    /\ up = {} /\ down = {} /\ relayed = << >>
    /\ last = 0 /\ moves = 0 /\ throws = 0
-----------------------------------------------------------------------------
(* The client that moves it. *)

Move ==
    /\ moves < MaxMoves /\ moves' = moves + 1
    /\ \E at \in Places \ {mover.at} : mover' = [mover EXCEPT !.at = at]
    /\ UNCHANGED <<kind, shadow, up, down, relayed, last, throws>>

Tick ==
    /\ mover.on /\ Distance(mover.at, mover.saved) > Gap
    /\ mover' = [mover EXCEPT !.saved = mover.at]
    /\ last' = last + 1
    /\ up' = up \cup {[number |-> last + 1, at |-> mover.at]}
    /\ UNCHANGED <<kind, shadow, down, relayed, moves, throws>>
-----------------------------------------------------------------------------
(* The server. *)

\* The address of the receiver is known or not.
SendToOtherMember(packet) ==
    \/ down' = down \cup {packet} /\ UNCHANGED relayed
    \/ relayed' = Append(relayed, packet) /\ UNCHANGED down

InGame_RPC ==
    /\ \E packet \in up : up' = up \ {packet} /\ SendToOtherMember(packet)
    /\ UNCHANGED <<kind, mover, shadow, last, moves, throws>>

\* Also one of a sender that the server does not know.
Lose ==
    /\ \/ \E packet \in up : up' = up \ {packet} /\ UNCHANGED down
       \/ \E packet \in down : down' = down \ {packet} /\ UNCHANGED up
    /\ UNCHANGED <<kind, mover, shadow, relayed, last, moves, throws>>
-----------------------------------------------------------------------------
(* The other client. *)

\* From here to there in the next moments.
Lead(w, place) == [w EXCEPT !.saved = w.at, !.recv = place, !.moving = TRUE, !.time = 0]

\* Mutant: an actor that is put somewhere goes on to where it was led before.
RPCSyncLocation_KeepsWay(w, place) ==
    IF Distance(place, w.at) >= Limit
    THEN [w EXCEPT !.at = place, !.saved = place, !.moving = TRUE, !.time = 0]
    ELSE Lead(w, place)

RPCSyncLocation(w, place) ==
    IF Distance(place, w.at) >= Limit THEN Lead([w EXCEPT !.at = place], place) ELSE Lead(w, place)

RPCSyncRotation(w, place) == Lead(w, place)

RPCSyncControlRotation(w, place) == [w EXCEPT !.at = place]

Received(packet) ==
    LET w == [shadow EXCEPT !.seen = packet.number]
    IN  CASE kind = "location" -> RPCSyncLocation(w, packet.at)
          [] kind = "rotation" -> RPCSyncRotation(w, packet.at)
          [] kind = "control" -> RPCSyncControlRotation(w, packet.at)

RecvUDP ==
    /\ \E packet \in down : down' = down \ {packet} /\ shadow' = Received(packet)
    /\ UNCHANGED <<kind, mover, up, relayed, last, moves, throws>>

RecvTCP ==
    /\ relayed # << >> /\ relayed' = Tail(relayed) /\ shadow' = Received(Head(relayed))
    /\ UNCHANGED <<kind, mover, up, down, last, moves, throws>>

\* It stays where it is.
Hold(w) == [w EXCEPT !.saved = w.at, !.recv = w.at, !.seen = 0]

\* The way ends with the first tick after its time.
Led(w, delta) ==
    LET time == IF w.time + delta > Steps THEN Steps ELSE w.time + delta
    IN  [w EXCEPT !.time = time, !.moving = w.time + delta <= Steps,
                  !.at = w.saved + ((w.recv - w.saved) * time) \div Steps]

_UpdateTransform ==
    /\ kind # "control"
    /\ IF ~shadow.on THEN shadow' = Hold(shadow)
       ELSE shadow.moving /\ \E delta \in 1 .. Steps + 1 : shadow' = Led(shadow, delta)
    /\ UNCHANGED <<kind, mover, up, down, relayed, last, moves, throws>>
-----------------------------------------------------------------------------
(* A blow throws the actor, on each client on its own: it is not synchronized for a while. *)

PlayDisableSyncTimer ==
    /\ kind = "location" /\ throws < MaxThrows /\ throws' = throws + 1
    /\ \E place \in Places :
         \/ mover' = [mover EXCEPT !.at = place, !.on = FALSE] /\ UNCHANGED shadow
         \/ shadow' = [shadow EXCEPT !.at = place, !.on = FALSE, !.seen = 0] /\ UNCHANGED mover
    /\ UNCHANGED <<kind, up, down, relayed, last, moves>>

_OnDisableSyncEnd ==
    /\ \/ ~mover.on /\ mover' = [mover EXCEPT !.on = TRUE] /\ UNCHANGED shadow
       \/ ~shadow.on /\ shadow' = [shadow EXCEPT !.on = TRUE] /\ UNCHANGED mover
    /\ UNCHANGED <<kind, up, down, relayed, last, moves, throws>>

Next ==
    \/ Move \/ Tick \/ InGame_RPC \/ Lose \/ RecvUDP \/ RecvTCP
    \/ _UpdateTransform \/ PlayDisableSyncTimer \/ _OnDisableSyncEnd

Spec == Init /\ [][Next]_vars
-----------------------------------------------------------------------------
\* Both clients have done what they do by themselves.
Quiet ==
    /\ mover.on /\ Distance(mover.at, mover.saved) <= Gap
    /\ shadow.on /\ ~shadow.moving

\* Whatever was lost, late or overtaken before: when the last place that was sent is the last one
\* that arrived, and the actor was not thrown since, it comes to stand where its client has it.
\* (When that one is lost or overtaken, it stands elsewhere until it is moved again.)
Follows == Quiet /\ last > 0 /\ shadow.seen = last => Distance(shadow.at, mover.at) <= Gap
=============================================================================
