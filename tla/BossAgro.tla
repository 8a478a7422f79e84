------------------------------ MODULE BossAgro --------------------------------
(***************************************************************************)
(* Whom the boss goes for (MilitaryBossAI.cpp, HACKED_AI.cpp): the hero    *)
(* that has hurt it more, until that one has been on the ground for a      *)
(* while.  Each client keeps gauges and a timer of its own; the gauges of  *)
(* the master alone are fed, and its choice alone counts.                  *)
(***************************************************************************)
EXTENDS Naturals, Sequences

CONSTANTS NearHits,                        \* blows of the Crusher before the boss goes for the nearest hero
          MaxGauge, MaxInputs, MaxMoves    \* bounds: a gauge; hits and falls together; changes of the master

BossAgroAssumption == {NearHits, MaxGauge, MaxInputs, MaxMoves} \subseteq Nat

Client == {0, 1}
Other(c) == 1 - c
Hero == {"crusher", "esper"}
Not(h) == CHOOSE g \in Hero : g # h

VARIABLES
    agro,      \* agro[c]: what client c keeps
    seat,      \* seat[h]: the client that plays hero h
    master,    \* the client in seat 0
    down,      \* the hero on the ground, if any (with both the game is over)
    chan,      \* chan[c]: calls on their way to client c
    inputs, moves,
    periods, blows   \* of the present fall: times it was waited out; hits heard of (history)

vars == <<agro, seat, master, down, chan, inputs, moves, periods, blows>>

\* delay, timer, reset: bChangeTargetDelay, ChangeToTargetHandle, bDieAgroReset; count, near:
\* crusherAgroCount, changeToNearTarget.
New == [gauge |-> [h \in Hero |-> IF h = "crusher" THEN 1 ELSE 0], delay |-> TRUE, timer |-> FALSE,
        reset |-> FALSE, count |-> 0, near |-> FALSE]

Init ==
    /\ agro = [c \in Client |-> New] /\ seat \in {[h \in Hero |-> IF h = g THEN 0 ELSE 1] : g \in Hero}
    /\ master = 0 /\ down = {} /\ chan = [c \in Client |-> << >>]
    /\ inputs = 0 /\ moves = 0 /\ periods = 0 /\ blows = 0
-----------------------------------------------------------------------------
Ahead(w) == IF w.gauge["esper"] > w.gauge["crusher"] THEN "esper" ELSE "crusher"

\* It has just fallen: it stays the target for two seconds.
Fallen(w) == Ahead(w) \in down /\ w.delay

\* The time is over: the other one is the target (Target), and the gauge of this one is cleared.
Drops(w) == ~Fallen(w) /\ w.reset
Target(w) == IF Drops(w) THEN Not(Ahead(w)) ELSE Ahead(w)

\* Mutant: a hero that stands again is not waited for at its next fall.
Standing_Forgotten(w) == [w EXCEPT !.reset = FALSE]
Standing(w) == [w EXCEPT !.reset = FALSE, !.delay = TRUE]

RefreshAgroPlayer(w) ==
    LET h == Ahead(w)  cleared == [w EXCEPT !.gauge[h] = 0] IN
    IF Fallen(w) THEN [w EXCEPT !.delay = FALSE, !.timer = TRUE]
    ELSE IF ~w.reset THEN w
    ELSE IF h \in down THEN cleared ELSE Standing(cleared)

\* By the service of the master's tree, its bullets and missiles; on the other client when an attack begins.
Refresh(c) ==
    /\ agro' = [agro EXCEPT ![c] = RefreshAgroPlayer(@)]
    /\ periods' = IF c = master /\ Fallen(agro[c]) THEN periods + 1 ELSE periods
    /\ UNCHANGED <<seat, master, down, chan, inputs, moves, blows>>

DieAgroReset(c) ==
    /\ agro[c].timer /\ agro' = [agro EXCEPT ![c].timer = FALSE, ![c].reset = TRUE]
    /\ UNCHANGED <<seat, master, down, chan, inputs, moves, periods, blows>>
-----------------------------------------------------------------------------
Input == inputs < MaxInputs /\ inputs' = inputs + 1

RPCAddAgro(w, h) == [w EXCEPT !.gauge[h] = IF @ < MaxGauge THEN @ + 1 ELSE @]

\* A hero hits the boss.  The Crusher's blows, if his client is the master, turn it to the nearest hero.
TakeDamage(h) ==
    LET c == seat[h]
        counts == h = "crusher" /\ c = master
        angry == counts /\ agro[c].count >= NearHits
        hurt == [agro[c] EXCEPT !.count = IF counts /\ @ < NearHits THEN @ + 1 ELSE @, !.near = @ \/ angry]
    IN  /\ Input
        /\ agro' = [agro EXCEPT ![c] = IF c = master THEN RPCAddAgro(hurt, h) ELSE hurt]
        /\ chan' = [chan EXCEPT ![Other(c)] = @ \o (IF angry THEN <<"near">> ELSE IF c # master THEN <<h>> ELSE << >>)]
        /\ blows' = IF c = master THEN blows + 1 ELSE blows
        /\ UNCHANGED <<seat, master, down, moves, periods>>

Recv(c) ==
    /\ chan[c] # << >> /\ chan' = [chan EXCEPT ![c] = Tail(@)]
    /\ agro' = [agro EXCEPT ![c] = IF Head(chan[c]) = "near" THEN [@ EXCEPT !.near = TRUE]
                                   ELSE IF c = master THEN RPCAddAgro(@, Head(chan[c])) ELSE @]
    /\ blows' = IF Head(chan[c]) \in Hero THEN blows + 1 ELSE blows
    /\ UNCHANGED <<seat, master, down, inputs, moves, periods>>

\* The service finds the nearest hero out of reach.
NearestFar ==
    /\ agro[master].near /\ agro' = [agro EXCEPT ![master].near = FALSE]
    /\ UNCHANGED <<seat, master, down, chan, inputs, moves, periods, blows>>

\* A hero falls, or stands up again.
Fall(h) ==
    /\ Input /\ down = {} /\ down' = {h} /\ periods' = 0 /\ blows' = 0
    /\ UNCHANGED <<agro, seat, master, chan, moves>>
Rise ==
    /\ down # {} /\ down' = {}
    /\ UNCHANGED <<agro, seat, master, chan, inputs, moves, periods, blows>>

\* The master is lost, with what is on its way, and comes back as the slave.
OnSlotChange ==
    /\ moves < MaxMoves /\ moves' = moves + 1
    /\ master' = Other(master) /\ chan' = [c \in Client |-> << >>]
    /\ UNCHANGED <<agro, seat, down, inputs, periods, blows>>

Next ==
    \/ \E h \in Hero : TakeDamage(h) \/ Fall(h)
    \/ \E c \in Client : Refresh(c) \/ DieAgroReset(c) \/ Recv(c)
    \/ NearestFar \/ Rise \/ OnSlotChange

Spec == Init /\ [][Next]_vars
-----------------------------------------------------------------------------
\* The boss waits before a hero that lies on the ground twice at most, and once more for every hit it hears
\* of: a gauge of the other one that is not empty is cleared first, with the fallen as the target
\* (MilitaryBossAI.cpp:252-259).  What the choice waits for comes, on each client.
SparesFallen ==
    /\ moves = 0 => periods <= 2 + blows
    /\ \A c \in Client : LET w == agro[c] IN
         \/ w.delay /\ ~w.timer /\ ~w.reset
         \/ ~w.delay /\ w.timer # w.reset

(* Why it does (proved in GameProofs). *)
Agro == [gauge : [Hero -> Nat], delay : BOOLEAN, timer : BOOLEAN, reset : BOOLEAN, count : Nat, near : BOOLEAN]

Typed ==
    /\ agro \in [Client -> Agro] /\ seat \in [Hero -> Client] /\ master \in Client
    /\ chan \in [Client -> Seq(Hero \cup {"near"})]
    /\ down = {} \/ \E h \in Hero : down = {h}
    /\ {moves, periods, blows} \subseteq Nat

\* What the choice waits for comes.
Waits(w) == (w.delay /\ ~w.timer /\ ~w.reset) \/ (~w.delay /\ w.timer # w.reset)

\* How often the fallen hero h may still be waited for when nothing more is heard of: now, if it may be
\* ahead, and again when the gauge of the other one has been cleared.
One(b) == IF b THEN 1 ELSE 0
MayLead(w, h) == h = "crusher" \/ w.gauge[h] > 0
Left(w, h) ==
    LET again == w.gauge[Not(h)] > 0 IN
    IF w.delay THEN One(MayLead(w, h)) + One(again) ELSE One(MayLead(w, h) /\ again)

AgroInv ==
    /\ Typed
    /\ \A c \in Client : Waits(agro[c])
    /\ moves = 0 => periods <= 2 + blows /\ \A h \in down : periods + Left(agro[master], h) <= 2 + blows
=============================================================================
