------------------------------ MODULE EnemyMind ------------------------------
(***************************************************************************)
(* What stops and restarts an enemy on the two clients (HACKED_AI.cpp,     *)
(* MilitarySoldierAI.cpp, MilitaryNamedAI.cpp, AIAllStopTool of            *)
(* HACKEDTool.cpp and the behaviour tree tasks).  Its mind runs on the     *)
(* client in seat 0; hits, stuns, pushes and the Esper's ultimate each     *)
(* stop it and restart it with one flag between them, while animations go  *)
(* on at both clients.  The module follows one enemy until it dies.        *)
(***************************************************************************)
EXTENDS Naturals, Sequences

CONSTANTS MaxInputs, MaxMoves   \* bounds: hits, pushes and attacks together; changes of the master

MindAssumption == {MaxInputs, MaxMoves} \subseteq Nat

Client == {0, 1}
Other(c) == 1 - c
Kind == {"soldier", "named"}

VARIABLES
    kind,
    ai,        \* ai[c]: the enemy on client c
    master,    \* the client in seat 0
    chan,      \* chan[c]: calls on their way to client c
    inputs, moves,
    orphan,    \* the new master took over a stopped mind with nothing to restart it (history)
    adopted    \* the new master took over an attack that its mind knows nothing of (history)

vars == <<kind, ai, master, chan, inputs, moves, orphan, adopted>>

\* hit, rigid: the animations of being hit and of being stunned; launch: it is being pushed;
\* stun: the Esper's force will hit it again; held: her ultimate holds it; long, short: its
\* attacks, and done: a long one has ended; brain, task: its mind runs, with a task; saved: the
\* end of a short attack is told to the mind; on: _bOnAI.
Init ==
    /\ kind \in Kind
    /\ ai = [c \in Client |->
             [brain |-> c = 0, on |-> TRUE, task |-> "none", saved |-> FALSE,
              hit |-> FALSE, rigid |-> FALSE, canHit |-> TRUE, canRigid |-> TRUE,
              launch |-> FALSE, stun |-> FALSE, held |-> "no",
              long |-> FALSE, short |-> FALSE, done |-> FALSE, die |-> FALSE]]
    /\ master = 0 /\ chan = [c \in Client |-> << >>]
    /\ inputs = 0 /\ moves = 0
    /\ orphan = FALSE /\ adopted = FALSE
-----------------------------------------------------------------------------
\* What calls do to the enemy w of client c.
StateReset(w) == [w EXCEPT !.long = FALSE, !.short = FALSE]

AIDisable(c, w) ==
    IF c # master THEN w
    ELSE [StateReset(w) EXCEPT !.brain = FALSE, !.task = "none", !.on = FALSE]

AIRestart(c, w) ==
    IF c # master THEN w
    ELSE [StateReset(w) EXCEPT !.brain = TRUE, !.task = "none", !.on = TRUE]

MayBeHit(w) ==
    w.canHit /\ ~w.hit /\ (IF kind = "soldier" THEN ~w.rigid ELSE w.canRigid)

BeHitAnimation(c, w) ==
    IF ~MayBeHit(w) THEN w
    ELSE AIDisable(c, [StateReset(w) EXCEPT !.hit = TRUE, !.canHit = FALSE])

MayBeStunned(w) == w.canRigid /\ ~w.rigid
RigidityAI(c, w) ==
    IF ~MayBeStunned(w) THEN w
    ELSE AIDisable(c, [StateReset(w) EXCEPT !.rigid = TRUE, !.canRigid = FALSE])

\* Mutant: the end of a push restarts nothing.
LaunchEnds_Asleep(c, w) == [w EXCEPT !.launch = FALSE]
LaunchEnds(c, w) == AIRestart(c, [w EXCEPT !.launch = FALSE])
HACKEDLaunchCharacter(c, w) == AIDisable(c, [w EXCEPT !.launch = TRUE])

DieProcess(c, w) ==
    IF w.die THEN w ELSE AIDisable(c, [StateReset(w) EXCEPT !.die = TRUE])

\* The call made on c is sent, and once more from inside unless it is refused.
BeHitCalls(w) == IF MayBeHit(w) THEN <<"BeHit", "BeHit">> ELSE <<"BeHit">>
StunCalls(w) == IF MayBeStunned(w) THEN <<"Stun", "Stun">> ELSE <<"Stun">>

\* Client c goes on with the enemy w after the calls msgs; a change of _bOnAI follows them.
Become(c, w, msgs) ==
    /\ ai' = [ai EXCEPT ![c] = w]
    /\ orphan' = (orphan /\ ~(c = master /\ w.brain))
    /\ chan' = [chan EXCEPT ![Other(c)] = @ \o msgs \o
                  (IF w.on = ai[c].on THEN << >> ELSE <<IF w.on THEN "On" ELSE "Off">>)]

-----------------------------------------------------------------------------
Input == inputs < MaxInputs /\ inputs' = inputs + 1

\* The hero of client c hits the enemy, which may stun it, show a hit, or kill it.
TakeDamage(c) ==
    /\ Input /\ ~ai[c].die
    /\ \E effect \in {"stun", "hit", "none"}, dies \in BOOLEAN :
        LET w == ai[c]
            stuns == effect = "stun" /\ w.canRigid
            hurt == IF stuns THEN RigidityAI(c, w) ELSE IF effect = "hit" THEN BeHitAnimation(c, w) ELSE w
            calls == IF stuns THEN StunCalls(w) ELSE IF effect = "hit" THEN BeHitCalls(w) ELSE << >>
        IN  Become(c, IF dies THEN DieProcess(c, hurt) ELSE hurt, IF dies THEN Append(calls, "Die") ELSE calls)
    /\ UNCHANGED <<kind, master, moves, adopted>>

\* The Crusher's rush and the Esper's force push the enemy on each client by itself; her force
\* shows a hit later.
Push(c) ==
    /\ Input /\ ~ai[c].die
    /\ \E force \in BOOLEAN :
        Become(c, HACKEDLaunchCharacter(c, [ai[c] EXCEPT !.stun = @ \/ force]), << >>)
    /\ UNCHANGED <<kind, master, moves, adopted>>

\* While the Esper hovers in her ultimate she stops the enemies around her, at every tick.
PsychicOverDrive(c) ==
    /\ ~ai[c].die
    /\ \/ ai[c].held = "no" /\ Input
       \/ ai[c].held = "hover" /\ (ai[c].brain \/ ai[c].on) /\ UNCHANGED inputs
    /\ Become(c, AIDisable(c, [ai[c] EXCEPT !.held = "hover"]), << >>)
    /\ UNCHANGED <<kind, master, moves, adopted>>

Rest == <<kind, master, inputs, moves, adopted>>
Live(c) == ~ai[c].die

PsychicOverDriveEndAction(c) ==
    Live(c) /\ ai[c].held = "hover" /\ Become(c, [ai[c] EXCEPT !.held = "drop"], << >>) /\ UNCHANGED Rest
PsychicOverDriveDamaging(c) ==
    /\ Live(c) /\ ai[c].held = "drop"
    /\ Become(c, AIRestart(c, [ai[c] EXCEPT !.held = "no"]), << >>) /\ UNCHANGED Rest

PsychicForceStun(c) ==
    LET w == [ai[c] EXCEPT !.stun = FALSE] IN
    Live(c) /\ ai[c].stun /\ Become(c, BeHitAnimation(c, w), BeHitCalls(w)) /\ UNCHANGED Rest

LaunchEnd(c) == Live(c) /\ ai[c].launch /\ Become(c, LaunchEnds(c, ai[c]), << >>) /\ UNCHANGED Rest
OnEndHitAnimation(c) ==
    /\ Live(c) /\ ai[c].hit
    /\ Become(c, AIRestart(c, [ai[c] EXCEPT !.hit = FALSE, !.canHit = TRUE]), << >>) /\ UNCHANGED Rest
RigidityEnd(c) ==
    /\ Live(c) /\ ai[c].rigid
    /\ Become(c, AIRestart(c, [ai[c] EXCEPT !.rigid = FALSE]), << >>) /\ UNCHANGED Rest
RigidityCoolDown(c) ==
    Live(c) /\ ~ai[c].canRigid /\ Become(c, [ai[c] EXCEPT !.canRigid = TRUE], << >>) /\ UNCHANGED Rest
-----------------------------------------------------------------------------
\* The mind begins an attack from afar, which a stunned enemy shows to itself only, ...
LaserShock(c) ==
    Become(c, [ai[c] EXCEPT !.task = "attack", !.long = TRUE], IF ai[c].rigid THEN << >> ELSE <<"Long">>)

\* ... or from near, unless one goes on already or the enemy is stunned.
BladeShock(c) ==
    IF ai[c].short \/ ai[c].rigid THEN Become(c, [ai[c] EXCEPT !.task = "attack"], << >>)
    ELSE Become(c, [ai[c] EXCEPT !.task = "attack", !.saved = TRUE, !.short = TRUE], <<"Short">>)

ExecuteTask(c) ==
    /\ c = master /\ Live(c) /\ ai[c].brain /\ ai[c].task = "none"
    /\ Input
    /\ LaserShock(c) \/ BladeShock(c)
    /\ UNCHANGED <<kind, master, moves, adopted>>

\* Mutant: the end of the attack from afar is not noted for the mind.
LaserEnds_Unnoted(w) == [w EXCEPT !.long = FALSE]
LaserEnds(w) == [w EXCEPT !.long = FALSE, !.done = TRUE]
LaserShockEnd(c) == Live(c) /\ ai[c].long /\ Become(c, LaserEnds(ai[c]), << >>) /\ UNCHANGED Rest

TickTask(c) ==
    /\ Live(c) /\ ai[c].task # "none" /\ ai[c].done
    /\ Become(c, [ai[c] EXCEPT !.done = FALSE, !.task = "none"], << >>) /\ UNCHANGED Rest

\* The montage ends; the mind, if it waits, attacks on from near or is done with the task.
OnBladeMontageEnded(c) ==
    /\ Live(c) /\ ai[c].short
    /\ \/ ai[c].saved /\ Input /\ Become(c, ai[c], <<"Short">>)
       \/ /\ Become(c, [ai[c] EXCEPT !.short = FALSE, !.task = IF ai[c].saved THEN "none" ELSE @], << >>)
          /\ UNCHANGED inputs
    /\ UNCHANGED <<kind, master, moves, adopted>>
-----------------------------------------------------------------------------
RecvRPC(c) ==
    /\ chan[c] # << >>
    /\ LET m == Head(chan[c])
           w == ai[c]
           r == CASE m = "BeHit" -> BeHitAnimation(c, w)
                  [] m = "Stun" -> RigidityAI(c, w)
                  [] m = "Die" -> DieProcess(c, w)
                  [] m = "Long" -> IF w.die THEN w ELSE [w EXCEPT !.long = TRUE]
                  [] m = "Short" -> [w EXCEPT !.short = TRUE]
                  [] m \in {"On", "Off"} -> [w EXCEPT !.on = (m = "On")]
       IN  /\ ai' = [ai EXCEPT ![c] = r]
           /\ orphan' = (orphan /\ ~(c = master /\ r.brain))
           /\ chan' = [chan EXCEPT ![c] = Tail(@), ![Other(c)] = @ \o
                         (IF c # master \/ r.on = w.on THEN << >> ELSE <<IF r.on THEN "On" ELSE "Off">>)]
           \* the old master goes on with its attack, which the new one's mind does not know
           /\ adopted' = (adopted \/ (c = master /\ m = "Short"))
    /\ UNCHANGED <<kind, master, inputs, moves>>

Reason(w) == w.hit \/ w.rigid \/ w.launch \/ w.held # "no"

\* The master is lost, with what is on its way, and comes back as the slave (OnSlotChange).
OnSlotChange ==
    LET new == Other(master) IN
    /\ moves < MaxMoves /\ moves' = moves + 1
    /\ \A c \in Client : Live(c)
    /\ master' = new
    /\ ai' = [ai EXCEPT ![new].brain = ai[new].on, ![new].task = "none",
                        ![master].brain = FALSE, ![master].task = "none"]
    /\ chan' = [c \in Client |-> << >>]
    /\ orphan' = (~ai[new].on /\ ~Reason(ai[new]))
    /\ adopted' = (adopted \/ ai[new].short)
    /\ UNCHANGED <<kind, inputs>>

Next ==
    \/ \E c \in Client :
        \/ TakeDamage(c) \/ Push(c) \/ PsychicOverDrive(c)
        \/ PsychicOverDriveEndAction(c) \/ PsychicOverDriveDamaging(c) \/ PsychicForceStun(c)
        \/ LaunchEnd(c) \/ OnEndHitAnimation(c) \/ RigidityEnd(c) \/ RigidityCoolDown(c)
        \/ ExecuteTask(c) \/ LaserShockEnd(c) \/ TickTask(c) \/ OnBladeMontageEnded(c) \/ RecvRPC(c)
    \/ OnSlotChange

Spec == Init /\ [][Next]_vars
-----------------------------------------------------------------------------
Mind == ai[master]

\* However hits, stuns, pushes and the ultimate overlap, with one flag for all of them, a living
\* enemy that stands still has something before it that restarts it, unless a new master took
\* over a stopped enemy with nothing of that kind (AIAllStopTool, AHACKED_AI::OnSlotChange).
WakesAgain == ~Mind.die /\ ~Mind.brain /\ ~orphan => Reason(Mind)

\* A mind that waits for the end of an attack will be told of it, or restarted, unless a new
\* master took the attack over (UBTTask_MSAI_Attack, UBTTask_MNAI_Attack).
AttackEnds ==
    ~Mind.die /\ Mind.task # "none" /\ ~adopted =>
        Mind.long \/ Mind.done \/ (Mind.short /\ Mind.saved) \/ Reason(Mind)

(* Why they do (proved in GameProofs): of an enemy w that may be the mind. *)
Fields == {"brain", "on", "task", "saved", "hit", "rigid", "canHit", "canRigid", "launch", "stun", "held",
           "long", "short", "done", "die"}

\* An attack from near is one that is told to the mind, unless a new master took it over.
WellOff(w) ==
    /\ DOMAIN w = Fields
    /\ ~w.die /\ ~w.brain /\ ~orphan => Reason(w)
    /\ ~w.die /\ w.task # "none" /\ ~adopted => w.long \/ w.done \/ (w.short /\ w.saved) \/ Reason(w)
    /\ w.short /\ ~adopted => w.saved

\* What is on its way is a call that the clients know.
Message == {"BeHit", "Stun", "Die", "Long", "Short", "On", "Off"}
Sent == chan \in [Client -> Seq(Message)]

MindInv == master \in Client /\ DOMAIN ai = Client /\ (\A c \in Client : DOMAIN ai[c] = Fields) /\ WellOff(Mind)
=============================================================================
