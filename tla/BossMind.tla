------------------------------ MODULE BossMind --------------------------------
(***************************************************************************)
(* The attacks of the boss (MilitaryBossAI.cpp, MB_AI_AnimInstance.cpp and *)
(* the tasks and the service of its behaviour tree).  Its mind runs on the *)
(* client in seat 0; an attack is an animation on both clients, which      *)
(* fires for a while and whose end sets a flag that a task waits for.      *)
(***************************************************************************)
EXTENDS Naturals, Sequences

CONSTANTS Shots,                \* shots of a volley
          MaxAttacks, MaxMoves  \* bounds: attacks; changes of the master

BossMindAssumption == Shots \in Nat \ {0} /\ {MaxAttacks, MaxMoves} \subseteq Nat

Client == {0, 1}
Other(c) == 1 - c
Volley == {"gun", "missile"}
Pattern == Volley \cup {"slap"}

VARIABLES
    boss,      \* boss[c]: the boss on client c
    master,    \* the client in seat 0
    chan,      \* chan[c]: calls on their way to client c
    attacks, moves,
    early      \* a task ended while its attack was under way (history)

vars == <<boss, master, chan, attacks, moves, early>>

\* brain, task, chosen: the mind runs, with a task for the chosen attack; wish: what the blackboard asks
\* for; saved: the end of a hammer blow is told to the mind; anim: attacks that are shown; ended: flags of
\* those that have ended; due, left: the volleys still to begin, and what is left of those that have.
New(c) == [brain |-> c = 0, task |-> "none", chosen |-> "gun", wish |-> "none", saved |-> FALSE, anim |-> {},
           ended |-> {}, due |-> {}, left |-> [v \in Volley |-> 0], die |-> FALSE]

Init ==
    /\ boss = [c \in Client |-> New(c)] /\ master = 0 /\ chan = [c \in Client |-> << >>]
    /\ attacks = 0 /\ moves = 0 /\ early = FALSE
-----------------------------------------------------------------------------
Become(c, w, calls) == boss' = [boss EXCEPT ![c] = w] /\ chan' = [chan EXCEPT ![Other(c)] = @ \o calls]
Live(c) == ~boss[c].die

\* RPCHammerShot, MachineGun, HomingMissile, SlapRush: the attack is shown.
Shown(w, a) ==
    IF w.die THEN w ELSE [w EXCEPT !.anim = @ \cup {a}, !.due = IF a \in w.anim THEN @ ELSE @ \cup ({a} \cap Volley)]

\* The service of the tree: what the distance of the target asks for.
TickNode(c) ==
    /\ c = master /\ boss[c].brain /\ boss[c].task = "none" /\ attacks < MaxAttacks
    /\ \E wish \in {"hammer", "none", "pattern"} : Become(c, [boss[c] EXCEPT !.wish = wish], << >>)
    /\ UNCHANGED <<master, attacks, moves, early>>

ExecuteAttack(c) ==
    /\ boss[c].wish = "hammer"
    /\ Become(c, Shown([boss[c] EXCEPT !.task = "attack", !.chosen = "hammer", !.saved = TRUE], "hammer"), <<"hammer">>)

\* A rush ends its task at once.
ExecutePattern(c) ==
    /\ boss[c].wish = "pattern"
    /\ \E a \in Pattern :
         Become(c, Shown([boss[c] EXCEPT !.task = IF a = "slap" THEN "none" ELSE "pattern", !.chosen = a], a), <<a>>)

\* The tree begins the task that the blackboard asks for.
ExecuteTask(c) ==
    /\ c = master /\ boss[c].brain /\ Live(c) /\ boss[c].task = "none"
    /\ attacks < MaxAttacks /\ attacks' = attacks + 1
    /\ ExecuteAttack(c) \/ ExecutePattern(c)
    /\ UNCHANGED <<master, moves, early>>

Step == UNCHANGED <<master, attacks, moves>>

\* At its place in the animation.
ShootingStart(c, v) ==
    /\ v \in boss[c].due /\ Become(c, [boss[c] EXCEPT !.due = @ \ {v}, !.left[v] = Shots], << >>)
    /\ Step /\ UNCHANGED early
MachineGunShootingStart(c) == ShootingStart(c, "gun")
HomingMissileStart(c) == ShootingStart(c, "missile")

\* The timer runs on when the boss is dead, but fires no more.
Fire(c, v) ==
    /\ Live(c) /\ boss[c].left[v] > 0 /\ Become(c, [boss[c] EXCEPT !.left[v] = @ - 1], << >>)
    /\ Step /\ UNCHANGED early
MachineGunDamaging(c) == Fire(c, "gun")
HomingMissileLaunch(c) == Fire(c, "missile")

HammerShotEnd(w) == [w EXCEPT !.anim = @ \ {"hammer"}, !.task = IF w.saved /\ @ = "attack" THEN "none" ELSE @]
AttackEnd(c) ==
    /\ \E a \in boss[c].anim \ boss[c].due :
         Become(c, IF a = "hammer" THEN HammerShotEnd(boss[c])
                   ELSE [boss[c] EXCEPT !.anim = @ \ {a}, !.ended = @ \cup {a}], << >>)
    /\ Step /\ UNCHANGED early

\* The task looks at the flags, one of them in a turn.
\* Mutant: the flag that ended it is kept.
Seen_Kept(w, a) == [w EXCEPT !.task = "none"]
Seen(w, a) == [w EXCEPT !.ended = @ \ {a}, !.task = "none"]

TickTask(c) ==
    LET w == boss[c] IN
    /\ w.brain /\ w.task = "pattern"
    /\ \/ "gun" \in w.ended /\ Become(c, Seen(w, "gun"), << >>)
       \/ "gun" \notin w.ended /\ "missile" \in w.ended /\ Become(c, Seen(w, "missile"), << >>)
       \/ w.ended = {"slap"} /\ Become(c, [w EXCEPT !.ended = {}], << >>)
    /\ early' = (early \/ (boss'[c].task = "none" /\ w.chosen \in w.anim))
    /\ Step

DieProcess(w) == [w EXCEPT !.die = TRUE, !.brain = FALSE, !.task = "none"]
Die(c) == Live(c) /\ Become(c, DieProcess(boss[c]), <<"die">>) /\ Step /\ UNCHANGED early

Recv(c) ==
    /\ chan[c] # << >> /\ chan' = [chan EXCEPT ![c] = Tail(@)]
    /\ boss' = [boss EXCEPT ![c] = IF Head(chan[c]) = "die" THEN DieProcess(@) ELSE Shown(@, Head(chan[c]))]
    /\ Step /\ UNCHANGED early

\* The master is lost, with what is on its way, and comes back as the slave.
OnSlotChange ==
    LET new == Other(master) IN
    /\ moves < MaxMoves /\ moves' = moves + 1 /\ \A c \in Client : Live(c)
    /\ master' = new /\ chan' = [c \in Client |-> << >>]
    /\ boss' = [c \in Client |-> [boss[c] EXCEPT !.brain = c = new, !.task = "none"]]
    /\ UNCHANGED <<attacks, early>>

Next ==
    \/ \E c \in Client :
        \/ TickNode(c) \/ ExecuteTask(c) \/ AttackEnd(c) \/ TickTask(c) \/ Die(c) \/ Recv(c)
        \/ MachineGunShootingStart(c) \/ HomingMissileStart(c) \/ MachineGunDamaging(c) \/ HomingMissileLaunch(c)
    \/ OnSlotChange

Spec == Init /\ [][Next]_vars
-----------------------------------------------------------------------------
\* A mind that waits for the end of an attack will be told of it; and it does not end its task before the
\* attack, unless the flags of the time before it was in charge are still there (MilitaryBossAI.cpp:461:
\* every client sets them, only the master's tasks clear them).
AttacksRunOut ==
    LET w == boss[master] IN
    /\ w.task = "attack" => "hammer" \in w.anim
    /\ w.task = "pattern" => w.chosen \in w.anim \/ w.ended \cap Volley # {}
    /\ moves = 0 => ~early

(* Why they do (proved in GameProofs). *)
Fields == {"brain", "task", "chosen", "wish", "saved", "anim", "ended", "due", "left", "die"}
Calls == Pattern \cup {"hammer", "die"}

\* The mind of w waits for what is shown, or was.
Waits(w) ==
    /\ w.task = "attack" => w.saved /\ "hammer" \in w.anim
    /\ w.task = "pattern" => w.chosen \in Volley /\ (w.chosen \in w.anim \/ w.ended \cap Volley # {})

\* Of the volleys of the first master only the chosen one is shown or over, and not both.
Alone(w) ==
    /\ w.die => ~w.brain
    /\ w.brain => \A v \in Volley : v \in w.anim \cup w.ended =>
                      w.task = "pattern" /\ w.chosen = v /\ v \notin w.anim \cap w.ended

FightInv ==
    /\ master \in Client /\ moves \in Nat /\ DOMAIN boss = Client /\ (\A c \in Client : DOMAIN boss[c] = Fields)
    /\ chan \in [Client -> Seq(Calls)]
    /\ Waits(boss[master]) /\ (\A c \in Client : boss[c].brain => c = master)
    /\ moves = 0 => ~early /\ Alone(boss[master]) /\ (\A i \in DOMAIN chan[master] : chan[master][i] = "die")
=============================================================================
