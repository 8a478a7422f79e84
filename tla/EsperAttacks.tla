------------------------------ MODULE EsperAttacks -----------------------------
(***************************************************************************)
(* What the Esper's attacks do to an enemy (HACKED_ESPER.cpp, her ball and *)
(* her drop, _TakeDamage of HACKED_AI.cpp).  Her balls and waves stack up  *)
(* on it, her drop and her force pay the stack out.  Both clients play the *)
(* animations with notifies of their own, the damage counts on hers.  She  *)
(* may fall at any time, which cuts the animations or does not.            *)
(***************************************************************************)
EXTENDS Integers, Sequences

CONSTANTS Steps, Ticks,          \* hits to a stack; ticks of the wave (the code: 4 and 29)
          MaxPresses, MaxShots   \* bounds

EsperAttacksAssumption == {Steps, Ticks} \subseteq Nat \ {0} /\ {MaxPresses, MaxShots} \subseteq Nat

Client == {0, 1}
Own == 0                         \* the client of the Esper
Skill == {"drop", "force", "wave"}
\* The notifies of each animation, in order.
Notifies == [drop |-> <<"spawn", "explode", "end">>, force |-> <<"push", "end">>, wave |-> <<"start", "end">>]

VARIABLES
    esper,     \* esper[c]: she, as client c plays her
    stack,     \* currentStack of the enemy, in hits
    behind,    \* damage that the other client has not counted
    chan,      \* calls on their way to the other client
    presses, shots,
    hits,      \* that stack, since the last explosion (history)
    cut, late  \* a fall has cut a drop short; one was created behind its explosion (history)

vars == <<esper, stack, behind, chan, presses, shots, hits, cut, late>>

\* skill, left: the animation that plays and its notifies to come; down: bIsSelfHealing; firing:
\* bOnPrimaryAttack; ball: one flies; drops: how many float; last: lastPhychicDrop is one of them;
\* beam: ticks to come; stun: the force will strike the enemy again.
New == [skill |-> "no", left |-> << >>, down |-> FALSE, firing |-> FALSE, ball |-> FALSE,
        drops |-> 0, last |-> FALSE, beam |-> 0, stun |-> FALSE]

Init ==
    /\ esper = [c \in Client |-> New] /\ stack = 0 /\ behind = 0 /\ chan = << >>
    /\ presses = 0 /\ shots = 0 /\ hits = 0 /\ cut = FALSE /\ late = FALSE
-----------------------------------------------------------------------------
Bounds == <<presses, shots>>
Change(c, w) == esper' = [esper EXCEPT ![c] = w]
Tell(call) == chan' = Append(chan, call)

\* Mutant: a stack that is full is not paid.
Explosion_Full(s) == IF s \div Steps = 3 THEN <<0, s>> ELSE <<s \div Steps, 0>>
Explosion(s) == <<s \div Steps, 0>>
Stacked(s) == IF s + 1 >= 4 * Steps THEN <<4, 3 * Steps>> ELSE <<0, s + 1>>

\* The enemy is hurt, more by its stack, and the other client hears how much.
TakeDamage(explodes) ==
    LET paid == IF explodes THEN Explosion(stack) ELSE Stacked(stack) IN
    /\ stack' = paid[2] /\ behind' = behind + 1 + paid[1] /\ Tell(<<"hurt", 1 + paid[1]>>)
    /\ hits' = IF explodes THEN 0 ELSE hits + 1

\* The enemy is in reach or not; the hits of the other client do not count (HACKED_AI.cpp:404).
Hurt(c, explodes) == IF c = Own THEN TakeDamage(explodes) ELSE UNCHANGED <<stack, behind, chan, hits>>
Misses == UNCHANGED <<stack, behind, chan, hits>>
MayHurt(c, explodes) == Hurt(c, explodes) \/ Misses
-----------------------------------------------------------------------------
\* The attack button is pressed or let go; a press while she lies on the ground does nothing.
Fires(w, on) == [w EXCEPT !.firing = IF on THEN @ \/ ~w.down ELSE FALSE]
Esper_Attack(on) ==
    /\ IF on THEN presses < MaxPresses /\ presses' = presses + 1 ELSE esper[Own].firing /\ UNCHANGED presses
    /\ Change(Own, Fires(esper[Own], on)) /\ Tell(<<"fire", on>>)
    /\ UNCHANGED <<stack, behind, shots, hits, cut, late>>

OnAttackCheck(c) ==
    /\ esper[c].firing /\ ~esper[c].down /\ ~esper[c].ball /\ (c = Own => shots < MaxShots)
    /\ Change(c, [esper[c] EXCEPT !.ball = TRUE]) /\ shots' = IF c = Own THEN shots + 1 ELSE shots
    /\ UNCHANGED <<stack, behind, chan, presses, hits, cut, late>>

OnComponentHit(c) ==
    /\ esper[c].ball /\ Change(c, [esper[c] EXCEPT !.ball = FALSE]) /\ MayHurt(c, FALSE)
    /\ UNCHANGED Bounds /\ UNCHANGED <<cut, late>>
-----------------------------------------------------------------------------
Begins(w, s) == [w EXCEPT !.skill = s, !.left = Notifies[s]]

Press(s) ==
    /\ presses < MaxPresses /\ presses' = presses + 1 /\ esper[Own].skill = "no" /\ ~esper[Own].down
    /\ Change(Own, Begins(esper[Own], s)) /\ Tell(<<"skill", s>>)
    /\ UNCHANGED <<stack, behind, shots, hits, cut, late>>

\* The next notify of the animation is n.
Notified(c, n, w) ==
    /\ esper[c].left # << >> /\ Head(esper[c].left) = n
    /\ Change(c, [w EXCEPT !.left = Tail(@)]) /\ UNCHANGED Bounds

\* Her client alone creates the drop, and tells the other one to.
WithDrop(w) == [w EXCEPT !.drops = @ + 1, !.last = TRUE]
PsychicDropSpawnEmitter(c) ==
    /\ Notified(c, "spawn", IF c = Own THEN WithDrop(esper[c]) ELSE esper[c])
    /\ IF c = Own THEN Tell(<<"create", "drop">>) ELSE UNCHANGED chan
    /\ UNCHANGED <<stack, behind, hits, cut, late>>

\* Mutant: the drop is not forgotten.
Gone_Kept(w) == [w EXCEPT !.drops = @ - 1]
Gone(w) == [w EXCEPT !.drops = @ - 1, !.last = FALSE]
OnPsychicDropDamaging(c) ==
    /\ Notified(c, "explode", IF esper[c].last THEN Gone(esper[c]) ELSE esper[c])
    /\ IF esper[c].last THEN MayHurt(c, TRUE) ELSE Misses
    /\ late' = (late \/ ~esper[c].last) /\ UNCHANGED cut

PsychicForceDamaging(c) ==
    /\ Notified(c, "push", [esper[c] EXCEPT !.stun = TRUE]) /\ MayHurt(c, TRUE) /\ UNCHANGED <<cut, late>>
\* By its timer; the enemy's client asks for the animation of being hit.
PsychicForceStun(c) ==
    /\ esper[c].stun /\ Change(c, [esper[c] EXCEPT !.stun = FALSE])
    /\ Misses /\ UNCHANGED Bounds /\ UNCHANGED <<cut, late>>

ShockWaveDamagingStart(c) ==
    /\ Notified(c, "start", [esper[c] EXCEPT !.beam = Ticks]) /\ Misses /\ UNCHANGED <<cut, late>>
\* The timer of the wave goes on whatever she does meanwhile.
ShockWaveDamaging(c) ==
    /\ esper[c].beam > 0 /\ Change(c, [esper[c] EXCEPT !.beam = @ - 1]) /\ MayHurt(c, FALSE)
    /\ UNCHANGED Bounds /\ UNCHANGED <<cut, late>>

SkillEnd(c) ==
    /\ Notified(c, "end", [esper[c] EXCEPT !.skill = "no"]) /\ Misses /\ UNCHANGED <<cut, late>>
-----------------------------------------------------------------------------
\* She falls: the animation goes on, or it is cut.
Falls(w, short) == IF short THEN [w EXCEPT !.down = TRUE, !.skill = "no", !.left = << >>] ELSE [w EXCEPT !.down = TRUE]
Dropping(w) == w.skill = "drop"
RPCSelfHealing(short) ==
    /\ ~esper[Own].down /\ presses < MaxPresses /\ presses' = presses + 1
    /\ Change(Own, Falls(esper[Own], short)) /\ Tell(<<"fall", short>>) /\ cut' = (cut \/ (short /\ Dropping(esper[Own])))
    /\ UNCHANGED <<stack, behind, shots, hits, late>>
SelfHealingAnimEnd(c) ==
    /\ esper[c].down /\ Change(c, [esper[c] EXCEPT !.down = FALSE])
    /\ Misses /\ UNCHANGED Bounds /\ UNCHANGED <<cut, late>>

\* The other client hears what she does.  An animation that has not ended there gives way to the next one.
Heard(w, call) ==
    CASE call[1] = "fire" -> Fires(w, call[2])
      [] call[1] = "skill" -> Begins(w, call[2])
      [] call[1] = "create" -> WithDrop(w)
      [] call[1] = "fall" -> Falls(w, call[2])
      [] call[1] = "hurt" -> w
Recv ==
    /\ chan # << >> /\ chan' = Tail(chan) /\ Change(1, Heard(esper[1], Head(chan)))
    /\ behind' = IF Head(chan)[1] = "hurt" THEN behind - Head(chan)[2] ELSE behind
    /\ cut' = (cut \/ (Head(chan)[1] \in {"fall", "skill"} /\ Dropping(esper[1])))
    /\ UNCHANGED <<stack, shots, presses, hits, late>>

Next ==
    \/ Recv \/ \E on \in BOOLEAN : Esper_Attack(on) \/ RPCSelfHealing(on) \/ \E s \in Skill : Press(s)
    \/ \E c \in Client :
        \/ OnAttackCheck(c) \/ OnComponentHit(c) \/ SelfHealingAnimEnd(c)
        \/ PsychicDropSpawnEmitter(c) \/ OnPsychicDropDamaging(c) \/ PsychicForceDamaging(c)
        \/ PsychicForceStun(c) \/ ShockWaveDamagingStart(c) \/ ShockWaveDamaging(c) \/ SkillEnd(c)

Spec == Init /\ [][Next]_vars
-----------------------------------------------------------------------------
\* The stack is what the hits since the last explosion make: it grows to four and falls back to three,
\* which pays on its own, over and over; both clients count the same damage when all calls have arrived;
\* and a drop that floats is one that will explode, but after a drop that was cut short or, on the other
\* client, was created behind the notify that explodes it.
StacksPay ==
    /\ stack = IF hits < 4 * Steps THEN hits ELSE 3 * Steps + ((hits - 4 * Steps) % Steps)
    /\ chan = << >> => behind = 0
    /\ \A c \in Client : ~cut /\ ~late => esper[c].drops = IF esper[c].last THEN 1 ELSE 0
    /\ esper[Own].drops > 0 /\ ~cut => esper[Own].last /\ esper[Own].skill = "drop"
-----------------------------------------------------------------------------
(* Why it is so (proved in HeroesProofs). *)
All == Notifies["drop"]
Floating == <<"explode", "end">>
Left == {All, Floating, <<"push", "end">>, <<"start", "end">>, <<"end">>, << >>}
Played == [skill : Skill \cup {"no"}, left : Left, down : BOOLEAN, firing : BOOLEAN, ball : BOOLEAN,
           drops : Int, last : BOOLEAN, beam : Nat, stun : BOOLEAN]
Message == ({"hurt"} \X Nat) \cup ({"fire", "fall"} \X BOOLEAN) \cup ({"skill"} \X Skill) \cup {<<"create", "drop">>}
Typed ==
    /\ esper \in [Client -> Played] /\ chan \in Seq(Message) /\ behind \in Int /\ hits \in Nat
    /\ cut \in BOOLEAN /\ late \in BOOLEAN
    /\ \A c \in Client : /\ esper[c].skill = "no" <=> esper[c].left = << >>
                         /\ esper[c].left \in {All, Floating} => Dropping(esper[c])

\* The stack goes round and round.
Round == stack = IF hits < 4 * Steps THEN hits ELSE 3 * Steps + ((hits - 4 * Steps) % Steps)

\* The calls of the queue q tell of the damage n.
Worth(call) == IF call[1] = "hurt" THEN call[2] ELSE 0
Owes(q, n) ==
    \E run \in [0 .. Len(q) -> Int] :
        /\ run[0] = 0 /\ run[Len(q)] = n
        /\ \A i \in 1 .. Len(q) : run[i] = run[i - 1] + Worth(q[i])

\* Her drop floats between its notifies.
Floats ==
    LET w == esper[Own] IN
    /\ w.last <=> w.left = Floating
    /\ w.drops = IF w.last THEN 1 ELSE 0

\* The other client, when it has heard the first n - 1 calls, plays a drop that is still to be created.
Marks(i) == chan[i][1] \in {"skill", "create"}
Due(n) ==
    \/ \E i \in 1 .. n - 1 : chan[i] = <<"skill", "drop">> /\ \A j \in i + 1 .. n - 1 : ~Marks(j)
    \/ (\A j \in 1 .. n - 1 : ~Marks(j)) /\ esper[1].left \in {All, Floating} /\ ~esper[1].last
Follows ==
    LET w == esper[1] IN
    /\ w.last => w.left \in {All, Floating}
    /\ w.drops = IF w.last THEN 1 ELSE 0
    /\ \A i \in DOMAIN chan : chan[i][1] = "create" => Due(i)
    /\ esper[Own].left = All => Due(Len(chan) + 1)

StackInv == Typed /\ Round /\ Owes(chan, behind) /\ (~cut => Floats /\ (~late => Follows))
=============================================================================
