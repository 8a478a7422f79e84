---------------------------- MODULE CrusherAttacks ----------------------------
(***************************************************************************)
(* What the Crusher's attacks do to an enemy (CRUSHER_AnimInstance.cpp,    *)
(* HACKED_CRUSHER.cpp).  Every press is called on both clients, each plays *)
(* the swings, the rush and the punishing shield with notifies of its own, *)
(* and the damage counts where the Crusher is played, which tells the      *)
(* other client how much.                                                  *)
(***************************************************************************)
EXTENDS Integers, Sequences

CONSTANTS MaxPresses, MaxSurges, MaxCalls   \* bounds: presses; times the ultimate begins; calls under way

CrusherAttacksAssumption == {MaxPresses, MaxSurges, MaxCalls} \subseteq Nat

Client == {0, 1}
Own == 0                            \* the client of the Crusher
Notify == {"start", "check", "stop"}

VARIABLES
    anim,      \* anim[c]: the animation of the Crusher on client c
    surge,     \* surge[c]: bIsAdrenalSurge
    skill,     \* skill[c]: the rush and the shield that are under way
    damage,    \* damage[c]: what client c counts for the enemy
    chan,      \* chan: calls on their way to the other client
    presses, surges,
    met, dealt, wasted  \* the swing has met the enemy; how often it hurt it; one has met it in vain (history)

vars == <<anim, surge, skill, damage, chan, presses, surges, met, dealt, wasted>>

\* play, section: the montage and its part; linked: another part follows; left: notifies to come; number:
\* currentComboNumber and currentAttackSectionNumber; may: bCanDoNextAttackInput; tracing, hitted: the
\* shield looks for enemies, and has met this one; smash: the third blow of the ultimate is to come.
Idle == [play |-> "no", section |-> 0, linked |-> FALSE, left |-> {}, number |-> 0, may |-> FALSE,
         tracing |-> FALSE, hitted |-> FALSE, smash |-> FALSE]

Init ==
    /\ anim = [c \in Client |-> Idle] /\ surge = [c \in Client |-> FALSE] /\ skill = [c \in Client |-> {}]
    /\ damage = [c \in Client |-> 0] /\ chan = << >> /\ presses = 0 /\ surges = 0
    /\ met = FALSE /\ dealt = 0 /\ wasted = FALSE
-----------------------------------------------------------------------------
History == <<met, dealt, wasted>>
Bounds == <<presses, surges>>

\* A call leaves if the bound allows it.
Call(what, d) == Len(chan) < MaxCalls /\ chan' = Append(chan, <<what, d>>)

\* The damage of an attack with controller of client c counts on the Crusher's own client.
Hurt(c, d) ==
    /\ damage' = IF c = Own THEN [damage EXCEPT ![Own] = @ + d] ELSE damage
    /\ IF c = Own THEN Call("hurt", d) ELSE UNCHANGED chan

PlayAttackMontage(c, w) ==
    IF w.play # "no" THEN w
    ELSE [Idle EXCEPT !.play = IF surge[c] THEN "ultimate" ELSE "attack", !.left = Notify, !.may = TRUE]

\* The number moves on with the press, the montage at the end of its part, if it is the one in use.
DoNextAttack(c, w) ==
    IF ~w.may THEN w
    ELSE [w EXCEPT !.may = FALSE, !.number = IF @ = 3 THEN 0 ELSE @ + 1,
                   !.linked = @ \/ (w.number \in {1, 2} /\ w.section = w.number - 1
                                    /\ (w.play = "ultimate") = surge[c])]

Attack(c) == anim' = [anim EXCEPT ![c] = DoNextAttack(c, PlayAttackMontage(c, anim[c]))]

PressAttack ==
    /\ presses < MaxPresses /\ presses' = presses + 1 /\ skill[Own] = {} /\ Attack(Own) /\ Call("attack", 0)
    /\ UNCHANGED <<surge, skill, damage, surges>> /\ UNCHANGED History
-----------------------------------------------------------------------------
Change(c, w) == anim' = [anim EXCEPT ![c] = w]
Swings(c) == anim[c].play # "no"
Left(c, n) == Swings(c) /\ n \in anim[c].left
Notified(c, n) == [anim[c] EXCEPT !.left = @ \ {n}]
Quietly == UNCHANGED <<surge, skill, damage, chan>> /\ UNCHANGED Bounds

CheckNextAttack(c) == Left(c, "check") /\ Change(c, [Notified(c, "check") EXCEPT !.may = TRUE]) /\ Quietly /\ UNCHANGED History

StartTrace(c) ==
    /\ Left(c, "start") /\ Change(c, [Notified(c, "start") EXCEPT !.tracing = TRUE]) /\ Quietly
    /\ met' = (met /\ c # Own) /\ UNCHANGED wasted
    /\ dealt' = IF c = Own THEN 0 ELSE dealt

\* Mutant: the enemies met by the swing are not forgotten.
StopTrace_Remembers(w) == [w EXCEPT !.tracing = FALSE]
StopTrace(w) == [w EXCEPT !.tracing = FALSE, !.hitted = FALSE]

StopShieldAttackHitTrace(c) ==
    /\ "start" \notin anim[c].left /\ Left(c, "stop") /\ Change(c, StopTrace(Notified(c, "stop"))) /\ Quietly
    /\ wasted' = (wasted \/ (c = Own /\ met /\ dealt = 0 /\ anim[c].play = "attack" /\ anim[c].section < 2))
    /\ UNCHANGED <<met, dealt>>

\* The damage of a swing goes by the number, the third of the ultimate is the smash.
GiveDamage(c) ==
    LET n == anim[c].number IN
    IF surge[c] THEN IF n \in {1, 2} THEN 3 ELSE 0 ELSE CASE n \in {1, 2} -> 1 [] n = 3 -> 2 [] n = 0 -> 0

LineTracing(c) ==
    /\ anim[c].tracing /\ (c = Own => ~met \/ ~anim[c].hitted)
    /\ IF anim[c].hitted THEN UNCHANGED <<anim, damage, chan, dealt>>
       ELSE /\ Change(c, [anim[c] EXCEPT !.hitted = TRUE])
            /\ Hurt(c, GiveDamage(c)) /\ dealt' = IF c = Own THEN dealt + GiveDamage(c) ELSE dealt
    /\ met' = (met \/ c = Own) /\ UNCHANGED <<surge, skill, wasted>> /\ UNCHANGED Bounds

GroundSmash(c) ==
    /\ Swings(c) /\ anim[c].smash /\ Change(c, [anim[c] EXCEPT !.smash = FALSE]) /\ Hurt(c, 3)
    /\ UNCHANGED <<surge, skill>> /\ UNCHANGED Bounds /\ UNCHANGED History

\* A part of the montage ends, and with the last one the combo (NativeUpdateAnimation).
SectionEnd(c) ==
    /\ Swings(c) /\ anim[c].left = {} /\ ~anim[c].smash
    /\ Change(c, IF ~anim[c].linked THEN Idle
                 ELSE [anim[c] EXCEPT !.section = @ + 1, !.linked = FALSE, !.left = Notify,
                                      !.smash = anim[c].play = "ultimate" /\ anim[c].section = 1])
    /\ Quietly /\ UNCHANGED History
-----------------------------------------------------------------------------
Skills(c, s, call) ==
    /\ skill' = [skill EXCEPT ![c] = s] /\ IF c = Own /\ call # "" THEN Call(call, 0) ELSE UNCHANGED chan

\* Bound: a skill is used before the swings.
Press(s) ==
    /\ presses = 0 /\ presses' = 1 /\ ~Swings(Own) /\ skill[Own] = {} /\ Skills(Own, {s}, s)
    /\ UNCHANGED <<anim, surge, damage, surges>> /\ UNCHANGED History

\* RocketRushOverlap: once in a rush; PunishShieldDamage: once, at its place in the animation.
SkillHit(c, s) ==
    /\ s \in skill[c] /\ skill' = [skill EXCEPT ![c] = {s \o "ed"}]
    /\ Hurt(c, IF s = "rush" THEN 2 ELSE 1)
    /\ UNCHANGED <<anim, surge>> /\ UNCHANGED Bounds /\ UNCHANGED History
SkillEnd(c) ==
    /\ skill[c] # {} /\ Skills(c, {}, IF skill[c] \subseteq {"rush", "rushed"} THEN "stop" ELSE "")
    /\ UNCHANGED <<anim, surge, damage>> /\ UNCHANGED Bounds /\ UNCHANGED History

\* AdrenalSurge, and AdrenalSurgeEnd by a timer of each client.
AdrenalSurge ==
    /\ surges < MaxSurges /\ surges' = surges + 1 /\ ~Swings(Own) /\ skill[Own] = {} /\ ~surge[Own]
    /\ surge' = [surge EXCEPT ![Own] = TRUE] /\ Call("surge", 0)
    /\ UNCHANGED <<anim, skill, damage, presses>> /\ UNCHANGED History
AdrenalSurgeEnd(c) ==
    /\ surge[c] /\ surge' = [surge EXCEPT ![c] = FALSE]
    /\ UNCHANGED <<anim, skill, damage, chan>> /\ UNCHANGED Bounds /\ UNCHANGED History

\* The other client hears of a press, a skill, or the damage (RPCTakeDamageToOtherClient).
Recv ==
    LET what == Head(chan)[1] IN
    /\ chan # << >> /\ chan' = Tail(chan)
    /\ IF what = "attack" THEN Attack(1) ELSE UNCHANGED anim
    /\ damage' = IF what = "hurt" THEN [damage EXCEPT ![1] = @ + Head(chan)[2]] ELSE damage
    /\ surge' = IF what = "surge" THEN [surge EXCEPT ![1] = TRUE] ELSE surge
    /\ skill' = CASE what \in {"rush", "punish"} -> [skill EXCEPT ![1] = {what}]
                  [] what = "stop" -> [skill EXCEPT ![1] = {}]
                  [] OTHER -> skill
    /\ UNCHANGED Bounds /\ UNCHANGED History

Next ==
    \/ PressAttack \/ AdrenalSurge \/ Recv
    \/ \E s \in {"rush", "punish"} : Press(s) \/ \E c \in Client : SkillHit(c, s)
    \/ \E c \in Client :
        \/ CheckNextAttack(c) \/ StartTrace(c) \/ StopShieldAttackHitTrace(c) \/ LineTracing(c)
        \/ GroundSmash(c) \/ SectionEnd(c) \/ SkillEnd(c) \/ AdrenalSurgeEnd(c)

Spec == Init /\ [][Next]_vars
-----------------------------------------------------------------------------
\* However differently the two clients play the swings, the damage is counted once, and the same on both
\* when all calls have arrived; a swing that meets an enemy hurts it, but for the last part of the
\* combo, where one more press has set the number back (CRUSHER_AnimInstance.cpp:166), and the
\* ultimate, where the third press comes too early for the second swing (line 277).
SwingsCount ==
    /\ chan = << >> => damage[0] = damage[1]
    /\ ~wasted
-----------------------------------------------------------------------------
(* Why it is so (proved in HeroesProofs). *)
Swinging == [play : {"no", "attack", "ultimate"}, section : Nat, linked : BOOLEAN, left : SUBSET Notify, number : 0 .. 3,
             may : BOOLEAN, tracing : BOOLEAN, hitted : BOOLEAN, smash : BOOLEAN]
Message == {"attack", "hurt", "surge", "rush", "punish", "stop"} \X Nat
Typed ==
    /\ anim \in [Client -> Swinging] /\ surge \in [Client -> BOOLEAN] /\ damage \in [Client -> Nat]
    /\ chan \in Seq(Message) /\ dealt \in Nat /\ met \in BOOLEAN /\ wasted \in BOOLEAN

\* The calls of the queue q tell of the damage n.
Worth(call) == IF call[1] = "hurt" THEN call[2] ELSE 0
Owes(q, n) ==
    \E run \in [0 .. Len(q) -> Int] :
        /\ run[0] = 0 /\ run[Len(q)] = n
        /\ \A i \in 1 .. Len(q) : run[i] = run[i - 1] + Worth(q[i])

\* In the first two parts of the combo the number is that of the part, or of the next one that is linked.
Numbered(w) ==
    w.play = "attack" /\ w.section < 2 =>
        /\ w.number = IF w.linked THEN w.section + 2 ELSE w.section + 1
        /\ (w.linked \/ w.may => "check" \notin w.left) /\ ~(w.linked /\ w.may)

\* The shield looks for enemies from one notify to the other, and has forgotten them before it starts.
Traces(w) ==
    /\ w.tracing <=> w.play # "no" /\ "start" \notin w.left /\ "stop" \in w.left
    /\ w.hitted => w.tracing
    /\ "start" \in w.left => "stop" \in w.left

\* So what the swing has met it has hurt.
Deals ==
    LET w == anim[Own] IN
    /\ Numbered(w) /\ Traces(w) /\ (w.play = "attack" => ~surge[Own])
    /\ w.play = "attack" /\ w.section < 2 /\ w.tracing /\ (met \/ w.hitted) => dealt > 0

SwingInv == Typed /\ Owes(chan, damage[0] - damage[1]) /\ Deals /\ ~wasted
=============================================================================
