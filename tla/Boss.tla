-------------------------------- MODULE Boss --------------------------------
(***************************************************************************)
(* The boss on the two clients (MilitaryBossAI.cpp, HACKED_AI.cpp,         *)
(* ElectroMagneticPulse.cpp): his health, the times when nothing hurts     *)
(* him and the devices that end them.  A client counts the hits of its own *)
(* hero and tells them; the master turns him immortal when its own hero's  *)
(* hits find him weak enough; whoever breaks a device turns him back, and  *)
(* the other one, hearing of the device, says so again.                    *)
(***************************************************************************)
EXTENDS Integers, Sequences

CONSTANTS MaxHp, Damages,   \* health of the boss; what a hit may take
          Pulse,            \* the devices of the level
          MaxHits           \* bound: hits

BossAssumption ==
    /\ MaxHp \in Nat \ {0} /\ Damages \subseteq Nat \ {0}
    /\ MaxHits \in Nat

Client == {0, 1}
Master == 0
Other(c) == 1 - c
Threshold == 1 .. 3         \* 70, 50 and 30 percent
Below(hp, t) == 10 * hp < MaxHp * (IF t = 1 THEN 7 ELSE IF t = 2 THEN 5 ELSE 3)

VARIABLES
    hp, immortal, die,   \* the boss on each client (_bIsBossImmortal, _bDie)
    checks,    \* thresholds the master has still to look at (_bFirstImmortalCheck ...)
    emp,       \* emp[c]: the devices left on client c
    chan,      \* chan[c]: calls on their way to client c
    hits,
    crossed    \* calls to begin and to end the immortality were under way at once (history)

vitals == <<hp, immortal, die, checks, emp>>
vars == <<vitals, chan, hits, crossed>>

Init ==
    /\ hp = [c \in Client |-> MaxHp] /\ immortal = [c \in Client |-> FALSE]
    /\ die = [c \in Client |-> FALSE]
    /\ checks = Threshold /\ emp = [c \in Client |-> Pulse]
    /\ chan = [c \in Client |-> << >>] /\ hits = 0
    /\ crossed = FALSE
-----------------------------------------------------------------------------
Tell(c, calls) == chan' = [chan EXCEPT ![Other(c)] = @ \o calls]
Take(c, calls) == chan' = [chan EXCEPT ![c] = Tail(@), ![Other(c)] = @ \o calls]
Hurt(n, damage) == IF n < damage THEN 0 ELSE n - damage
Ending(calls) == \E i \in DOMAIN calls : calls[i][1] = "shock" \/ (calls[i][1] = "immortal" /\ ~calls[i][2])

\* Client c: the boss takes damage; when he dies, that is told before the damage.
Damaged(c, damage) ==
    /\ hp' = [hp EXCEPT ![c] = Hurt(@, damage)]
    /\ die' = [die EXCEPT ![c] = @ \/ Hurt(hp[c], damage) = 0]
Death(c, damage) == IF Hurt(hp[c], damage) = 0 THEN <<<<"die">>>> ELSE << >>

\* A hit of client c's hero.  The master looks at the health before the hit.
TakeDamage(c) ==
    /\ hits < MaxHits /\ ~die[c]
    /\ LET passed == {t \in checks : c = Master /\ Below(hp[c], t)}
           on == passed # {}
           first == CHOOSE t \in passed : \A u \in passed : t <= u
           calls == IF on THEN <<<<"immortal", TRUE>>>> ELSE << >>
       IN  /\ hits' = hits + 1
           /\ checks' = IF on THEN checks \ {first} ELSE checks
           /\ immortal' = IF on THEN [immortal EXCEPT ![c] = TRUE] ELSE immortal
           /\ IF immortal'[c] THEN Tell(c, calls) /\ UNCHANGED <<hp, die>>
              ELSE \E damage \in Damages :
                      Damaged(c, damage) /\ Tell(c, Death(c, damage) \o <<<<"hit", damage>>>>)
    /\ UNCHANGED emp

\* Mutant: an immortal boss does not take the damage told.
RPCTakeDamageToOtherClient_Immortal(c, damage) ==
    IF die[c] \/ immortal[c] THEN UNCHANGED <<hp, die>> /\ Take(c, << >>)
    ELSE Damaged(c, damage) /\ Take(c, Death(c, damage))
RPCTakeDamageToOtherClient(c, damage) ==
    IF die[c] THEN UNCHANGED <<hp, die>> /\ Take(c, << >>)
    ELSE Damaged(c, damage) /\ Take(c, Death(c, damage))

\* Client c breaks a device, which works only on an immortal boss near it.  It is destroyed
\* where the call arrives, too, and there the end of the immortality is told once more.
EMPShock(c, e, near) ==
    /\ emp' = [emp EXCEPT ![c] = @ \ {e}]
    /\ immortal' = IF near THEN [immortal EXCEPT ![c] = FALSE] ELSE immortal
ShockCalls(near) == IF near THEN <<<<"immortal", FALSE>>>> ELSE << >>

BreakPulse(c, e) ==
    /\ e \in emp[c] /\ immortal[c]
    /\ \E near \in BOOLEAN : EMPShock(c, e, near) /\ Tell(c, <<<<"shock", e>>>> \o ShockCalls(near))
    /\ UNCHANGED <<hp, die, checks, hits>>

RecvRPC(c) ==
    /\ chan[c] # << >>
    /\ LET m == Head(chan[c]) IN
       \/ m[1] = "hit" /\ RPCTakeDamageToOtherClient(c, m[2]) /\ UNCHANGED <<immortal, emp>>
       \/ m[1] = "die" /\ die' = [die EXCEPT ![c] = TRUE] /\ Take(c, << >>) /\ UNCHANGED <<hp, immortal, emp>>
       \/ /\ m[1] = "immortal" /\ immortal' = [immortal EXCEPT ![c] = m[2]] /\ Take(c, << >>)
          /\ UNCHANGED <<hp, die, emp>>
       \/ /\ m[1] = "shock" /\ m[2] \in emp[c]
          /\ \E near \in BOOLEAN : EMPShock(c, m[2], near) /\ Take(c, ShockCalls(near))
          /\ UNCHANGED <<hp, die>>
       \/ /\ m[1] = "shock" /\ m[2] \notin emp[c] /\ Take(c, << >>)
          /\ UNCHANGED <<hp, die, immortal, emp>>
    /\ UNCHANGED <<checks, hits>>
Crossing ==
    /\ \E i \in DOMAIN chan[Other(Master)] : chan[Other(Master)][i] = <<"immortal", TRUE>>
    /\ Ending(chan[Master])

Step ==
    \E c \in Client : TakeDamage(c) \/ RecvRPC(c) \/ \E e \in Pulse : BreakPulse(c, e)

Next == Step /\ crossed' = (crossed \/ Crossing')

Spec == Init /\ [][Next]_vars
-----------------------------------------------------------------------------
Quiet == \A c \in Client : chan[c] = << >>

\* When nothing is under way the clients agree on the boss: whether he lives, his health, and,
\* unless he turned immortal again while the end of the last time was still being told,
\* whether he can be hurt (AMilitaryBossAI::TakeDamage, AElectroMagneticPulse::EMPShock).
BossAgrees ==
    Quiet => /\ die[0] = die[1] /\ (die[0] \/ hp[0] = hp[1])
             /\ crossed \/ immortal[0] = immortal[1]

-----------------------------------------------------------------------------
(* Why the clients agree (proved in GameProofs). *)

\* The calls that can be on their way to client c: only the master turns the boss immortal.
Message(c) ==
    {<<"die">>} \cup ({"hit"} \X Damages) \cup ({"shock"} \X Pulse) \cup {<<"immortal", FALSE>>}
        \cup (IF c = Master THEN {} ELSE {<<"immortal", TRUE>>})
Typed ==
    /\ hp \in [Client -> Nat] /\ immortal \in [Client -> BOOLEAN] /\ die \in [Client -> BOOLEAN]
    /\ DOMAIN chan = Client /\ \A c \in Client : chan[c] \in Seq(Message(c))

\* A death is known to the other client or told to it.
Dying ==
    \A c \in Client :
        /\ die[c] => die[Other(c)] \/ \E i \in DOMAIN chan[Other(c)] : chan[Other(c)][i][1] = "die"
        /\ \A i \in DOMAIN chan[c] : chan[c][i][1] = "die" => die[Other(c)]

\* What is left of the health n when the calls of the queue q have arrived.
Cost(call) == IF call[1] = "hit" THEN call[2] ELSE 0
Remains(q, n, left) ==
    \E run \in [0 .. Len(q) -> Int] :
        /\ run[0] = n /\ run[Len(q)] = left
        /\ \A i \in 1 .. Len(q) : run[i] = run[i - 1] - Cost(q[i])
Counted == (\A c \in Client : ~die[c]) => \E left \in Int : \A c \in Client : Remains(chan[c], hp[c], left)

\* The last call of the queue q that is about the immortality says on, or, without one, now is on.
Ends(q, now, on) ==
    /\ \A i \in DOMAIN q : q[i][1] = "immortal" => q[i][2] = on \/ \E j \in DOMAIN q : i < j /\ q[j][1] = "immortal"
    /\ (\A i \in DOMAIN q : q[i][1] # "immortal") => now = on
Settling == ~crossed => ~Crossing /\ \E on \in BOOLEAN : \A c \in Client : Ends(chan[c], immortal[c], on)

BossInv == Typed /\ Dying /\ Counted /\ Settling
=============================================================================
