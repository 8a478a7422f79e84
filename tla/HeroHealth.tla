----------------------------- MODULE HeroHealth -----------------------------
(***************************************************************************)
(* The health of the two heroes on the two clients (HACKEDCharacter.cpp,   *)
(* HpComponent.cpp, and the healing and shield functions of                *)
(* HACKED_CRUSHER.cpp and HACKED_ESPER.cpp).  Every client has an object   *)
(* for each hero.  Its owner's object takes the damage and reports it; all *)
(* else (falling, getting up, shields) is called on one client, relayed,   *)
(* and run on both, where timers and animations go their own way.          *)
(***************************************************************************)
EXTENDS Integers, Sequences

CONSTANTS MaxHp, MaxShield,     \* health and shield of a hero (both heroes alike)
          MaxHits, MaxCasts     \* bounds: hits taken; shields cast and given up

HealthAssumption == {MaxHp, MaxShield} \subseteq Nat \ {0} /\ {MaxHits, MaxCasts} \subseteq Nat

Client == {0, 1}
Hero == {"crusher", "esper"}
Owner == [crusher |-> 0, esper |-> 1]
Other(c) == 1 - c
Partner(h) == IF h = "crusher" THEN "esper" ELSE "crusher"
Clamp(n, max) == IF n < 0 THEN 0 ELSE IF n > max THEN max ELSE n

VARIABLES
    hero,       \* hero[c][h]: the object of hero h on client c
    vital,      \* vital[c]: the shares of health VitalityShield gives, and how often it still does
    shieldTimer,\* the owner of the Esper will take the shields away
    leaving,    \* leaving[c]: client c has started to go back to the lobby
    over,       \* the server was told that the game ended
    chan,       \* chan[c]: calls on their way to client c
    hits, casts,
    told        \* told[h]: the last change of h's health on its owner's client was a report (history)

vars == <<hero, vital, shieldTimer, leaving, over, chan, hits, casts, told>>

Idle == [crusher |-> 0, esper |-> 0, left |-> 0]

Init ==
    /\ hero = [c \in Client |-> [h \in Hero |->
                [hp |-> MaxHp, shield |-> 0, check |-> FALSE, healing |-> FALSE, anim |-> "well", fail |-> FALSE]]]
    /\ vital = [c \in Client |-> Idle]
    /\ shieldTimer = FALSE
    /\ leaving = [c \in Client |-> FALSE]
    /\ over = FALSE
    /\ chan = [c \in Client |-> <<>>]
    /\ hits = 0 /\ casts = 0
    /\ told = [h \in Hero |-> TRUE]

-----------------------------------------------------------------------------
(* What a call does to the heroes of one client: from w, the heroes there,  *)
(* to [w, out, leave]: the heroes after it, the calls it sends on its way,  *)
(* and whether it starts the way back to the lobby.                         *)

Only(w) == [w |-> w, out |-> <<>>, leave |-> FALSE]

\* Mutant: only a hero that is dead counts as down.
IsOnSelfHealing_Dead(w, h) == w[h].fail
IsOnSelfHealing(w, h) == w[h].anim = "down" \/ w[h].fail

RPCBothDieProcess(w, h) == [w EXCEPT ![h].fail = TRUE]

\* A hero falls.  With the other one down too both die.
RPCSelfHealing(w, h) ==
    LET fallen == [w EXCEPT ![h].healing = TRUE]
    IN  IF IsOnSelfHealing(w, Partner(h))
        THEN [w |-> RPCBothDieProcess(RPCBothDieProcess(fallen, h), Partner(h)),
              out |-> <<<<"BothDie", h>>, <<"BothDie", Partner(h)>>>>, leave |-> TRUE]
        ELSE Only([fallen EXCEPT ![h].anim = "down"])

\* The shield takes the damage while there is one, and none of it is left over.
HpTakeDamage(o, damage) ==
    IF o.check /\ o.shield > 0
    THEN LET left == Clamp(o.shield - damage, MaxShield) IN [o EXCEPT !.shield = left, !.check = left > 0]
    ELSE [o EXCEPT !.check = FALSE, !.hp = Clamp(o.hp - damage, MaxHp)]

\* Mutant: the shield reported is lost.
SetHPAndShield_HPOnly(w, h, hp, shield) == [w EXCEPT ![h].hp = Clamp(hp, MaxHp)]
SetHPAndShield(w, h, hp, shield) ==
    [w EXCEPT ![h].hp = Clamp(hp, MaxHp), ![h].shield = Clamp(shield, MaxShield)]

\* The Esper alone gets half a shield more, beyond the maximum.
RPCCreatePsychicShield(w, both) ==
    IF both THEN [h \in Hero |-> [w[h] EXCEPT !.check = TRUE, !.shield = MaxShield]]
    ELSE [w EXCEPT !["esper"].check = TRUE, !["esper"].shield = (3 * MaxShield + 1) \div 2]

RPCDestroyShield(w) == [h \in Hero |-> [w[h] EXCEPT !.shield = 0]]

\* A share is two thirds of a shield (rounded up to a unit of health).
Share(shield) == (2 * shield + 2) \div 3
VitalityShares(w, left) ==
    [crusher |-> Share(w["crusher"].shield), esper |-> Share(w["esper"].shield), left |-> left]

-----------------------------------------------------------------------------
Untold(hs) == told' = [h \in Hero |-> told[h] /\ h \notin hs]

\* Client c runs a call it makes itself: the others hear of it first, then of what it calls.
Call(c, msg, r, after) ==
    /\ hero' = [hero EXCEPT ![c] = r.w]
    /\ leaving' = [leaving EXCEPT ![c] = @ \/ r.leave]
    /\ chan' = [chan EXCEPT ![Other(c)] = @ \o msg \o r.out \o after]

\* A hit on hero h, taken on its owner's client.
TakeDamage(h) ==
    LET c == Owner[h] IN
    /\ ~over /\ hits < MaxHits
    /\ ~hero[c][h].healing
    /\ \E damage \in 1 .. MaxHp :
        LET hurt == [hero[c] EXCEPT ![h] = HpTakeDamage(@, damage)]
            dead == hurt[h].hp = 0 /\ ~(hero[c][h].check /\ hero[c][h].shield > 0)
            r == IF dead THEN RPCSelfHealing(hurt, h) ELSE Only(hurt)
        IN  Call(c, IF dead THEN <<<<"SelfHealing", h>>>> ELSE <<>>, r,
                 <<<<"SetHP", h, r.w[h].hp, r.w[h].shield>>>>)
    /\ hits' = hits + 1
    /\ told' = [told EXCEPT ![h] = TRUE]
    /\ UNCHANGED <<vital, shieldTimer, over, casts>>

\* The time of healing is over: the hero begins to get up, the Esper with her health back.
\* (Calls take less than the ten seconds of healing.)
SelfHealingEnd(c, h) ==
    /\ ~over
    /\ hero[c][h].anim = "down" /\ ~hero[c][h].fail
    /\ \A d \in Client : <<"SelfHealing", h>> \notin {chan[d][i] : i \in DOMAIN chan[d]}
    /\ hero' = [hero EXCEPT ![c][h].anim = "rising", ![c][h].hp = IF h = "esper" THEN MaxHp ELSE @]
    /\ Untold(IF h = "esper" THEN {h} ELSE {})
    /\ UNCHANGED <<vital, shieldTimer, leaving, over, chan, hits, casts>>

\* The animation of getting up ends: the hero plays on, the Crusher with his health back.
SelfHealingAnimEnd(c, h) ==
    /\ ~over
    /\ hero[c][h].anim = "rising" /\ ~hero[c][h].fail
    /\ hero' = [hero EXCEPT ![c][h].anim = "well", ![c][h].healing = FALSE,
                            ![c][h].hp = IF h = "crusher" THEN MaxHp ELSE @]
    /\ Untold(IF h = "crusher" THEN {h} ELSE {})
    /\ UNCHANGED <<vital, shieldTimer, leaving, over, chan, hits, casts>>

\* The Esper shields herself, and the Crusher when he is near.
PsychicShieldOn ==
    LET c == Owner["esper"] IN
    /\ ~over /\ casts < MaxCasts
    /\ ~hero[c]["esper"].healing
    /\ \E both \in BOOLEAN : Call(c, <<<<"Create", both>>>>, Only(RPCCreatePsychicShield(hero[c], both)), <<>>)
    /\ shieldTimer' = TRUE
    /\ casts' = casts + 1
    /\ Untold(Hero)
    /\ UNCHANGED <<vital, over, hits>>

PsychicShieldDestroy ==
    LET c == Owner["esper"] IN
    /\ ~over /\ shieldTimer
    /\ Call(c, <<<<"Destroy">>>>, Only(RPCDestroyShield(hero[c])), <<>>)
    /\ shieldTimer' = FALSE
    /\ Untold(Hero)
    /\ UNCHANGED <<vital, over, hits, casts>>

\* The Crusher turns the shields into health, each client by what it knows of them.  A press
\* that is refused changes the shares of the health that is still flowing, on his client only.
VitalityShieldRefused ==
    LET c == Owner["crusher"] IN
    /\ ~over /\ vital[c].left > 0
    /\ vital' = [vital EXCEPT ![c] = VitalityShares(hero[c], @.left)]
    /\ UNCHANGED <<hero, shieldTimer, leaving, over, chan, hits, casts, told>>

VitalityShield ==
    LET c == Owner["crusher"] IN
    /\ ~over /\ casts < MaxCasts
    /\ ~hero[c]["crusher"].healing /\ vital[c] = Idle
    /\ \E h \in Hero : hero[c][h].shield > 0
    /\ vital' = [vital EXCEPT ![c] = VitalityShares(hero[c], 3)]
    /\ chan' = [chan EXCEPT ![Other(c)] = Append(@, <<"Vitality">>)]
    /\ casts' = casts + 1
    /\ UNCHANGED <<hero, shieldTimer, leaving, over, hits, told>>

\* One of the three times it gives health.
VitalityHealing(c) ==
    /\ ~over /\ vital[c].left > 0
    /\ hero' = [hero EXCEPT ![c] = [h \in Hero |->
                [hero[c][h] EXCEPT !.hp = Clamp(hero[c][h].hp + vital[c][h], MaxHp)]]]
    /\ vital' = [vital EXCEPT ![c] = IF vital[c].left = 1 THEN Idle ELSE [vital[c] EXCEPT !.left = @ - 1]]
    /\ Untold(Hero)
    /\ UNCHANGED <<shieldTimer, leaving, over, chan, hits, casts>>

\* A client handles the next call that was made on the other one.
RecvRPC(c) ==
    /\ ~over /\ chan[c] # <<>>
    /\ LET m == Head(chan[c])
           w == hero[c]
           r == CASE m[1] = "SetHP" -> Only(SetHPAndShield(w, m[2], m[3], m[4]))
                  [] m[1] = "SelfHealing" -> RPCSelfHealing(w, m[2])
                  [] m[1] = "BothDie" -> Only(RPCBothDieProcess(w, m[2]))
                  [] m[1] = "Create" -> Only(RPCCreatePsychicShield(w, m[2]))
                  [] m[1] = "Destroy" -> Only(RPCDestroyShield(w))
                  [] m[1] = "Vitality" -> Only(w)
       IN  /\ hero' = [hero EXCEPT ![c] = r.w]
           /\ leaving' = [leaving EXCEPT ![c] = @ \/ r.leave]
           /\ chan' = [chan EXCEPT ![c] = Tail(@), ![Other(c)] = @ \o r.out]
           /\ vital' \in IF m[1] # "Vitality" THEN {vital}
                         \* the copy refuses while a skill of its own view goes on
                         ELSE {[vital EXCEPT ![c] = IF @ = Idle THEN @ ELSE VitalityShares(w, @.left)],
                               [vital EXCEPT ![c] = IF @ # Idle THEN VitalityShares(w, @.left)
                                                    ELSE IF w["crusher"].healing THEN @
                                                    ELSE VitalityShares(w, 3)]}
           /\ Untold(IF m[1] \in {"Create", "Destroy"} THEN Hero ELSE {})
    /\ UNCHANGED <<shieldTimer, over, hits, casts>>

\* The fade-out ends and the server is told; it ends the game for everybody.
OnBackToLobby(c) ==
    /\ ~over /\ leaving[c]
    /\ over' = TRUE
    /\ UNCHANGED <<hero, vital, shieldTimer, leaving, chan, hits, casts, told>>

Step ==
    \/ \E c \in Client : RecvRPC(c) \/ VitalityHealing(c) \/ OnBackToLobby(c)
    \/ \E c \in Client, h \in Hero : SelfHealingEnd(c, h) \/ SelfHealingAnimEnd(c, h)

Next ==
    \/ \E h \in Hero : TakeDamage(h)
    \/ PsychicShieldOn \/ PsychicShieldDestroy \/ VitalityShield \/ VitalityShieldRefused
    \/ Step

Spec == Init /\ [][Next]_vars

-----------------------------------------------------------------------------
Quiet == \A c \in Client : chan[c] = <<>>

\* When both heroes lie on the ground on their own clients and no call is on its way, the
\* game is ending, although each of them may have fallen before hearing of the other
\* (AHACKED_CRUSHER::RPCSelfHealing, AHACKED_ESPER::RPCSelfHealing).
FallenEndsGame ==
    Quiet /\ (\A h \in Hero : hero[Owner[h]][h].anim = "down") => \E c \in Client : leaving[c]

\* The other client shows the health and shield of a hero as they are, when a hit was the last
\* thing to change them and no call is on its way (AHACKEDCharacter::TakeDamage).
HealthShown ==
    Quiet => \A h \in Hero : told[h] =>
        LET real == hero[Owner[h]][h]  shown == hero[Other(Owner[h])][h]
        IN  <<real.hp, real.shield>> = <<shown.hp, shown.shield>>

-----------------------------------------------------------------------------
(* Why the heroes are seen as they are (proved in HeroesProofs). *)
Played(c) == IF c = 0 THEN "crusher" ELSE "esper"

\* The calls that can be on their way to client c: a hero falls and is reported by its own client.
Message(c) ==
    {<<"SelfHealing", Played(Other(c))>>} \cup ({"SetHP"} \X {Played(Other(c))} \X (0 .. MaxHp) \X (0 .. MaxShield))
        \cup ({"BothDie"} \X Hero) \cup ({"Create"} \X BOOLEAN) \cup {<<"Destroy">>, <<"Vitality">>}
Object == [hp : 0 .. MaxHp, shield : Nat, check : BOOLEAN, healing : BOOLEAN,
           anim : {"well", "down", "rising"}, fail : BOOLEAN]
Typed ==
    /\ hero \in [Client -> [Hero -> Object]]
    /\ vital \in [Client -> [crusher : Nat, esper : Nat, left : Int]]
    /\ leaving \in [Client -> BOOLEAN] /\ told \in [Hero -> BOOLEAN]
    /\ DOMAIN chan = Client /\ \A c \in Client : chan[c] \in Seq(Message(c))

\* What is left of a shield holds on the own client.
ShieldsHold == \A c \in Client : hero[c][Played(c)].shield > 0 => hero[c][Played(c)].check

\* The last report in the queue q tells the health and shield of o, or, without one, they are shown.
Reports(q, o, shown) ==
    /\ \A i \in DOMAIN q : q[i][1] = "SetHP" =>
         (q[i][3] = o.hp /\ q[i][4] = o.shield) \/ \E j \in DOMAIN q : i < j /\ q[j][1] = "SetHP"
    /\ (\A i \in DOMAIN q : q[i][1] # "SetHP") => shown.hp = o.hp /\ shown.shield = o.shield
Reported ==
    \A c \in Client : told[Played(c)] =>
        Reports(chan[Other(c)], hero[c][Played(c)], hero[Other(c)][Played(c)])

\* When both have fallen one of them still has to hear of it.
Ending ==
    (\A c \in Client : hero[c][Played(c)].anim = "down") =>
        \E c \in Client : leaving[c] \/ \E i \in DOMAIN chan[c] : chan[c][i][1] = "SelfHealing"

HealthInv == Typed /\ ShieldsHold /\ Reported /\ Ending
=============================================================================
