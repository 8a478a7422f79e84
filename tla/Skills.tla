-------------------------------- MODULE Skills --------------------------------
(***************************************************************************)
(* The skills of a hero on its own client (HACKED_CRUSHER.cpp,             *)
(* HACKED_ESPER.cpp, the cooldowns of HACKEDCharacter.cpp and the notifies *)
(* of the animations).  A skill takes from the player what he may do       *)
(* meanwhile and the end of its animation gives it back.  A hero falls at  *)
(* any time, which takes it, too, and may cut the animations short.        *)
(***************************************************************************)
EXTENDS Naturals, FiniteSets

CONSTANTS MaxCasts      \* bound: skills used

SkillsAssumption == MaxCasts \in Nat

Hero == {"crusher", "esper"}
Timed == [crusher |-> {"rush", "barrier", "punish", "vital", "dash"},   \* skills with a cooldown
          esper |-> {"drop", "force", "wave", "shield", "dash"}]
Ultimate == [crusher |-> "surge", esper |-> "drive"]
All == {"move", "turn", "attack"}

VARIABLES
    hero,      \* the hero of this client
    can,       \* what its player may do (_bCanMove, _bCanTurn, _bCanAttack)
    body,      \* "well", "down" or "rising"
    anims,     \* the skills whose animations have still to end
    held,      \* bIsBarrierGenerateActive, bIsVitalityShield: skills that still refuse to begin again
    rush,      \* the rocket rush: "no", "charging", "launching"
    ready,     \* the skills that are not cooling down
    charged,   \* the ultimate gauge is full
    surge,     \* bIsAdrenalSurge: no, until the animation has begun it, or until its timer ends
    swinging,  \* the attack goes on
    casts,
    freed      \* the Crusher's ultimate gave a fallen hero everything back (history)

vars == <<hero, can, body, anims, held, rush, ready, charged, surge, swinging, casts, freed>>

Init ==
    /\ hero \in Hero /\ can = All /\ body = "well"
    /\ anims = {} /\ held = {} /\ rush = "no"
    /\ ready = Timed[hero] /\ charged = FALSE /\ surge = "no" /\ swinging = FALSE
    /\ casts = 0 /\ freed = FALSE

Is(h) == hero = h
Fallen == body # "well"     \* bIsSelfHealing
-----------------------------------------------------------------------------
\* A skill begins: its animation plays, it cools down, and the player may do what is left
\* (SetEnableInput).  A press that is refused changes nothing.
Cast(s, allowed) ==
    /\ casts < MaxCasts /\ casts' = casts + 1
    /\ can' = allowed
    /\ anims' = anims \cup ({s} \ {"rush"})
    /\ held' = held \cup ({s} \cap {"barrier", "vital"})
    /\ rush' = IF s = "rush" THEN "charging" ELSE rush
    /\ ready' = ready \ {s}
    /\ charged' = (charged /\ s # Ultimate[hero])
    /\ surge' = IF s = "surge" THEN "cast" ELSE surge
    /\ UNCHANGED <<hero, body, swinging, freed>>

May(h, s) == Is(h) /\ "attack" \in can /\ s \in ready

RocketRushStart == May("crusher", "rush") /\ rush # "launching" /\ Cast("rush", {"move", "turn"})
BarrierGenerator ==
    May("crusher", "barrier") /\ "barrier" \notin held /\ ~swinging /\ Cast("barrier", {"turn"})
PunishShield == May("crusher", "punish") /\ ~swinging /\ Cast("punish", {"turn"})
VitalityShield == May("crusher", "vital") /\ "vital" \notin held /\ ~Fallen /\ Cast("vital", can)
AdrenalSurge == Is("crusher") /\ charged /\ ~swinging /\ Cast("surge", {})
CrusherDash == Is("crusher") /\ "dash" \in ready /\ ~Fallen /\ Cast("dash", can)

PsychicDrop == May("esper", "drop") /\ Cast("drop", {"turn"})
PsychicForce == May("esper", "force") /\ Cast("force", {})
PsychicShockWave == May("esper", "wave") /\ Cast("wave", {"move", "turn"})
PsychicShield == May("esper", "shield") /\ Cast("shield", {"turn"})
PsychicOverDrive == Is("esper") /\ "attack" \in can /\ charged /\ Cast("drive", {"turn"})
PsychicDash == May("esper", "dash") /\ Cast("dash", can)

\* Mutant: the notify at the end of an animation does not ask whether the hero has fallen.
GiveBack_Always == can' = All
GiveBack == can' = IF Fallen THEN can ELSE All

\* The animation of a skill ends.
Ends(s) ==
    /\ s \in anims /\ anims' = anims \ {s} /\ held' = held \ {s}
    /\ UNCHANGED <<hero, body, rush, ready, charged, surge, swinging, casts, freed>>

BarrierAnimationEnd == Ends("barrier") /\ GiveBack
PunishShieldEnd == Ends("punish") /\ GiveBack
VitalityShieldEnd == Ends("vital") /\ UNCHANGED can
CrusherDashFinish == Is("crusher") /\ Ends("dash") /\ UNCHANGED can
OnPsychicDropEnd == Ends("drop") /\ GiveBack
OnPsychicForceEnd == Ends("force") /\ GiveBack
ShockWaveEnd == Ends("wave") /\ GiveBack
PsychicShieldAnimEnd == Ends("shield") /\ GiveBack
PsychicOverDriveEnd == Ends("drive") /\ GiveBack
PsychicDashFinish == Is("esper") /\ Ends("dash") /\ UNCHANGED can

\* The notify in the Crusher's ultimate gives everything back, to a fallen hero, too.
OnAdrenalSurge ==
    /\ "surge" \in anims
    /\ anims' = anims \ {"surge"}
    /\ can' = All /\ surge' = "timed" /\ freed' = (freed \/ Fallen)
    /\ UNCHANGED <<hero, body, held, rush, ready, charged, swinging, casts>>

AdrenalSurgeEnd ==
    /\ surge = "timed" /\ surge' = "no"
    /\ UNCHANGED <<hero, can, body, anims, held, rush, ready, charged, swinging, casts, freed>>
-----------------------------------------------------------------------------
\* The end of a rush, with which a rush that was never charged ends, too.
\* Mutant: only a rush that was launched gives the input back.
RocketRushStop_Launched ==
    /\ rush' = "no" /\ (IF rush = "launching" THEN GiveBack ELSE UNCHANGED can)
RocketRushStop ==
    /\ rush' = "no" /\ GiveBack

\* The button is released (or charged to the full), charged enough or not.
RocketRushLaunch ==
    /\ Is("crusher") /\ rush # "launching"
    /\ \/ RocketRushStop
       \/ /\ rush = "charging" /\ rush' = "launching"
          /\ can' = can \ {"move", "turn"}
    /\ UNCHANGED <<hero, body, anims, held, ready, charged, surge, swinging, casts, freed>>

RocketRushing ==
    /\ rush = "launching" /\ RocketRushStop
    /\ UNCHANGED <<hero, body, anims, held, ready, charged, surge, swinging, casts, freed>>
-----------------------------------------------------------------------------
\* The primary attack of the Crusher is a montage, which goes on by itself; the Esper's goes on
\* until the button is released, and she may attack while a skill of hers goes on.
Attack ==
    /\ (Is("crusher") => "attack" \in can) /\ ~Fallen
    /\ swinging' = TRUE
    /\ UNCHANGED <<hero, can, body, anims, held, rush, ready, charged, surge, casts, freed>>

AttackEnd ==
    /\ swinging /\ swinging' = FALSE
    /\ UNCHANGED <<hero, can, body, anims, held, rush, ready, charged, surge, casts, freed>>

CoolDown(s) ==
    /\ s \in Timed[hero] \ ready
    /\ ready' = ready \cup {s}
    /\ UNCHANGED <<hero, can, body, anims, held, rush, charged, surge, swinging, casts, freed>>

UltimateGauge ==
    /\ ~charged /\ charged' = TRUE
    /\ UNCHANGED <<hero, can, body, anims, held, rush, ready, surge, swinging, casts, freed>>
-----------------------------------------------------------------------------
\* The hero falls, alone: its animations may be cut short, and then their ends do not come.
\* (The Esper takes no damage while her ultimate lasts.)
RPCSelfHealing ==
    /\ body = "well" /\ "drive" \notin anims
    /\ body' = "down" /\ can' = {"turn"}
    /\ anims' \in SUBSET anims
    /\ swinging' \in IF Is("crusher") THEN {FALSE, swinging} ELSE {swinging}
    /\ UNCHANGED <<hero, held, rush, ready, charged, surge, casts, freed>>

SelfHealingEnd ==
    /\ body = "down" /\ body' = "rising"
    /\ UNCHANGED <<hero, can, anims, held, rush, ready, charged, surge, swinging, casts, freed>>

SelfHealingAnimEnd ==
    /\ body = "rising" /\ body' = "well" /\ can' = All /\ freed' = FALSE
    /\ UNCHANGED <<hero, anims, held, rush, ready, charged, surge, swinging, casts>>

CrusherSkill ==
    \/ RocketRushStart \/ BarrierGenerator \/ PunishShield \/ VitalityShield \/ AdrenalSurge \/ CrusherDash
    \/ BarrierAnimationEnd \/ PunishShieldEnd \/ VitalityShieldEnd \/ CrusherDashFinish
    \/ OnAdrenalSurge \/ AdrenalSurgeEnd \/ RocketRushLaunch \/ RocketRushing

EsperSkill ==
    \/ PsychicDrop \/ PsychicForce \/ PsychicShockWave \/ PsychicShield \/ PsychicOverDrive \/ PsychicDash
    \/ OnPsychicDropEnd \/ OnPsychicForceEnd \/ ShockWaveEnd \/ PsychicShieldAnimEnd
    \/ PsychicOverDriveEnd \/ PsychicDashFinish

Next ==
    \/ CrusherSkill \/ EsperSkill
    \/ Attack \/ AttackEnd \/ UltimateGauge \/ \E s \in Timed[hero] : CoolDown(s)
    \/ RPCSelfHealing \/ SelfHealingEnd \/ SelfHealingAnimEnd

Spec == Init /\ [][Next]_vars
-----------------------------------------------------------------------------
\* A hero on the ground cannot attack or use skills, whatever was going on when it fell and
\* ends meanwhile, unless the Crusher's ultimate went on (HACKED_CRUSHER.cpp:626).
FallenHelpless == Fallen /\ ~freed => "attack" \notin can

\* A hero that stands with nothing going on may do everything again: no order of skills,
\* falls and cut animations leaves the player without control.
StandsFree == ~Fallen /\ rush = "no" /\ anims = {} => can = All
=============================================================================
