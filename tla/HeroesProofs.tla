---------------------------- MODULE HeroesProofs -----------------------------
(***************************************************************************)
(* The heroes (MCGame): what the run checks on a small instance of their   *)
(* skills, their health, their choice, their attacks and their tutorial    *)
(* holds for all values of the constants.  Of each part the invariant that *)
(* is proved stands in its own module, next to what it explains; that of   *)
(* the skills stands here, that of the tutorial in TutorialProofs with its *)
(* proof.                                                                  *)
(***************************************************************************)
EXTENDS MCGame, QueueProofs

\* The skills that take nothing from the player, and give nothing back when they end.
SkillFree == {"vital", "dash"}

\* Whoever stands with less than everything has a rush or a skill before it that gives it back; to
\* end a free skill does not help.  (StandsFree alone is not inductive: a free skill may be the
\* last one to end.)
SkillAwaited == ~Skill!Fallen /\ v6 = "no" /\ v4 \subseteq SkillFree => v2 = Skill!All

SkillKept == Skill!FallenHelpless /\ SkillAwaited

LEMMA SkillBegins == Skill!Init => SkillKept
BY DEF Skill!Init, SkillKept, Skill!FallenHelpless, SkillAwaited, Skill!Fallen, Skill!All

\* A skill that is not free, begun by who may attack, or with nothing left to do.
LEMMA SkillCast ==
    ASSUME SkillKept, NEW s, NEW allowed, Skill!Cast(s, allowed),
           s \notin SkillFree, Skill!Fallen /\ ~v12 => "attack" \notin allowed
    PROVE  SkillKept'
  BY DEF Skill!Cast, Skill!FallenHelpless, Skill!Fallen, SkillAwaited, SkillKept

\* A free skill: what the player may do stays.
LEMMA SkillFreeCast ==
    ASSUME SkillKept, NEW s \in SkillFree, Skill!Cast(s, v2)
    PROVE  SkillKept'
  BY DEF SkillKept, Skill!Cast, Skill!FallenHelpless, Skill!Fallen, SkillAwaited, SkillFree

\* The end of a skill that gives everything back to who stands.
LEMMA SkillEnd ==
    ASSUME SkillKept, NEW s, Skill!Ends(s), Skill!GiveBack
    PROVE  SkillKept'
BY DEF SkillKept, Skill!Ends, Skill!GiveBack, Skill!FallenHelpless, SkillAwaited, Skill!Fallen

\* The end of a free skill.
LEMMA SkillFreeEnd ==
    ASSUME SkillKept, NEW s \in SkillFree, Skill!Ends(s), UNCHANGED v2
    PROVE  SkillKept'
  BY DEF SkillKept, Skill!Ends, Skill!FallenHelpless, Skill!Fallen, SkillAwaited

LEMMA SkillCrusher == ASSUME SkillKept, Skill!CrusherSkill PROVE SkillKept'
<1>1. CASE Skill!RocketRushStart
  BY <1>1, SkillCast DEF Skill!RocketRushStart, Skill!May, SkillKept, Skill!FallenHelpless, SkillFree
<1>2. CASE Skill!BarrierGenerator
  BY <1>2, SkillCast DEF Skill!BarrierGenerator, SkillFree
<1>3. CASE Skill!PunishShield
  BY <1>3, SkillCast DEF Skill!PunishShield, SkillFree
<1>4. CASE Skill!VitalityShield
  BY <1>4, SkillFreeCast DEF Skill!VitalityShield, SkillFree
<1>5. CASE Skill!AdrenalSurge
  BY <1>5, SkillCast DEF Skill!AdrenalSurge, SkillFree
<1>6. CASE Skill!CrusherDash
  BY <1>6, SkillFreeCast DEF Skill!CrusherDash, SkillFree
<1>7. CASE Skill!BarrierAnimationEnd \/ Skill!PunishShieldEnd
  BY <1>7, SkillEnd DEF Skill!BarrierAnimationEnd, Skill!PunishShieldEnd
<1>8. CASE Skill!VitalityShieldEnd \/ Skill!CrusherDashFinish
  BY <1>8, SkillFreeEnd DEF Skill!VitalityShieldEnd, Skill!CrusherDashFinish, SkillFree
<1>9. CASE Skill!OnAdrenalSurge
  BY <1>9 DEF Skill!OnAdrenalSurge, SkillKept, Skill!FallenHelpless, SkillAwaited, Skill!Fallen
<1>10. CASE Skill!AdrenalSurgeEnd
  BY <1>10 DEF Skill!AdrenalSurgeEnd, SkillKept, Skill!FallenHelpless, SkillAwaited, Skill!Fallen
<1>11. CASE Skill!RocketRushLaunch
  BY <1>11 DEF Skill!RocketRushLaunch, Skill!RocketRushStop, Skill!GiveBack, SkillKept, Skill!FallenHelpless, SkillAwaited, Skill!Fallen
<1>12. CASE Skill!RocketRushing
  BY <1>12 DEF Skill!RocketRushing, Skill!RocketRushStop, Skill!GiveBack, SkillKept, Skill!FallenHelpless, SkillAwaited, Skill!Fallen
<1> QED
  BY <1>1, <1>2, <1>3, <1>4, <1>5, <1>6, <1>7, <1>8, <1>9, <1>10, <1>11, <1>12 DEF Skill!CrusherSkill

LEMMA SkillEsper == ASSUME SkillKept, Skill!EsperSkill PROVE SkillKept'
<1>1. CASE Skill!PsychicDrop \/ Skill!PsychicForce \/ Skill!PsychicShield \/ Skill!PsychicOverDrive
  BY <1>1, SkillCast DEF Skill!PsychicDrop, Skill!PsychicForce, Skill!PsychicShield, Skill!PsychicOverDrive, SkillFree
<1>2. CASE Skill!PsychicShockWave
  BY <1>2, SkillCast DEF Skill!PsychicShockWave, SkillFree
<1>3. CASE Skill!PsychicDash
  BY <1>3, SkillFreeCast DEF Skill!PsychicDash, SkillFree
<1>4. CASE Skill!OnPsychicDropEnd \/ Skill!OnPsychicForceEnd \/ Skill!ShockWaveEnd \/ Skill!PsychicShieldAnimEnd
           \/ Skill!PsychicOverDriveEnd
  BY <1>4, SkillEnd DEF Skill!OnPsychicDropEnd, Skill!OnPsychicForceEnd, Skill!ShockWaveEnd, Skill!PsychicShieldAnimEnd,
                        Skill!PsychicOverDriveEnd
<1>5. CASE Skill!PsychicDashFinish
  BY <1>5, SkillFreeEnd DEF Skill!PsychicDashFinish, SkillFree
<1> QED BY <1>1, <1>2, <1>3, <1>4, <1>5 DEF Skill!EsperSkill

LEMMA SkillKeeps == SkillKept /\ [Skill!Next]_(Skill!vars) => SkillKept'
<1> SUFFICES ASSUME SkillKept, [Skill!Next]_(Skill!vars) PROVE SkillKept'
  OBVIOUS
<1>1. CASE Skill!CrusherSkill \/ Skill!EsperSkill
  BY <1>1, SkillCrusher, SkillEsper
<1>2. CASE Skill!Attack \/ Skill!AttackEnd \/ Skill!UltimateGauge
  BY <1>2 DEF Skill!Attack, Skill!AttackEnd, Skill!UltimateGauge, SkillKept, Skill!FallenHelpless, SkillAwaited, Skill!Fallen
<1>3. ASSUME NEW s \in Skill!Timed[v1], Skill!CoolDown(s) PROVE SkillKept'
  BY <1>3 DEF Skill!CoolDown, SkillKept, Skill!FallenHelpless, SkillAwaited, Skill!Fallen
<1>4. CASE Skill!RPCSelfHealing
  BY <1>4 DEF Skill!RPCSelfHealing, SkillKept, Skill!FallenHelpless, SkillAwaited, Skill!Fallen
<1>5. CASE Skill!SelfHealingEnd
  BY <1>5 DEF Skill!SelfHealingEnd, SkillKept, Skill!FallenHelpless, SkillAwaited, Skill!Fallen
<1>6. CASE Skill!SelfHealingAnimEnd
  BY <1>6 DEF Skill!SelfHealingAnimEnd, SkillKept, Skill!FallenHelpless, SkillAwaited, Skill!Fallen
<1>7. CASE UNCHANGED Skill!vars
  BY <1>7 DEF Skill!vars, SkillKept, Skill!FallenHelpless, SkillAwaited, Skill!Fallen
<1> QED BY <1>1, <1>2, <1>3, <1>4, <1>5, <1>6, <1>7 DEF Skill!Next

\* However many skills are used, and however falls and cut animations fall into them: the fallen
\* cannot attack (SetEnableInput of RPCSelfHealing, against the ends of the skills).
THEOREM FallenStayHelpless == Skill!Spec => []Skill!FallenHelpless
<1>1. SkillKept => Skill!FallenHelpless
  BY DEF SkillKept
<1> QED BY <1>1, SkillBegins, SkillKeeps, PTL DEF Skill!Spec

\* And whoever stands, with no rush or skill going on, may do everything.
THEOREM NobodyStuck == Skill!Spec => []Skill!StandsFree
<1>1. SkillKept => Skill!StandsFree
  BY DEF SkillKept, SkillAwaited, Skill!StandsFree, SkillFree
<1> QED BY <1>1, SkillBegins, SkillKeeps, PTL DEF Skill!Spec

SkillInv == part = "skills" => SkillKept

LEMMA SkillInit == Init => SkillInv
BY SkillBegins DEF Init, SkillInv

\* A part never becomes another one, and a step of it is a step of its module.
LEMMA SkillStep == SkillInv /\ [Next]_vars => SkillInv'
<1> SUFFICES ASSUME SkillInv, [Next]_vars, part' = "skills" PROVE SkillKept'
  BY DEF SkillInv
<1>1. part = "skills" /\ [Skill!Next]_(Skill!vars)
  BY DEF Next, vars, Skill!vars
<1> QED BY <1>1, SkillKeeps DEF SkillInv

\* However many skills are used, and however falls and cut animations fall into them: the fallen
\* cannot attack, and whoever stands with nothing going on has all control (SetEnableInput).
THEOREM SkillsHold == Spec => []SkillsOK
<1>1. SkillInv => SkillsOK
  BY DEF SkillInv, SkillsOK, SkillKept, SkillAwaited, Skill!StandsFree, SkillFree
<1> QED BY <1>1, SkillInit, SkillStep, PTL DEF Spec

-----------------------------------------------------------------------------
(***************************************************************************)
(* The health of the heroes.  Of the variables v1 is hero, v2 vital, v4    *)
(* leaving, v6 chan and v9 told.                                           *)
(***************************************************************************)
HealthInv == part = "health" => Health!HealthInv

LEMMA HealthClients ==
    /\ Health!Client = {0, 1} /\ Health!Other(0) = 1 /\ Health!Other(1) = 0
    /\ Health!Hero = {"crusher", "esper"} /\ Health!Played(0) = "crusher" /\ Health!Played(1) = "esper"
    /\ Health!Owner["crusher"] = 0 /\ Health!Owner["esper"] = 1
    /\ Health!Partner("crusher") = "esper" /\ Health!Partner("esper") = "crusher"
BY DEF Health!Client, Health!Other, Health!Hero, Health!Played, Health!Owner, Health!Partner

LEMMA HealthOwners ==
    /\ \A c \in Health!Client :
         /\ Health!Other(c) \in Health!Client /\ Health!Other(c) # c /\ Health!Other(Health!Other(c)) = c
         /\ Health!Played(c) \in Health!Hero /\ Health!Owner[Health!Played(c)] = c
         /\ Health!Partner(Health!Played(c)) = Health!Played(Health!Other(c))
         /\ Health!Played(c) # Health!Played(Health!Other(c))
    /\ \A h \in Health!Hero :
         /\ Health!Owner[h] \in Health!Client /\ Health!Played(Health!Owner[h]) = h
         /\ Health!Partner(h) \in Health!Hero /\ Health!Partner(h) # h
BY HealthClients

LEMMA HealthNumbers ==
    /\ HeroHp \in Nat /\ HeroHp > 0 /\ MaxShield \in Nat /\ MaxShield > 0
    /\ \A n, m \in Int : m >= 0 => Health!Clamp(n, m) \in 0 .. m
    /\ \A m \in Nat : \A n \in 0 .. m : Health!Clamp(n, m) = n
    /\ \A n \in Nat : Health!Share(n) \in Nat
    /\ (3 * MaxShield + 1) \div 2 \in Nat
  BY GameAssumption DEF GameAssumption, Health!HealthAssumption, Health!Clamp, Health!Share

\* Calls that are no reports change nothing of what is reported.
LEMMA HealthReportsMore ==
    ASSUME NEW S, NEW s \in Seq(S), NEW t \in Seq(S), NEW o, NEW w, Health!Reports(s, o, w),
           \A i \in DOMAIN t : t[i][1] # "SetHP"
    PROVE  Health!Reports(s \o t, o, w)
<1> DEFINE u == s \o t
<1>1. /\ \A i \in DOMAIN s : i \in DOMAIN u /\ u[i] = s[i]
      /\ \A i \in DOMAIN u : u[i][1] = "SetHP" => i \in DOMAIN s /\ u[i] = s[i]
  BY QueueGrows
<1> HIDE DEF u
<1>2. Health!Reports(u, o, w)
  BY <1>1 DEF Health!Reports
<1> QED BY <1>2 DEF u

\* A report at the end of the queue.
LEMMA HealthReportsNew ==
    ASSUME NEW S, NEW s \in Seq(S), NEW m \in S, NEW o, NEW w, m[1] = "SetHP", m[3] = o.hp, m[4] = o.shield
    PROVE  Health!Reports(s \o <<m>>, o, w)
<1> DEFINE t == <<m>>
           u == s \o t
<1>1. t \in Seq(S) /\ DOMAIN t = {1} /\ t[1] = m
  OBVIOUS
<1>2. Len(s) \in Nat /\ DOMAIN s = 1 .. Len(s)
  OBVIOUS
<1> HIDE DEF t
<1>3. /\ \A i \in DOMAIN u : (i \in DOMAIN s /\ u[i] = s[i]) \/ (u[i] = m /\ i = Len(s) + 1)
      /\ Len(s) + 1 \in DOMAIN u /\ u[Len(s) + 1] = m
  BY <1>1, QueueGrows
<1> HIDE DEF u
<1>4. \A i \in DOMAIN s : i < Len(s) + 1
  BY <1>2
<1>5. Health!Reports(u, o, w)
  BY <1>3, <1>4 DEF Health!Reports
<1> QED BY <1>5 DEF t, u

\* The call at the head of the queue is handled.
LEMMA HealthReportsNext ==
    ASSUME NEW S, NEW q \in Seq(S), q # << >>, NEW o, NEW w, NEW x, Health!Reports(q, o, w),
           IF q[1][1] = "SetHP" THEN x.hp = q[1][3] /\ x.shield = q[1][4]
           ELSE x.hp = w.hp /\ x.shield = w.shield
    PROVE  Health!Reports(Tail(q), o, x)
<1> DEFINE t == Tail(q)
<1>0. /\ Len(q) \in Nat \ {0} /\ DOMAIN q = 1 .. Len(q) /\ DOMAIN t = 1 .. Len(q) - 1
      /\ \A i \in 1 .. Len(q) - 1 : t[i] = q[i + 1]
  BY QueueTails
<1> DEFINE n == Len(q) - 1
<1>1. n \in Nat /\ Len(q) = n + 1
  BY <1>0
<1>2. /\ DOMAIN q = 1 .. n + 1 /\ DOMAIN t = 1 .. n /\ \A i \in 1 .. n : t[i] = q[i + 1]
  BY <1>0, <1>1
<1> HIDE DEF n, t
<1>3. /\ 1 \in 1 .. n + 1
      /\ \A i \in 1 .. n : i + 1 \in 1 .. n + 1
      /\ \A i \in 1 .. n + 1 : i = 1 \/ (i > 1 /\ i - 1 \in 1 .. n /\ (i - 1) + 1 = i)
      /\ \A i \in 1 .. n, j \in 1 .. n + 1 : i + 1 < j => j > 1 /\ i < j - 1
  BY <1>1
<1>4. ASSUME NEW i \in 1 .. n, t[i][1] = "SetHP"
      PROVE  (t[i][3] = o.hp /\ t[i][4] = o.shield) \/ \E j \in 1 .. n : i < j /\ t[j][1] = "SetHP"
  <2>1. (q[i + 1][3] = o.hp /\ q[i + 1][4] = o.shield) \/ \E j \in 1 .. n + 1 : i + 1 < j /\ q[j][1] = "SetHP"
    BY <1>2, <1>3, <1>4 DEF Health!Reports
  <2>2. ASSUME NEW j \in 1 .. n + 1, i + 1 < j, q[j][1] = "SetHP"
        PROVE  \E k \in 1 .. n : i < k /\ t[k][1] = "SetHP"
    BY <1>3, <2>2, <1>2
  <2> QED BY <1>2, <2>1, <2>2
<1>5. ASSUME \A i \in 1 .. n : t[i][1] # "SetHP"
      PROVE  x.hp = o.hp /\ x.shield = o.shield
  <2>1. \A j \in 1 .. n + 1 : j # 1 => j > 1 /\ q[j][1] # "SetHP"
    <3> SUFFICES ASSUME NEW j \in 1 .. n + 1, j # 1
                 PROVE  j > 1 /\ q[j][1] # "SetHP"
      OBVIOUS
    <3>1. j > 1 /\ j - 1 \in 1 .. n /\ (j - 1) + 1 = j
      BY <1>3
    <3> QED BY <1>2, <1>5, <3>1
  <2>2. CASE q[1][1] = "SetHP"
    BY <1>2, <1>3, <2>2, <2>1 DEF Health!Reports
  <2>3. CASE q[1][1] # "SetHP"
    BY <1>2, <2>1, <2>3 DEF Health!Reports
  <2> QED BY <2>2, <2>3
<1>6. Health!Reports(t, o, x)
  BY <1>2, <1>4, <1>5 DEF Health!Reports
<1> QED BY <1>6 DEF t

HealthWorld == [Health!Hero -> Health!Object]
HealthVital == [crusher : Nat, esper : Nat, left : Int]

\* Only health and shield are reported.
LEMMA HealthReportsSame ==
    ASSUME NEW q, NEW o, NEW w, NEW o2, NEW w2, Health!Reports(q, o, w),
           o2.hp = o.hp, o2.shield = o.shield, w2.hp = w.hp, w2.shield = w.shield
    PROVE  Health!Reports(q, o2, w2)
BY DEF Health!Reports

\* The calls, each by its kind.
LEMMA HealthMessages ==
    ASSUME NEW c \in Health!Client
    PROVE  /\ <<"SelfHealing", Health!Played(Health!Other(c))>> \in Health!Message(c)
           /\ \A n \in 0 .. HeroHp, k \in 0 .. MaxShield : <<"SetHP", Health!Played(Health!Other(c)), n, k>> \in Health!Message(c)
           /\ \A h \in Health!Hero : <<"BothDie", h>> \in Health!Message(c)
           /\ \A b \in BOOLEAN : <<"Create", b>> \in Health!Message(c)
           /\ <<"Destroy">> \in Health!Message(c) /\ <<"Vitality">> \in Health!Message(c)
           /\ \A m \in Health!Message(c) :
                /\ m[1] \in {"SelfHealing", "SetHP", "BothDie", "Create", "Destroy", "Vitality"}
                /\ m[1] = "SelfHealing" => m[2] = Health!Played(Health!Other(c))
                /\ m[1] = "SetHP" => m[2] = Health!Played(Health!Other(c)) /\ m[3] \in 0 .. HeroHp /\ m[4] \in 0 .. MaxShield
                /\ m[1] = "BothDie" => m[2] \in Health!Hero
                /\ m[1] = "Create" => m[2] \in BOOLEAN
BY DEF Health!Message

LEMMA HealthKeeps ==
    ASSUME Health!Typed, NEW c \in Health!Client
    PROVE  /\ v1[c] \in HealthWorld /\ v2[c] \in HealthVital /\ v6[c] \in Seq(Health!Message(c))
           /\ \A h \in Health!Hero : v1[c][h] \in Health!Object
BY DEF Health!Typed, HealthWorld, HealthVital

LEMMA HealthSets ==
    ASSUME NEW w \in HealthWorld, NEW h \in Health!Hero, NEW x \in Health!Object
    PROVE  /\ [w EXCEPT ![h] = x] \in HealthWorld /\ [w EXCEPT ![h] = x][h] = x
           /\ \A g \in Health!Hero : g # h => [w EXCEPT ![h] = x][g] = w[g]
BY DEF HealthWorld

LEMMA HealthDies ==
    ASSUME NEW w \in HealthWorld, NEW h \in Health!Hero
    PROVE  /\ Health!RPCBothDieProcess(w, h) \in HealthWorld
           /\ \A g \in Health!Hero :
                LET n == Health!RPCBothDieProcess(w, h)[g]
                IN  n.hp = w[g].hp /\ n.shield = w[g].shield /\ n.check = w[g].check /\ n.anim = w[g].anim
<1> DEFINE x == [w[h] EXCEPT !.fail = TRUE]
           u == [w EXCEPT ![h] = x]
<1>1. w[h] \in Health!Object
  BY DEF HealthWorld
<1>2. /\ x \in Health!Object /\ x.hp = w[h].hp /\ x.shield = w[h].shield /\ x.check = w[h].check
      /\ x.anim = w[h].anim
  BY <1>1 DEF Health!Object
<1>3. Health!RPCBothDieProcess(w, h) = u
  BY DEF Health!RPCBothDieProcess
<1> HIDE DEF x
<1>4. u \in HealthWorld /\ u[h] = x /\ \A g \in Health!Hero : g # h => u[g] = w[g]
  BY <1>2, HealthSets
<1> HIDE DEF u
<1> QED BY <1>2, <1>3, <1>4

\* A hero falls: health and shields stay, and with the other one down the game is about to end.
LEMMA HealthFalls ==
    ASSUME NEW w \in HealthWorld, NEW h \in Health!Hero, NEW r, r = Health!RPCSelfHealing(w, h)
    PROVE  /\ r.w \in HealthWorld /\ r.leave \in BOOLEAN /\ r.out \in Seq({"BothDie"} \X Health!Hero)
           /\ \A g \in Health!Hero : r.w[g].hp = w[g].hp /\ r.w[g].shield = w[g].shield /\ r.w[g].check = w[g].check
           /\ r.w[Health!Partner(h)].anim = w[Health!Partner(h)].anim
           /\ w[Health!Partner(h)].anim = "down" => r.leave
<1> DEFINE p == Health!Partner(h)
           fallen == [w EXCEPT ![h].healing = TRUE]
<1>1. p \in Health!Hero /\ p # h
  BY HealthOwners
<1> HIDE DEF p
<1>2. /\ fallen \in HealthWorld
      /\ \A g \in Health!Hero : /\ fallen[g].hp = w[g].hp /\ fallen[g].shield = w[g].shield
                                /\ fallen[g].check = w[g].check /\ fallen[g].anim = w[g].anim
  BY DEF HealthWorld, Health!Object
<1> HIDE DEF fallen
<1>3. CASE Health!IsOnSelfHealing(w, p)
  <2> DEFINE one == Health!RPCBothDieProcess(fallen, h)
             both == Health!RPCBothDieProcess(one, p)
             out == << <<"BothDie", h>>, <<"BothDie", p>> >>
  <2>1. r = [w |-> both, out |-> out, leave |-> TRUE]
    BY <1>3 DEF Health!RPCSelfHealing, fallen, p
  <2>2. /\ one \in HealthWorld
        /\ \A g \in Health!Hero : /\ one[g].hp = fallen[g].hp /\ one[g].shield = fallen[g].shield
                                  /\ one[g].check = fallen[g].check /\ one[g].anim = fallen[g].anim
    BY <1>2, HealthDies
  <2> HIDE DEF one
  <2>3. /\ both \in HealthWorld
        /\ \A g \in Health!Hero : /\ both[g].hp = one[g].hp /\ both[g].shield = one[g].shield
                                  /\ both[g].check = one[g].check /\ both[g].anim = one[g].anim
    BY <1>1, <2>2, HealthDies
  <2>4. out \in Seq({"BothDie"} \X Health!Hero)
    BY <1>1
  <2> HIDE DEF both, out
  <2> QED BY <1>1, <1>2, <2>1, <2>2, <2>3, <2>4 DEF p
<1>4. CASE ~Health!IsOnSelfHealing(w, p)
  <2> DEFINE down == [fallen EXCEPT ![h].anim = "down"]
  <2>1. r = [w |-> down, out |-> << >>, leave |-> FALSE]
    BY <1>4 DEF Health!RPCSelfHealing, Health!Only, fallen, p
  <2>2. /\ down \in HealthWorld /\ down[p].anim = fallen[p].anim
        /\ \A g \in Health!Hero : /\ down[g].hp = fallen[g].hp /\ down[g].shield = fallen[g].shield
                                  /\ down[g].check = fallen[g].check
    BY <1>1, <1>2 DEF HealthWorld, Health!Object
  <2>3. w[p].anim # "down"
    BY <1>4 DEF Health!IsOnSelfHealing
  <2> HIDE DEF down
  <2>4. << >> \in Seq({"BothDie"} \X Health!Hero)
    OBVIOUS
  <2> QED BY <1>1, <1>2, <2>1, <2>2, <2>3, <2>4 DEF p
<1> QED BY <1>3, <1>4

\* A client makes calls, which the other one will handle after those before.
LEMMA HealthCalls ==
    ASSUME Health!Typed, NEW c \in Health!Client, NEW o \in Health!Client, o # c, NEW t \in Seq(Health!Message(o)),
           v6' = [v6 EXCEPT ![o] = v6[o] \o t]
    PROVE  /\ DOMAIN v6' = Health!Client /\ \A d \in Health!Client : v6'[d] \in Seq(Health!Message(d))
           /\ v6'[c] = v6[c] /\ v6'[o] = v6[o] \o t
           /\ \A d \in Health!Client : \A i \in DOMAIN v6[d] : i \in DOMAIN v6'[d] /\ v6'[d][i] = v6[d][i]
<1>1. \A d \in Health!Client : d = c \/ d = o
  BY HealthClients
<1>2. /\ DOMAIN v6' = Health!Client /\ v6'[c] = v6[c] /\ v6'[o] = v6[o] \o t
      /\ v6[c] \in Seq(Health!Message(c)) /\ v6[o] \in Seq(Health!Message(o))
  BY DEF Health!Typed
<1>3. /\ v6[o] \o t \in Seq(Health!Message(o))
      /\ \A i \in DOMAIN v6[o] : i \in DOMAIN (v6[o] \o t) /\ (v6[o] \o t)[i] = v6[o][i]
  BY <1>2, QueueGrows
<1> QED BY <1>1, <1>2, <1>3

\* The game's end stays in sight as long as no hero falls.
LEMMA HealthEnds ==
    ASSUME Health!Ending,
           \A c \in Health!Client : v1'[c][Health!Played(c)].anim = "down" => v1[c][Health!Played(c)].anim = "down",
           \A c \in Health!Client : v4[c] => v4'[c],
           \A c \in Health!Client : \A i \in DOMAIN v6[c] : i \in DOMAIN v6'[c] /\ v6'[c][i] = v6[c][i]
    PROVE  Health!Ending'
BY DEF Health!Ending

\* What a hit leaves of a hero.
LEMMA HealthHit ==
    ASSUME NEW o \in Health!Object, o.shield > 0 => o.check, NEW damage \in Int
    PROVE  LET n == Health!HpTakeDamage(o, damage)
           IN  /\ n \in Health!Object /\ n.shield \in 0 .. MaxShield /\ (n.shield > 0 => n.check) /\ n.anim = o.anim
<1> DEFINE left == Health!Clamp(o.shield - damage, MaxShield)
           hp == Health!Clamp(o.hp - damage, HeroHp)
<1>1. left \in 0 .. MaxShield /\ hp \in 0 .. HeroHp /\ o.shield \in Nat
  <2>1. o.shield \in Nat /\ o.hp \in 0 .. HeroHp
    BY DEF Health!Object
  <2>2. /\ o.shield - damage \in Int /\ o.hp - damage \in Int
        /\ HeroHp \in Int /\ HeroHp >= 0 /\ MaxShield \in Int /\ MaxShield >= 0
    <3>1. HeroHp \in Nat /\ MaxShield \in Nat
      BY HealthNumbers
    <3>2. o.hp \in Int /\ o.shield \in Int
      BY <2>1, <3>1
    <3> HIDE DEF left, hp
    <3> QED BY <3>1, <3>2
  <2>3. left \in 0 .. MaxShield
    BY <2>2 DEF Health!Clamp
  <2>4. hp \in 0 .. HeroHp
    BY <2>2 DEF Health!Clamp
  <2> QED BY <2>1, <2>3, <2>4
<1> HIDE DEF left, hp
<1>2. CASE o.check /\ o.shield > 0
  <2>1. Health!HpTakeDamage(o, damage) = [o EXCEPT !.shield = left, !.check = left > 0]
    BY <1>2 DEF Health!HpTakeDamage, left
  <2> DEFINE more == left > 0
  <2>2. more \in BOOLEAN /\ left \in Nat /\ (left > 0 => more)
    BY <1>1, HealthNumbers
  <2>3. Health!HpTakeDamage(o, damage) = [o EXCEPT !.shield = left, !.check = more]
    BY <2>1
  <2> HIDE DEF more
  <2>4. PICK x : x = [o EXCEPT !.shield = left, !.check = more]
    OBVIOUS
  <2>5. x \in Health!Object /\ x.shield = left /\ x.check = more /\ x.anim = o.anim
    BY <2>2, <2>4 DEF Health!Object
  <2> QED BY <1>1, <2>2, <2>3, <2>4, <2>5
<1>3. CASE ~(o.check /\ o.shield > 0)
  <2>1. Health!HpTakeDamage(o, damage) = [o EXCEPT !.check = FALSE, !.hp = hp]
    BY <1>3 DEF Health!HpTakeDamage, hp
  <2>2. o.shield = 0 /\ 0 \in 0 .. MaxShield
    <3>1. ~(o.shield > 0)
      BY <1>3
    <3> QED BY <1>1, <3>1, HealthNumbers
  <2>3. PICK x : x = [o EXCEPT !.check = FALSE, !.hp = hp]
    OBVIOUS
  <2>4. x \in Health!Object /\ x.shield = o.shield /\ x.anim = o.anim
    BY <1>1, <2>3 DEF Health!Object
  <2> QED BY <2>1, <2>2, <2>3, <2>4
<1> QED BY <1>2, <1>3
\* What a client calls: of its own hero a report may come last.
LEMMA HealthReportedNew ==
    ASSUME Health!Typed, Health!Reported, NEW c \in Health!Client, NEW o \in Health!Client, o = Health!Other(c),
           NEW u \in Seq(Health!Message(o)), NEW m \in Health!Message(o), NEW w \in HealthWorld,
           v1' = [v1 EXCEPT ![c] = w], v6' = [v6 EXCEPT ![o] = u \o <<m>>], m[1] = "SetHP",
           m[3] = w[Health!Played(c)].hp, m[4] = w[Health!Played(c)].shield,
           w[Health!Played(o)].hp = v1[c][Health!Played(o)].hp,
           w[Health!Played(o)].shield = v1[c][Health!Played(o)].shield,
           v9'[Health!Played(o)] => v9[Health!Played(o)]
    PROVE  Health!Reported'
<1>1. o # c /\ Health!Other(o) = c /\ \A d \in Health!Client : d = c \/ d = o
  BY HealthOwners, HealthClients
<1>2. v1'[c] = w /\ v1'[o] = v1[o] /\ v6'[c] = v6[c] /\ v6'[o] = u \o <<m>>
  BY <1>1 DEF Health!Typed
<1>3. Health!Reports(u \o <<m>>, w[Health!Played(c)], v1[o][Health!Played(c)])
  BY HealthReportsNew
<1>4. v9[Health!Played(o)] => Health!Reports(v6[c], v1[o][Health!Played(o)], v1[c][Health!Played(o)])
  BY <1>1 DEF Health!Reported
<1>5. v9[Health!Played(o)] => Health!Reports(v6[c], v1[o][Health!Played(o)], w[Health!Played(o)])
  BY <1>4, HealthReportsSame
<1>6. \A d \in Health!Client : v9'[Health!Played(d)] =>
        Health!Reports(v6'[Health!Other(d)], v1'[d][Health!Played(d)], v1'[Health!Other(d)][Health!Played(d)])
  BY <1>1, <1>2, <1>3, <1>5
<1> QED BY <1>6 DEF Health!Reported, Health!Reports

LEMMA HealthTakes ==
    ASSUME Health!HealthInv, NEW h \in Health!Hero, Health!TakeDamage(h)
    PROVE  Health!HealthInv'
<1>1. PICK c \in Health!Client : c = Health!Owner[h] /\ Health!Played(c) = h
  BY HealthOwners
<1>2. PICK o \in Health!Client : o = Health!Other(c) /\ o # c /\ Health!Other(o) = c /\ Health!Played(o) = Health!Partner(h)
  BY <1>1, HealthOwners
<1>3. /\ Health!Typed /\ Health!ShieldsHold /\ Health!Reported /\ Health!Ending
      /\ v1[c] \in HealthWorld /\ v1[c][h] \in Health!Object /\ v6[o] \in Seq(Health!Message(o))
  BY HealthKeeps DEF Health!HealthInv
<1>4. /\ v2' = v2 /\ v3' = v3 /\ v9' = [v9 EXCEPT ![h] = TRUE]
  BY SMTT(60) DEF Health!TakeDamage
<1>5. PICK damage \in 1 .. HeroHp :
        LET hurt == [v1[c] EXCEPT ![h] = Health!HpTakeDamage(@, damage)]
            dead == hurt[h].hp = 0 /\ ~(v1[c][h].check /\ v1[c][h].shield > 0)
            r == IF dead THEN Health!RPCSelfHealing(hurt, h) ELSE Health!Only(hurt)
        IN  Health!Call(c, IF dead THEN <<<<"SelfHealing", h>>>> ELSE <<>>, r,
                        <<<<"SetHP", h, r.w[h].hp, r.w[h].shield>>>>)
  BY <1>1 DEF Health!TakeDamage
<1>6. PICK n : n = Health!HpTakeDamage(v1[c][h], damage)
  OBVIOUS
<1>7. /\ n \in Health!Object /\ n.shield \in 0 .. MaxShield /\ (n.shield > 0 => n.check) /\ n.anim = v1[c][h].anim
  <2>1. damage \in Int
    OBVIOUS
  <2>2. v1[c][h].shield > 0 => v1[c][h].check
    BY <1>1, <1>3 DEF Health!ShieldsHold
  <2> QED BY <1>3, <1>6, <2>1, <2>2, HealthHit
<1>8. PICK hurt : hurt = [v1[c] EXCEPT ![h] = n]
  OBVIOUS
<1>9. hurt \in HealthWorld /\ hurt[h] = n /\ \A g \in Health!Hero : g # h => hurt[g] = v1[c][g]
  BY <1>3, <1>7, <1>8, HealthSets
<1> DEFINE dead == hurt[h].hp = 0 /\ ~(v1[c][h].check /\ v1[c][h].shield > 0)
           r == IF dead THEN Health!RPCSelfHealing(hurt, h) ELSE Health!Only(hurt)
           first == IF dead THEN <<<<"SelfHealing", h>>>> ELSE <<>>
           m == <<"SetHP", h, r.w[h].hp, r.w[h].shield>>
           u == v6[o] \o first \o r.out
<1>10. /\ v1' = [v1 EXCEPT ![c] = r.w] /\ v4' = [v4 EXCEPT ![c] = v4[c] \/ r.leave]
       /\ v6' = [v6 EXCEPT ![o] = u \o <<m>>]
  BY <1>2, <1>5, <1>6, <1>8 DEF Health!Call
<1>11. /\ r.w \in HealthWorld /\ r.leave \in BOOLEAN /\ r.out \in Seq({"BothDie"} \X Health!Hero)
       /\ \A g \in Health!Hero : r.w[g].hp = hurt[g].hp /\ r.w[g].shield = hurt[g].shield /\ r.w[g].check = hurt[g].check
       /\ dead \/ r.w = hurt
  <2>1. CASE dead
    BY <1>9, <2>1, HealthFalls
  <2>2. CASE ~dead
    <3>1. r.w = hurt /\ r.leave = FALSE /\ r.out = << >>
      BY <2>2 DEF Health!Only
    <3>2. << >> \in Seq({"BothDie"} \X Health!Hero)
      OBVIOUS
    <3> HIDE DEF r
    <3> QED BY <1>9, <3>1, <3>2
  <2> QED BY <2>1, <2>2
<1>12. first \in Seq(Health!Message(o)) /\ (dead => first = <<<<"SelfHealing", h>>>>)
  <2>1. <<"SelfHealing", h>> \in Health!Message(o)
    BY <1>1, <1>2, HealthMessages
  <2> QED BY <2>1
<1>13. r.out \in Seq(Health!Message(o))
  <2>1. {"BothDie"} \X Health!Hero \subseteq Health!Message(o)
    BY DEF Health!Message
  <2> HIDE DEF r
  <2> QED BY <1>11, <2>1
<1>14. m \in Health!Message(o) /\ m[1] = "SetHP" /\ m[3] = r.w[h].hp /\ m[4] = r.w[h].shield
  <2> HIDE DEF r
  <2>1. r.w[h].hp \in 0 .. HeroHp /\ r.w[h].shield \in 0 .. MaxShield
    BY <1>7, <1>9, <1>11 DEF HealthWorld, Health!Object
  <2> QED BY <1>1, <1>2, <2>1, HealthMessages
<1> HIDE DEF r, first, dead, m
<1>15. /\ u \in Seq(Health!Message(o))
       /\ \A i \in DOMAIN v6[o] : i \in DOMAIN u /\ u[i] = v6[o][i]
       /\ dead => \E i \in DOMAIN u : u[i][1] = "SelfHealing"
  <2> DEFINE t == v6[o] \o first
  <2>1. /\ t \in Seq(Health!Message(o)) /\ \A i \in DOMAIN v6[o] : i \in DOMAIN t /\ t[i] = v6[o][i]
        /\ \A j \in DOMAIN first : Len(v6[o]) + j \in DOMAIN t /\ t[Len(v6[o]) + j] = first[j]
    BY SMTT(60), <1>3, <1>12, QueueGrows
  <2>2. dead => \E i \in DOMAIN t : t[i][1] = "SelfHealing"
    <3>1. dead => 1 \in DOMAIN first /\ first[1][1] = "SelfHealing"
      BY <1>12
    <3> HIDE DEF t
    <3> QED BY <2>1, <3>1
  <2> HIDE DEF t
  <2>3. /\ t \o r.out \in Seq(Health!Message(o))
        /\ \A i \in DOMAIN t : i \in DOMAIN (t \o r.out) /\ (t \o r.out)[i] = t[i]
    BY <1>13, <2>1, QueueGrows
  <2>4. u = t \o r.out
    BY DEF t
  <2> HIDE DEF u
  <2> QED BY <2>1, <2>2, <2>3, <2>4
<1> HIDE DEF u
<1>16. /\ u \o <<m>> \in Seq(Health!Message(o))
       /\ \A i \in DOMAIN u : i \in DOMAIN (u \o <<m>>) /\ (u \o <<m>>)[i] = u[i]
  BY <1>14, <1>15, QueueGrows
<1>17. /\ DOMAIN v6' = Health!Client /\ v6'[c] = v6[c] /\ v6'[o] = u \o <<m>>
       /\ \A d \in Health!Client : v6'[d] \in Seq(Health!Message(d))
       /\ \A d \in Health!Client : \A i \in DOMAIN v6[d] : i \in DOMAIN v6'[d] /\ v6'[d][i] = v6[d][i]
  BY <1>2, HealthClients, <1>3, <1>10, HealthKeeps, <1>15, <1>16 DEF Health!Typed
<1>18. /\ v1' \in [Health!Client -> HealthWorld] /\ v1'[c] = r.w /\ \A d \in Health!Client : d # c => v1'[d] = v1[d]
       /\ v4' \in [Health!Client -> BOOLEAN] /\ \A d \in Health!Client : v4[d] => v4'[d]
       /\ v9' \in [Health!Hero -> BOOLEAN]
  BY <1>3, <1>10, <1>11, <1>4 DEF Health!Typed, HealthWorld
<1>19. Health!Typed'
  BY <1>3, <1>4, <1>17, <1>18 DEF Health!Typed, HealthWorld
<1>20. Health!ShieldsHold'
  <2>1. r.w[h].shield > 0 => r.w[h].check
    BY <1>7, <1>9, <1>11
  <2> QED BY <1>1, <1>3, <1>18, <2>1 DEF Health!ShieldsHold
<1>21. Health!Reported'
  <2>1. Health!Played(o) # h /\ Health!Played(o) \in Health!Hero
    BY <1>2, HealthOwners
  <2>2. v9'[Health!Played(o)] => v9[Health!Played(o)]
    BY <1>3, <1>4, <2>1 DEF Health!Typed
  <2>3. /\ r.w[Health!Played(o)].hp = v1[c][Health!Played(o)].hp
        /\ r.w[Health!Played(o)].shield = v1[c][Health!Played(o)].shield
    BY <1>9, <1>11, <2>1
  <2>4. PICK q \in Seq(Health!Message(o)) : q = u
    BY <1>15
  <2>5. PICK k \in Health!Message(o) : k = m
    BY <1>14
  <2>6. PICK w \in HealthWorld : w = r.w
    BY <1>11
  <2>7. v1' = [v1 EXCEPT ![c] = w] /\ v6' = [v6 EXCEPT ![o] = q \o <<k>>]
    BY <1>10, <2>4, <2>5, <2>6
  <2>8. k[1] = "SetHP" /\ k[3] = w[Health!Played(c)].hp /\ k[4] = w[Health!Played(c)].shield
    BY <1>1, <1>14, <2>5, <2>6
  <2>9. /\ w[Health!Played(o)].hp = v1[c][Health!Played(o)].hp
        /\ w[Health!Played(o)].shield = v1[c][Health!Played(o)].shield
    BY <2>3, <2>6
  <2>10. o = Health!Other(c) /\ Health!Typed /\ Health!Reported
    BY <1>2, <1>3
  <2> QED BY <2>2, <2>7, <2>8, <2>9, <2>10, HealthReportedNew
<1>22. Health!Ending'
  <2>1. CASE dead
    <3>1. PICK i \in DOMAIN u : u[i][1] = "SelfHealing"
      BY <1>15, <2>1
    <3>2. i \in DOMAIN v6'[o] /\ v6'[o][i][1] = "SelfHealing"
      BY <1>16, <1>17, <3>1
    <3> QED BY <3>2 DEF Health!Ending
  <2>2. CASE ~dead
    <3>1. v1'[c][h].anim = v1[c][h].anim
      BY <1>7, <1>9, <1>11, <1>18, <2>2
    <3>2. \A d \in Health!Client : v1'[d][Health!Played(d)].anim = "down" => v1[d][Health!Played(d)].anim = "down"
      BY <1>1, <1>18, <3>1
    <3> QED BY <1>3, <1>17, <1>18, <3>2, HealthEnds
  <2> QED BY <2>1, <2>2
<1> QED BY <1>19, <1>20, <1>21, <1>22 DEF Health!HealthInv

\* Nothing is reported while nobody is told.
LEMMA HealthUntold ==
    ASSUME \A h \in Health!Hero : ~v9'[h]
    PROVE  Health!Reported'
BY HealthOwners DEF Health!Reported

LEMMA HealthReportsStay ==
    ASSUME Health!Reported, v6' = v6,
           \A h \in Health!Hero : v9'[h] =>
             /\ v9[h]
             /\ \A d \in Health!Client : v1'[d][h].hp = v1[d][h].hp /\ v1'[d][h].shield = v1[d][h].shield
    PROVE  Health!Reported'
<1> SUFFICES ASSUME NEW c \in Health!Client, v9'[Health!Played(c)]
             PROVE  Health!Reports(v6'[Health!Other(c)], v1'[c][Health!Played(c)], v1'[Health!Other(c)][Health!Played(c)])
  BY DEF Health!Reported, Health!Reports
<1> DEFINE h == Health!Played(c)
           o == Health!Other(c)
<1>1. h \in Health!Hero /\ o \in Health!Client
  BY HealthOwners
<1>2. Health!Reports(v6[o], v1[c][h], v1[o][h])
  BY <1>1 DEF Health!Reported
<1>3. /\ v1'[c][h].hp = v1[c][h].hp /\ v1'[c][h].shield = v1[c][h].shield
      /\ v1'[o][h].hp = v1[o][h].hp /\ v1'[o][h].shield = v1[o][h].shield
  BY <1>1
<1>4. v6'[o] = v6[o]
  OBVIOUS
<1> QED BY <1>2, <1>3, <1>4 DEF Health!Reports

\* A hero gets up.
LEMMA HealthTurns ==
    ASSUME Health!HealthInv, NEW c \in Health!Client, NEW h \in Health!Hero, NEW x \in Health!Object, NEW hs,
           v1' = [v1 EXCEPT ![c] = [v1[c] EXCEPT ![h] = x]],
           x.shield = v1[c][h].shield, x.check = v1[c][h].check, x.anim # "down",
           h \in hs \/ x.hp = v1[c][h].hp,
           v2' = v2, v4' = v4, v6' = v6, v9' = [g \in Health!Hero |-> v9[g] /\ g \notin hs]
    PROVE  Health!HealthInv'
<1>1. /\ Health!Typed /\ Health!ShieldsHold /\ Health!Reported /\ Health!Ending /\ v1[c] \in HealthWorld
  BY HealthKeeps DEF Health!HealthInv
<1>2. PICK w : w = [v1[c] EXCEPT ![h] = x]
  OBVIOUS
<1>3. w \in HealthWorld /\ w[h] = x /\ \A g \in Health!Hero : g # h => w[g] = v1[c][g]
  BY <1>1, <1>2, HealthSets
<1>4. v1' \in [Health!Client -> HealthWorld] /\ v1'[c] = w /\ \A d \in Health!Client : d # c => v1'[d] = v1[d]
  BY <1>1, <1>2, <1>3 DEF Health!Typed, HealthWorld
<1>5. \A d \in Health!Client, g \in Health!Hero :
        /\ v1'[d][g].shield = v1[d][g].shield /\ v1'[d][g].check = v1[d][g].check
        /\ g \in hs \/ v1'[d][g].hp = v1[d][g].hp
        /\ v1'[d][g].anim = "down" => v1[d][g].anim = "down"
  BY <1>3, <1>4
<1>6. Health!Typed'
  BY <1>1, <1>4 DEF Health!Typed, HealthWorld
<1>7. Health!ShieldsHold'
  BY <1>1, <1>5, HealthOwners DEF Health!ShieldsHold
<1>8. Health!Reported'
  BY <1>1, <1>5, HealthReportsStay
<1>9. Health!Ending'
  BY <1>1, <1>5, HealthOwners, HealthEnds
<1> QED BY <1>6, <1>7, <1>8, <1>9 DEF Health!HealthInv

LEMMA HealthRises ==
    ASSUME Health!HealthInv, NEW c \in Health!Client, NEW h \in Health!Hero, Health!SelfHealingEnd(c, h)
    PROVE  Health!HealthInv'
<1>1. v1[c][h] \in Health!Object /\ v1 \in [Health!Client -> HealthWorld]
  BY HealthKeeps DEF Health!HealthInv, Health!Typed, HealthWorld
<1> DEFINE hp == IF h = "esper" THEN HeroHp ELSE v1[c][h].hp
           hs == IF h = "esper" THEN {h} ELSE {}
<1>2. hp \in 0 .. HeroHp /\ (h \in hs \/ hp = v1[c][h].hp)
  <2>1. v1[c][h].hp \in 0 .. HeroHp
    BY <1>1 DEF Health!Object
  <2>2. HeroHp \in 0 .. HeroHp
    BY HealthNumbers
  <2>3. h \in hs \/ hp = v1[c][h].hp
    OBVIOUS
  <2>4. hp = HeroHp \/ hp = v1[c][h].hp
    OBVIOUS
  <2> QED BY <2>1, <2>2, <2>3, <2>4
<1>3. PICK x : x = [v1[c][h] EXCEPT !.anim = "rising", !.hp = hp]
  OBVIOUS
<1>4. v1' = [v1 EXCEPT ![c] = [v1[c] EXCEPT ![h] = x]]
  BY <1>1, <1>3 DEF Health!SelfHealingEnd, HealthWorld, Health!Object
<1>5. v2' = v2 /\ v4' = v4 /\ v6' = v6 /\ v9' = [g \in Health!Hero |-> v9[g] /\ g \notin hs]
  BY DEF Health!SelfHealingEnd, Health!Untold
<1> HIDE DEF hp, hs
<1>6. x \in Health!Object /\ x.shield = v1[c][h].shield /\ x.check = v1[c][h].check /\ x.anim # "down" /\ x.hp = hp
  BY <1>1, <1>2, <1>3 DEF Health!Object
<1>7. PICK gs : gs = hs
  OBVIOUS
<1> QED BY <1>2, <1>4, <1>5, <1>6, <1>7, HealthTurns

LEMMA HealthStands ==
    ASSUME Health!HealthInv, NEW c \in Health!Client, NEW h \in Health!Hero, Health!SelfHealingAnimEnd(c, h)
    PROVE  Health!HealthInv'
<1>1. v1[c][h] \in Health!Object /\ v1 \in [Health!Client -> HealthWorld]
  BY HealthKeeps DEF Health!HealthInv, Health!Typed, HealthWorld
<1> DEFINE hp == IF h = "crusher" THEN HeroHp ELSE v1[c][h].hp
           hs == IF h = "crusher" THEN {h} ELSE {}
<1>2. hp \in 0 .. HeroHp /\ (h \in hs \/ hp = v1[c][h].hp)
  <2>1. v1[c][h].hp \in 0 .. HeroHp
    BY <1>1 DEF Health!Object
  <2>2. HeroHp \in 0 .. HeroHp
    BY HealthNumbers
  <2>3. h \in hs \/ hp = v1[c][h].hp
    OBVIOUS
  <2>4. hp = HeroHp \/ hp = v1[c][h].hp
    OBVIOUS
  <2> QED BY <2>1, <2>2, <2>3, <2>4
<1>3. PICK x : x = [v1[c][h] EXCEPT !.anim = "well", !.healing = FALSE, !.hp = hp]
  OBVIOUS
<1>4. v1' = [v1 EXCEPT ![c] = [v1[c] EXCEPT ![h] = x]]
  BY <1>1, <1>3 DEF Health!SelfHealingAnimEnd, HealthWorld, Health!Object
<1>5. v2' = v2 /\ v4' = v4 /\ v6' = v6 /\ v9' = [g \in Health!Hero |-> v9[g] /\ g \notin hs]
  BY DEF Health!SelfHealingAnimEnd, Health!Untold
<1> HIDE DEF hp, hs
<1>6. x \in Health!Object /\ x.shield = v1[c][h].shield /\ x.check = v1[c][h].check /\ x.anim # "down" /\ x.hp = hp
  BY <1>1, <1>2, <1>3 DEF Health!Object
<1>7. PICK gs : gs = hs
  OBVIOUS
<1> QED BY <1>2, <1>4, <1>5, <1>6, <1>7, HealthTurns

\* Shields are given and taken away.
LEMMA HealthShields ==
    ASSUME NEW w \in HealthWorld
    PROVE  /\ \A b \in BOOLEAN :
                LET n == Health!RPCCreatePsychicShield(w, b)
                IN  /\ n \in HealthWorld
                    /\ \A g \in Health!Hero : n[g].anim = w[g].anim /\ ((w[g].shield > 0 => w[g].check) => (n[g].shield > 0 => n[g].check))
           /\ LET n == Health!RPCDestroyShield(w)
              IN  n \in HealthWorld /\ \A g \in Health!Hero : n[g].anim = w[g].anim /\ n[g].shield = 0
<1>0. \A g \in Health!Hero : w[g] \in Health!Object
  BY DEF HealthWorld
<1>1. ASSUME NEW g \in Health!Hero, NEW k \in Nat
      PROVE  LET x == [w[g] EXCEPT !.check = TRUE, !.shield = k]
             IN  x \in Health!Object /\ x.anim = w[g].anim /\ x.check = TRUE
  <2>1. PICK x : x = [w[g] EXCEPT !.check = TRUE, !.shield = k]
    OBVIOUS
  <2>2. x \in Health!Object /\ x.anim = w[g].anim /\ x.check = TRUE
    BY <1>0, <2>1 DEF Health!Object
  <2> QED BY <2>1, <2>2
<1>2. LET n == Health!RPCCreatePsychicShield(w, TRUE)
      IN  /\ n \in HealthWorld /\ \A g \in Health!Hero : n[g].anim = w[g].anim /\ n[g].check = TRUE
  <2>1. PICK n : n = Health!RPCCreatePsychicShield(w, TRUE)
    OBVIOUS
  <2>2. n = [g \in Health!Hero |-> [w[g] EXCEPT !.check = TRUE, !.shield = MaxShield]]
    BY <2>1 DEF Health!RPCCreatePsychicShield
  <2>3. \A g \in Health!Hero : n[g] \in Health!Object /\ n[g].anim = w[g].anim /\ n[g].check = TRUE
    BY <1>1, <2>2, HealthNumbers
  <2> QED BY <2>1, <2>2, <2>3 DEF HealthWorld
<1>3. LET n == Health!RPCCreatePsychicShield(w, FALSE)
      IN  /\ n \in HealthWorld
          /\ \A g \in Health!Hero : n[g].anim = w[g].anim /\ (n[g].check = TRUE \/ n[g] = w[g])
  <2>1. PICK n : n = Health!RPCCreatePsychicShield(w, FALSE)
    OBVIOUS
  <2>2. PICK k \in Nat : k = (3 * MaxShield + 1) \div 2
    BY HealthNumbers
  <2>3. PICK x : x = [w["esper"] EXCEPT !.check = TRUE, !.shield = k]
    OBVIOUS
  <2>4. x \in Health!Object /\ x.anim = w["esper"].anim /\ x.check = TRUE /\ "esper" \in Health!Hero
    BY <1>1, <2>3, HealthClients
  <2>5. n = [w EXCEPT !["esper"] = x]
    BY <1>0, <2>1, <2>2, <2>3, <2>4 DEF Health!RPCCreatePsychicShield, HealthWorld, Health!Object
  <2>6. n \in HealthWorld /\ n["esper"] = x /\ \A g \in Health!Hero : g # "esper" => n[g] = w[g]
    <3>1. PICK e \in Health!Hero : e = "esper"
      BY <2>4
    <3>2. PICK y \in Health!Object : y = x
      BY <2>4
    <3>4. n = [w EXCEPT ![e] = y]
      BY <2>5, <3>1, <3>2
    <3>3. n \in HealthWorld /\ n[e] = y /\ \A g \in Health!Hero : g # e => n[g] = w[g]
      BY <3>4 DEF HealthWorld
    <3> QED BY <3>1, <3>2, <3>3
  <2> QED BY <2>1, <2>4, <2>6
<1>4. LET n == Health!RPCDestroyShield(w)
      IN  n \in HealthWorld /\ \A g \in Health!Hero : n[g].anim = w[g].anim /\ n[g].shield = 0
  <2>1. PICK n : n = Health!RPCDestroyShield(w)
    OBVIOUS
  <2>2. n = [g \in Health!Hero |-> [w[g] EXCEPT !.shield = 0]]
    BY <2>1 DEF Health!RPCDestroyShield
  <2>3. ASSUME NEW g \in Health!Hero
        PROVE  n[g] \in Health!Object /\ n[g].anim = w[g].anim /\ n[g].shield = 0
    BY <1>0, <2>2 DEF Health!Object
  <2> QED BY <2>1, <2>2, <2>3 DEF HealthWorld
<1> QED BY <1>2, <1>3, <1>4

LEMMA HealthShielded ==
    ASSUME Health!HealthInv, Health!PsychicShieldOn \/ Health!PsychicShieldDestroy
    PROVE  Health!HealthInv'
<1> DEFINE c == Health!Owner["esper"]
           o == Health!Other(c)
<1>1. c \in Health!Client /\ o \in Health!Client /\ o # c /\ Health!Other(o) = c
  BY HealthClients
<1>2. /\ Health!Typed /\ Health!ShieldsHold /\ Health!Ending /\ v1[c] \in HealthWorld /\ v6[o] \in Seq(Health!Message(o))
  BY <1>1, HealthKeeps DEF Health!HealthInv
<1>3. v2' = v2 /\ v9' = [h \in Health!Hero |-> v9[h] /\ h \notin Health!Hero]
  BY DEF Health!PsychicShieldOn, Health!PsychicShieldDestroy, Health!Untold
<1>4. \E w \in HealthWorld, m \in Health!Message(o) :
        /\ v1' = [v1 EXCEPT ![c] = w] /\ v4' = [v4 EXCEPT ![c] = v4[c] \/ FALSE]
        /\ v6' = [v6 EXCEPT ![o] = v6[o] \o <<m>> \o << >> \o << >>]
        /\ \A g \in Health!Hero : w[g].anim = v1[c][g].anim /\ ((v1[c][g].shield > 0 => v1[c][g].check) => (w[g].shield > 0 => w[g].check))
  <2>1. CASE Health!PsychicShieldOn
    <3>1. PICK both \in BOOLEAN :
            Health!Call(c, <<<<"Create", both>>>>, Health!Only(Health!RPCCreatePsychicShield(v1[c], both)), <<>>)
      BY <2>1 DEF Health!PsychicShieldOn
    <3>2. PICK w : w = Health!RPCCreatePsychicShield(v1[c], both)
      OBVIOUS
    <3>3. PICK m \in Health!Message(o) : m = <<"Create", both>>
      BY <1>1, HealthMessages
    <3>4. /\ v1' = [v1 EXCEPT ![c] = w] /\ v4' = [v4 EXCEPT ![c] = v4[c] \/ FALSE]
          /\ v6' = [v6 EXCEPT ![o] = v6[o] \o <<m>> \o << >> \o << >>]
      BY <3>1, <3>2, <3>3 DEF Health!Call, Health!Only
    <3>5. w \in HealthWorld /\ \A g \in Health!Hero :
            w[g].anim = v1[c][g].anim /\ ((v1[c][g].shield > 0 => v1[c][g].check) => (w[g].shield > 0 => w[g].check))
      BY <1>2, <3>2, HealthShields
    <3> QED BY <3>4, <3>5
  <2>2. CASE Health!PsychicShieldDestroy
    <3>1. Health!Call(c, <<<<"Destroy">>>>, Health!Only(Health!RPCDestroyShield(v1[c])), <<>>)
      BY <2>2 DEF Health!PsychicShieldDestroy
    <3>2. PICK w : w = Health!RPCDestroyShield(v1[c])
      OBVIOUS
    <3>3. PICK m \in Health!Message(o) : m = <<"Destroy">>
      BY <1>1, HealthMessages
    <3>4. /\ v1' = [v1 EXCEPT ![c] = w] /\ v4' = [v4 EXCEPT ![c] = v4[c] \/ FALSE]
          /\ v6' = [v6 EXCEPT ![o] = v6[o] \o <<m>> \o << >> \o << >>]
      BY <3>1, <3>2, <3>3 DEF Health!Call, Health!Only
    <3>5. w \in HealthWorld /\ \A g \in Health!Hero : w[g].anim = v1[c][g].anim /\ w[g].shield = 0
      BY <1>2, <3>2, HealthShields
    <3>6. \A g \in Health!Hero :
            w[g].anim = v1[c][g].anim /\ ((v1[c][g].shield > 0 => v1[c][g].check) => (w[g].shield > 0 => w[g].check))
      BY <3>5
    <3> QED BY <3>4, <3>5, <3>6
  <2> QED BY <2>1, <2>2
<1>5. PICK w \in HealthWorld, m \in Health!Message(o) :
        /\ v1' = [v1 EXCEPT ![c] = w] /\ v4' = [v4 EXCEPT ![c] = v4[c] \/ FALSE]
        /\ v6' = [v6 EXCEPT ![o] = v6[o] \o <<m>> \o << >> \o << >>]
        /\ \A g \in Health!Hero : w[g].anim = v1[c][g].anim /\ ((v1[c][g].shield > 0 => v1[c][g].check) => (w[g].shield > 0 => w[g].check))
  BY <1>4
<1> HIDE DEF c, o
<1>6. PICK t : t = <<m>>
  OBVIOUS
<1>7. t \in Seq(Health!Message(o)) /\ v6' = [v6 EXCEPT ![o] = v6[o] \o t]
  BY <1>2, <1>5, <1>6
<1>8. /\ DOMAIN v6' = Health!Client /\ \A d \in Health!Client : v6'[d] \in Seq(Health!Message(d))
      /\ \A d \in Health!Client : \A i \in DOMAIN v6[d] : i \in DOMAIN v6'[d] /\ v6'[d][i] = v6[d][i]
  BY <1>1, <1>2, <1>7, HealthCalls
<1>9. v1' \in [Health!Client -> HealthWorld] /\ v1'[c] = w /\ \A d \in Health!Client : d # c => v1'[d] = v1[d]
  BY <1>1, <1>2, <1>5 DEF Health!Typed, HealthWorld
<1>10. v4' = v4
  BY <1>2, <1>5 DEF Health!Typed
<1>11. Health!Typed'
  BY <1>2, <1>3, <1>8, <1>9, <1>10 DEF Health!Typed, HealthWorld
<1>12. Health!ShieldsHold'
  BY <1>2, <1>5, <1>9, HealthOwners DEF Health!ShieldsHold
<1>13. Health!Reported'
  BY <1>3, HealthUntold
<1>14. Health!Ending'
  BY <1>5, <1>9, HealthOwners, <1>2, <1>8, <1>10, HealthEnds
<1> QED BY <1>11, <1>12, <1>13, <1>14 DEF Health!HealthInv

\* The shares of the health.
LEMMA HealthShares ==
    ASSUME NEW w \in HealthWorld, NEW left \in Int
    PROVE  Health!VitalityShares(w, left) \in HealthVital
  BY HealthClients, HealthNumbers DEF HealthWorld, Health!Object, Health!VitalityShares, HealthVital

LEMMA HealthGiven ==
    ASSUME Health!HealthInv, Health!VitalityShield \/ Health!VitalityShieldRefused
    PROVE  Health!HealthInv'
<1> DEFINE c == Health!Owner["crusher"]
           o == Health!Other(c)
<1>1. c \in Health!Client /\ o \in Health!Client /\ o # c /\ Health!Other(o) = c
  BY HealthClients
<1>2. /\ Health!Typed /\ Health!ShieldsHold /\ Health!Reported /\ Health!Ending
      /\ v1[c] \in HealthWorld /\ v2[c] \in HealthVital /\ v6[o] \in Seq(Health!Message(o))
  BY <1>1, HealthKeeps DEF Health!HealthInv
<1>3. v1' = v1 /\ v4' = v4 /\ v9' = v9
  BY DEF Health!VitalityShield, Health!VitalityShieldRefused
<1>4. \E left \in Int : v2' = [v2 EXCEPT ![c] = Health!VitalityShares(v1[c], left)]
  <2>1. v2[c].left \in Int
    BY <1>2 DEF HealthVital
  <2>2. CASE Health!VitalityShield
    <3>1. v2' = [v2 EXCEPT ![c] = Health!VitalityShares(v1[c], 3)]
      BY <2>2 DEF Health!VitalityShield
    <3>2. PICK left \in Int : left = 3
      OBVIOUS
    <3>3. v2' = [v2 EXCEPT ![c] = Health!VitalityShares(v1[c], left)]
      BY <3>1, <3>2
    <3> QED BY <3>3
  <2>3. CASE Health!VitalityShieldRefused
    BY <2>1, <2>3 DEF Health!VitalityShieldRefused
  <2> QED BY <2>2, <2>3
<1>5. v2' \in [Health!Client -> HealthVital]
  <2>1. PICK left \in Int : v2' = [v2 EXCEPT ![c] = Health!VitalityShares(v1[c], left)]
    BY <1>4
  <2>2. PICK x : x = Health!VitalityShares(v1[c], left)
    OBVIOUS
  <2>3. x \in HealthVital
    BY <1>2, <2>2, HealthShares
  <2> QED BY <1>1, <1>2, <2>1, <2>2, <2>3 DEF Health!Typed, HealthVital
<1>6. \E t \in Seq(Health!Message(o)) :
        /\ \A i \in DOMAIN t : t[i][1] # "SetHP"
        /\ DOMAIN v6' = Health!Client /\ \A d \in Health!Client : v6'[d] \in Seq(Health!Message(d))
        /\ v6'[c] = v6[c] /\ v6'[o] = v6[o] \o t
        /\ \A d \in Health!Client : \A i \in DOMAIN v6[d] : i \in DOMAIN v6'[d] /\ v6'[d][i] = v6[d][i]
  <2>1. CASE Health!VitalityShield
    <3>1. PICK m \in Health!Message(o) : m = <<"Vitality">>
      BY <1>1, HealthMessages
    <3>2. PICK t : t = <<m>>
      OBVIOUS
    <3>3. t \in Seq(Health!Message(o)) /\ \A i \in DOMAIN t : t[i][1] # "SetHP"
      BY <3>1, <3>2
    <3>4. v6' = [v6 EXCEPT ![o] = Append(v6[o], m)]
      BY <2>1, <3>1 DEF Health!VitalityShield
    <3>5. Append(v6[o], m) = v6[o] \o t
      BY <1>2, <3>2
    <3> HIDE DEF c, o
    <3>6. v6' = [v6 EXCEPT ![o] = v6[o] \o t]
      BY <3>4, <3>5
    <3>7. /\ DOMAIN v6' = Health!Client /\ \A d \in Health!Client : v6'[d] \in Seq(Health!Message(d))
          /\ v6'[c] = v6[c] /\ v6'[o] = v6[o] \o t
          /\ \A d \in Health!Client : \A i \in DOMAIN v6[d] : i \in DOMAIN v6'[d] /\ v6'[d][i] = v6[d][i]
      BY <1>1, <1>2, <3>3, <3>6, HealthCalls
    <3> QED BY <3>3, <3>7
  <2>2. CASE Health!VitalityShieldRefused
    <3>1. PICK t : t = << >>
      OBVIOUS
    <3>2. t \in Seq(Health!Message(o)) /\ v6[o] \o t = v6[o] /\ DOMAIN t = {}
      BY <1>2, <3>1
    <3>3. v6' = v6
      BY <2>2 DEF Health!VitalityShieldRefused
    <3>4. DOMAIN v6 = Health!Client /\ \A d \in Health!Client : v6[d] \in Seq(Health!Message(d))
      BY <1>2 DEF Health!Typed
    <3> HIDE DEF c, o
    <3> QED BY <3>2, <3>3, <3>4
  <2> QED BY <2>1, <2>2
<1> HIDE DEF c, o
<1>7. PICK t \in Seq(Health!Message(o)) :
        /\ \A i \in DOMAIN t : t[i][1] # "SetHP"
        /\ DOMAIN v6' = Health!Client /\ \A d \in Health!Client : v6'[d] \in Seq(Health!Message(d))
        /\ v6'[c] = v6[c] /\ v6'[o] = v6[o] \o t
        /\ \A d \in Health!Client : \A i \in DOMAIN v6[d] : i \in DOMAIN v6'[d] /\ v6'[d][i] = v6[d][i]
  BY <1>6
<1>8. Health!Typed'
  BY <1>2, <1>3, <1>5, <1>7 DEF Health!Typed, HealthVital
<1>9. Health!ShieldsHold'
  BY <1>2, <1>3 DEF Health!ShieldsHold
<1>10. Health!Reported'
  <2> SUFFICES ASSUME NEW d \in Health!Client, v9[Health!Played(d)]
               PROVE  Health!Reports(v6'[Health!Other(d)], v1[d][Health!Played(d)], v1[Health!Other(d)][Health!Played(d)])
    BY <1>3 DEF Health!Reported, Health!Reports
  <2>1. Health!Reports(v6[Health!Other(d)], v1[d][Health!Played(d)], v1[Health!Other(d)][Health!Played(d)])
    BY <1>2 DEF Health!Reported
  <2>2. Health!Other(d) = c \/ Health!Other(d) = o
    BY <1>1, HealthClients
  <2>3. CASE Health!Other(d) = c
    BY <1>7, <2>1, <2>3
  <2>4. CASE Health!Other(d) = o
    <3>1. Health!Reports(v6[o] \o t, v1[d][Health!Played(d)], v1[o][Health!Played(d)])
      BY <1>2, <1>7, <2>1, <2>4, HealthReportsMore
    <3> QED BY <1>7, <2>4, <3>1
  <2> QED BY <2>2, <2>3, <2>4
<1>11. Health!Ending'
  BY <1>2, <1>3, <1>7, HealthEnds
<1> QED BY <1>8, <1>9, <1>10, <1>11 DEF Health!HealthInv

LEMMA HealthFlows ==
    ASSUME Health!HealthInv, NEW c \in Health!Client, Health!VitalityHealing(c)
    PROVE  Health!HealthInv'
<1>1. /\ Health!Typed /\ Health!ShieldsHold /\ Health!Ending /\ v1[c] \in HealthWorld /\ v2[c] \in HealthVital
  BY HealthKeeps DEF Health!HealthInv
<1>2. v4' = v4 /\ v6' = v6 /\ v9' = [h \in Health!Hero |-> v9[h] /\ h \notin Health!Hero]
  BY DEF Health!VitalityHealing, Health!Untold
<1> DEFINE more(h) == Health!Clamp(v1[c][h].hp + v2[c][h], HeroHp)
<1>3. ASSUME NEW h \in Health!Hero
      PROVE  more(h) \in 0 .. HeroHp /\ v1[c][h] \in Health!Object
  <2>1. v1[c][h] \in Health!Object
    BY <1>1 DEF HealthWorld
  <2>2. v2[c][h] \in Nat
    BY <1>1, HealthClients DEF HealthVital
  <2>3. v1[c][h].hp \in Int /\ HeroHp \in Nat
    <3>1. HeroHp \in Nat
      BY HealthNumbers
    <3> QED BY <2>1, <3>1 DEF Health!Object
  <2>4. v1[c][h].hp + v2[c][h] \in Int /\ HeroHp \in Int /\ HeroHp >= 0
    BY <2>2, <2>3
  <2>5. more(h) \in 0 .. HeroHp
    BY <2>4 DEF Health!Clamp
  <2> QED BY <2>1, <2>5
<1>4. PICK w : w = [h \in Health!Hero |-> [v1[c][h] EXCEPT !.hp = more(h)]]
  OBVIOUS
<1>5. v1' = [v1 EXCEPT ![c] = w]
  BY <1>4 DEF Health!VitalityHealing
<1> HIDE DEF more
<1>6. ASSUME NEW h \in Health!Hero
      PROVE  w[h] \in Health!Object /\ w[h].shield = v1[c][h].shield /\ w[h].check = v1[c][h].check /\ w[h].anim = v1[c][h].anim
  <2>1. PICK n \in 0 .. HeroHp : n = more(h)
    BY <1>3
  <2>2. w[h] = [v1[c][h] EXCEPT !.hp = n]
    BY <1>4, <2>1
  <2> QED BY <1>3, <2>2 DEF Health!Object
<1>7. w \in HealthWorld
  BY <1>4, <1>6 DEF HealthWorld
<1>8. v1' \in [Health!Client -> HealthWorld] /\ v1'[c] = w /\ \A d \in Health!Client : d # c => v1'[d] = v1[d]
  BY <1>1, <1>5, <1>7 DEF Health!Typed, HealthWorld
<1>9. v2' \in [Health!Client -> HealthVital]
  <2>1. Health!Idle \in HealthVital
    BY DEF Health!Idle, HealthVital
  <2>2. v2[c].left - 1 \in Int
    BY <1>1 DEF HealthVital
  <2>3. [v2[c] EXCEPT !.left = v2[c].left - 1] \in HealthVital
    BY <1>1, <2>2 DEF HealthVital
  <2>4. PICK x \in HealthVital : v2' = [v2 EXCEPT ![c] = x]
    BY <2>1, <2>3 DEF Health!VitalityHealing
  <2> QED BY <1>1, <2>4 DEF Health!Typed, HealthVital
<1>10. Health!Typed'
  BY <1>1, <1>2, <1>8, <1>9 DEF Health!Typed, HealthWorld, HealthVital
<1>11. Health!ShieldsHold'
  BY <1>1, <1>6, <1>8, HealthOwners DEF Health!ShieldsHold
<1>12. Health!Reported'
  BY <1>2, HealthUntold
<1>13. Health!Ending'
  BY <1>6, <1>8, HealthOwners, <1>1, <1>2, HealthEnds
<1> QED BY <1>10, <1>11, <1>12, <1>13 DEF Health!HealthInv

LEMMA HealthLeaves ==
    ASSUME Health!HealthInv, NEW c \in Health!Client, Health!OnBackToLobby(c)
    PROVE  Health!HealthInv'
  BY DEF Health!OnBackToLobby, Health!HealthInv, Health!Typed, Health!ShieldsHold, Health!Reported, Health!Ending

\* What a client does at a call of the other one.
HealthAnswer(w, m) ==
    CASE m[1] = "SetHP" -> Health!Only(Health!SetHPAndShield(w, m[2], m[3], m[4]))
      [] m[1] = "SelfHealing" -> Health!RPCSelfHealing(w, m[2])
      [] m[1] = "BothDie" -> Health!Only(Health!RPCBothDieProcess(w, m[2]))
      [] m[1] = "Create" -> Health!Only(Health!RPCCreatePsychicShield(w, m[2]))
      [] m[1] = "Destroy" -> Health!Only(Health!RPCDestroyShield(w))
      [] m[1] = "Vitality" -> Health!Only(w)

LEMMA HealthAnswers ==
    ASSUME NEW c \in Health!Client, NEW w \in HealthWorld, NEW m \in Health!Message(c), NEW r, r = HealthAnswer(w, m)
    PROVE  /\ m[1] = "SetHP" => r = Health!Only(Health!SetHPAndShield(w, m[2], m[3], m[4]))
           /\ m[1] = "SelfHealing" => r = Health!RPCSelfHealing(w, m[2])
           /\ m[1] = "BothDie" => r = Health!Only(Health!RPCBothDieProcess(w, m[2]))
           /\ m[1] = "Create" => r = Health!Only(Health!RPCCreatePsychicShield(w, m[2]))
           /\ m[1] = "Destroy" => r = Health!Only(Health!RPCDestroyShield(w))
           /\ m[1] = "Vitality" => r = Health!Only(w)
BY DEF HealthAnswer

LEMMA HealthAnswered ==
    ASSUME NEW c \in Health!Client, NEW w \in HealthWorld, NEW m \in Health!Message(c), NEW r, r = HealthAnswer(w, m),
           NEW h \in Health!Hero, NEW g \in Health!Hero, h = Health!Played(Health!Other(c)), g = Health!Played(c)
    PROVE  /\ r.w \in HealthWorld /\ r.leave \in BOOLEAN /\ r.out \in Seq({"BothDie"} \X Health!Hero)
           /\ (w[g].shield > 0 => w[g].check) => (r.w[g].shield > 0 => r.w[g].check)
           /\ r.w[g].anim = w[g].anim
           /\ \/ m[1] \in {"Create", "Destroy"}
              \/ /\ r.w[g].hp = w[g].hp /\ r.w[g].shield = w[g].shield
                 /\ IF m[1] = "SetHP" THEN r.w[h].hp = m[3] /\ r.w[h].shield = m[4]
                    ELSE r.w[h].hp = w[h].hp /\ r.w[h].shield = w[h].shield
           /\ m[1] = "SelfHealing" => (w[g].anim = "down" => r.leave)
           /\ m[1] # "SelfHealing" => r.w[h].anim = w[h].anim
<1>1. g # h /\ Health!Partner(h) = g /\ << >> \in Seq({"BothDie"} \X Health!Hero) /\ \A k \in Health!Hero : k = g \/ k = h
  BY HealthClients
<1>2. m[1] \in {"SelfHealing", "SetHP", "BothDie", "Create", "Destroy", "Vitality"}
  BY HealthMessages
<1>3. CASE m[1] = "SelfHealing"
  <2>1. r = Health!RPCSelfHealing(w, h)
    <3>1. m[2] = h
      BY <1>3, HealthMessages
    <3>2. r = Health!RPCSelfHealing(w, m[2])
      BY <1>3, HealthAnswers
    <3> QED BY <3>1, <3>2
  <2> QED BY <1>1, <1>3, <2>1, HealthFalls
<1>4. CASE m[1] # "SelfHealing"
  <2>1. ASSUME NEW u, r = Health!Only(u)
        PROVE  r.w = u /\ r.leave = FALSE /\ r.out = << >>
    BY <2>1 DEF Health!Only
  <2>2. CASE m[1] = "SetHP"
    <3>1. m[2] = h /\ m[3] \in 0 .. HeroHp /\ m[4] \in 0 .. MaxShield
      BY <2>2, HealthMessages
    <3>2. PICK u : u = Health!SetHPAndShield(w, m[2], m[3], m[4])
      OBVIOUS
    <3>3. r.w = u /\ r.leave = FALSE /\ r.out = << >>
      BY <2>1, <2>2, <3>2, HealthAnswers
    <3>4. Health!Clamp(m[3], HeroHp) = m[3] /\ Health!Clamp(m[4], MaxShield) = m[4] /\ m[4] \in Nat
      BY <3>1, HealthNumbers DEF Health!Clamp
    <3>5. PICK hp \in 0 .. HeroHp, shield \in Nat : hp = m[3] /\ shield = m[4]
      BY <3>1, <3>4
    <3>6. u = [w EXCEPT ![h].hp = hp, ![h].shield = shield]
      BY <3>1, <3>2, <3>4, <3>5 DEF Health!SetHPAndShield
    <3>7. /\ u \in HealthWorld /\ u[g] = w[g] /\ u[h].hp = hp /\ u[h].shield = shield /\ u[h].anim = w[h].anim
      <4>1. w[h] \in Health!Object
        BY DEF HealthWorld
      <4>2. PICK x : x = [w[h] EXCEPT !.hp = hp, !.shield = shield]
        OBVIOUS
      <4>3. x \in Health!Object /\ x.hp = hp /\ x.shield = shield /\ x.anim = w[h].anim
        BY <4>1, <4>2 DEF Health!Object
      <4>4. u = [w EXCEPT ![h] = x]
        BY <3>6, <4>1, <4>2 DEF HealthWorld, Health!Object
      <4>5. u \in HealthWorld /\ u[h] = x /\ u[g] = w[g]
        BY <1>1, <4>3, <4>4 DEF HealthWorld
      <4> QED BY <4>3, <4>5
    <3> QED BY <1>1, <2>2, <3>3, <3>5, <3>7
  <2>3. CASE m[1] = "BothDie"
    <3>1. PICK k \in Health!Hero : k = m[2]
      BY <2>3, HealthMessages
    <3>2. PICK u : u = Health!RPCBothDieProcess(w, k)
      OBVIOUS
    <3>3. r.w = u /\ r.leave = FALSE /\ r.out = << >>
      BY <2>1, <2>3, <3>1, <3>2, HealthAnswers
    <3>4. /\ u \in HealthWorld /\ \A j \in Health!Hero : /\ u[j].hp = w[j].hp /\ u[j].shield = w[j].shield
                                                         /\ u[j].check = w[j].check /\ u[j].anim = w[j].anim
      <4>1. /\ Health!RPCBothDieProcess(w, k) \in HealthWorld
            /\ \A j \in Health!Hero :
                 LET n == Health!RPCBothDieProcess(w, k)[j]
                 IN  n.hp = w[j].hp /\ n.shield = w[j].shield /\ n.check = w[j].check /\ n.anim = w[j].anim
        BY HealthDies
      <4> QED BY <3>2, <4>1
    <3> QED BY <1>1, <2>3, <3>3, <3>4
  <2>4. CASE m[1] = "Create"
    <3>1. PICK b \in BOOLEAN : b = m[2]
      BY <2>4, HealthMessages
    <3>2. PICK u : u = Health!RPCCreatePsychicShield(w, b)
      OBVIOUS
    <3>3. r.w = u /\ r.leave = FALSE /\ r.out = << >>
      BY <2>1, <2>4, <3>1, <3>2, HealthAnswers
    <3>4. /\ u \in HealthWorld
          /\ \A j \in Health!Hero : u[j].anim = w[j].anim /\ ((w[j].shield > 0 => w[j].check) => (u[j].shield > 0 => u[j].check))
      BY <3>2, HealthShields
    <3> QED BY <1>1, <2>4, <3>3, <3>4
  <2>5. CASE m[1] = "Destroy"
    <3>2. PICK u : u = Health!RPCDestroyShield(w)
      OBVIOUS
    <3>3. r.w = u /\ r.leave = FALSE /\ r.out = << >>
      BY <2>1, <2>5, <3>2, HealthAnswers
    <3>4. u \in HealthWorld /\ \A j \in Health!Hero : u[j].anim = w[j].anim /\ u[j].shield = 0
      BY <3>2, HealthShields
    <3>5. ~(u[g].shield > 0)
      BY <3>4
    <3> QED BY <1>1, <2>5, <3>3, <3>4, <3>5
  <2>6. CASE m[1] = "Vitality"
    <3>1. r.w = w /\ r.leave = FALSE /\ r.out = << >>
      BY <2>1, <2>6, HealthAnswers
    <3> QED BY <1>1, <2>6, <3>1
  <2> QED BY <1>2, <1>4, <2>2, <2>3, <2>4, <2>5, <2>6
<1> QED BY <1>3, <1>4

LEMMA HealthReceives ==
    ASSUME Health!HealthInv, NEW c \in Health!Client, Health!RecvRPC(c)
    PROVE  Health!HealthInv'
<1>1. PICK o \in Health!Client : o = Health!Other(c) /\ o # c /\ Health!Other(o) = c /\ \A d \in Health!Client : d = c \/ d = o
  BY HealthClients
<1>2. PICK g \in Health!Hero, h \in Health!Hero : g = Health!Played(c) /\ h = Health!Played(o) /\ g # h
  BY SMTT(60), <1>1, HealthOwners
<1>3. /\ Health!Typed /\ Health!ShieldsHold /\ Health!Reported /\ Health!Ending
      /\ v1[c] \in HealthWorld /\ v2[c] \in HealthVital /\ v6[c] \in Seq(Health!Message(c)) /\ v6[o] \in Seq(Health!Message(o))
      /\ v6[c] # << >>
  BY HealthKeeps DEF Health!HealthInv, Health!RecvRPC
<1>4. PICK m \in Health!Message(c) : m = Head(v6[c]) /\ m = v6[c][1]
  BY <1>3, QueueTails
<1>5. PICK w \in HealthWorld : w = v1[c]
  BY <1>3
<1>6. PICK r : r = HealthAnswer(w, m)
  OBVIOUS
<1>7. /\ r.w \in HealthWorld /\ r.leave \in BOOLEAN /\ r.out \in Seq({"BothDie"} \X Health!Hero)
      /\ (w[g].shield > 0 => w[g].check) => (r.w[g].shield > 0 => r.w[g].check)
      /\ r.w[g].anim = w[g].anim
      /\ \/ m[1] \in {"Create", "Destroy"}
         \/ /\ r.w[g].hp = w[g].hp /\ r.w[g].shield = w[g].shield
            /\ IF m[1] = "SetHP" THEN r.w[h].hp = m[3] /\ r.w[h].shield = m[4]
               ELSE r.w[h].hp = w[h].hp /\ r.w[h].shield = w[h].shield
      /\ m[1] = "SelfHealing" => (w[g].anim = "down" => r.leave)
      /\ m[1] # "SelfHealing" => r.w[h].anim = w[h].anim
  BY SMTT(60), <1>1, <1>2, <1>6, HealthAnswered
<1>8. /\ v1' = [v1 EXCEPT ![c] = r.w] /\ v4' = [v4 EXCEPT ![c] = v4[c] \/ r.leave]
      /\ v6' = [v6 EXCEPT ![c] = Tail(v6[c]), ![o] = v6[o] \o r.out]
  BY <1>1, <1>4, <1>5, <1>6 DEF Health!RecvRPC, HealthAnswer
<1>9. v9' = [k \in Health!Hero |-> v9[k] /\ k \notin (IF m[1] \in {"Create", "Destroy"} THEN Health!Hero ELSE {})]
  BY <1>4 DEF Health!RecvRPC, Health!Untold
<1>10. v2' \in [Health!Client -> HealthVital]
  <2>1. /\ v2[c].left \in Int
        /\ Health!VitalityShares(v1[c], 3) \in HealthVital
        /\ Health!VitalityShares(v1[c], v2[c].left) \in HealthVital
    <3>1. PICK left \in Int : left = v2[c].left
      BY <1>3 DEF HealthVital
    <3>2. PICK three \in Int : three = 3
      OBVIOUS
    <3>3. Health!VitalityShares(w, left) \in HealthVital /\ Health!VitalityShares(w, three) \in HealthVital
      BY HealthShares
    <3> QED BY <1>5, <3>1, <3>2, <3>3
  <2>2. v2' = v2 \/ \E x \in HealthVital : v2' = [v2 EXCEPT ![c] = x]
    <3>1. v2' \in IF m[1] # "Vitality" THEN {v2}
                  ELSE {[v2 EXCEPT ![c] = IF v2[c] = Health!Idle THEN v2[c] ELSE Health!VitalityShares(v1[c], v2[c].left)],
                        [v2 EXCEPT ![c] = IF v2[c] # Health!Idle THEN Health!VitalityShares(v1[c], v2[c].left)
                                          ELSE IF v1[c]["crusher"].healing THEN v2[c]
                                          ELSE Health!VitalityShares(v1[c], 3)]}
      BY <1>4 DEF Health!RecvRPC
    <3>2. PICK x, y : x = Health!VitalityShares(v1[c], v2[c].left) /\ y = Health!VitalityShares(v1[c], 3)
      OBVIOUS
    <3>3. v2[c] \in HealthVital /\ x \in HealthVital /\ y \in HealthVital
      BY <1>3, <2>1, <3>2
    <3>4. v2' = v2 \/ v2' = [v2 EXCEPT ![c] = v2[c]] \/ v2' = [v2 EXCEPT ![c] = x] \/ v2' = [v2 EXCEPT ![c] = y]
      BY <3>1, <3>2
    <3> QED BY SMTT(60), <3>3, <3>4
  <2>3. v2 \in [Health!Client -> HealthVital]
    BY <1>3 DEF Health!Typed, HealthVital
  <2> QED BY <2>2, <2>3
<1>11. v1' \in [Health!Client -> HealthWorld] /\ v1'[c] = r.w /\ v1'[o] = v1[o]
  BY <1>1, <1>3, <1>7, <1>8 DEF Health!Typed, HealthWorld
<1>12. v4' \in [Health!Client -> BOOLEAN] /\ (\A d \in Health!Client : v4[d] => v4'[d]) /\ (r.leave => v4'[c])
  BY <1>3, <1>7, <1>8 DEF Health!Typed
<1>13. DOMAIN v6' = Health!Client /\ v6'[c] = Tail(v6[c]) /\ v6'[o] = v6[o] \o r.out
  BY <1>3, <1>1, <1>8 DEF Health!Typed
<1>14. PICK t \in Seq(Health!Message(o)) : t = r.out /\ \A i \in DOMAIN t : t[i][1] = "BothDie"
  <2>1. {"BothDie"} \X Health!Hero \subseteq Health!Message(o)
    BY DEF Health!Message
  <2>2. r.out \in Seq(Health!Message(o))
    BY <1>7, <2>1
  <2>3. \A i \in DOMAIN r.out : r.out[i][1] = "BothDie"
    <3> SUFFICES ASSUME NEW i \in DOMAIN r.out
                 PROVE  r.out[i][1] = "BothDie"
      OBVIOUS
    <3>1. r.out[i] \in {"BothDie"} \X Health!Hero
      BY <1>7
    <3> QED BY <3>1
  <2> QED BY <2>2, <2>3
<1>15. /\ v6'[o] \in Seq(Health!Message(o))
       /\ \A i \in DOMAIN v6[o] : i \in DOMAIN v6'[o] /\ v6'[o][i] = v6[o][i]
  <2>1. /\ v6[o] \o t \in Seq(Health!Message(o))
        /\ \A i \in DOMAIN v6[o] : i \in DOMAIN (v6[o] \o t) /\ (v6[o] \o t)[i] = v6[o][i]
    BY <1>3, QueueGrows
  <2>2. v6'[o] = v6[o] \o t
    BY <1>13, <1>14
  <2> QED BY <2>1, <2>2
<1>16. /\ v6'[c] \in Seq(Health!Message(c))
       /\ \A i \in DOMAIN v6[c] : i = 1 \/ (i - 1 \in DOMAIN v6'[c] /\ v6'[c][i - 1] = v6[c][i])
  <2> DEFINE q == v6[c]
             s == Tail(q)
  <2>1. /\ s \in Seq(Health!Message(c)) /\ Len(q) \in Nat \ {0} /\ DOMAIN q = 1 .. Len(q) /\ DOMAIN s = 1 .. Len(q) - 1
        /\ \A i \in 1 .. Len(q) - 1 : s[i] = q[i + 1]
    BY <1>3, QueueTails
  <2>2. v6'[c] = s
    BY <1>13
  <2> HIDE DEF q, s
  <2>3. \A i \in 1 .. Len(q) : i = 1 \/ (i - 1 \in 1 .. Len(q) - 1 /\ (i - 1) + 1 = i)
    BY <2>1
  <2>4. \A i \in DOMAIN q : i = 1 \/ (i - 1 \in DOMAIN s /\ s[i - 1] = q[i])
    BY <2>1, <2>3
  <2>5. /\ s \in Seq(Health!Message(c))
        /\ \A i \in DOMAIN v6[c] : i = 1 \/ (i - 1 \in DOMAIN s /\ s[i - 1] = v6[c][i])
    BY <2>1, <2>4 DEF q
  <2> QED BY <2>2, <2>5
<1>17. Health!Typed'
  <2>1. \A d \in Health!Client : v6'[d] \in Seq(Health!Message(d))
    BY <1>1, <1>15, <1>16
  <2>2. v9' \in [Health!Hero -> BOOLEAN]
    BY <1>3, <1>9 DEF Health!Typed
  <2> QED BY <1>10, <1>11, <1>12, <1>13, <2>1, <2>2 DEF Health!Typed, HealthWorld, HealthVital
<1>18. Health!ShieldsHold'
  BY <1>2, <1>3, <1>5, <1>7, <1>1, <1>11 DEF Health!ShieldsHold
<1>19. Health!Reported'
  <2>1. CASE m[1] \in {"Create", "Destroy"}
    BY <1>9, <2>1, HealthUntold
  <2>2. CASE m[1] \notin {"Create", "Destroy"}
    <3>1. v9'[g] = v9[g] /\ v9'[h] = v9[h]
      BY <1>3, <1>9, <2>2 DEF Health!Typed
    <3>2. v9[g] => Health!Reports(v6[o], v1[c][g], v1[o][g])
      BY <1>1, <1>2, <1>3 DEF Health!Reported
    <3>3. v9[h] => Health!Reports(v6[c], v1[o][h], v1[c][h])
      BY <1>1, <1>2, <1>3 DEF Health!Reported
    <3>4. PICK a, b, x, y, z : a = r.w[g] /\ b = v1[o][g] /\ x = r.w[h] /\ y = v1[o][h] /\ z = v1[c][g]
      OBVIOUS
    <3>5. ASSUME v9[g]
          PROVE  Health!Reports(v6[o] \o t, a, b)
      <4>1. Health!Reports(v6[o], z, b)
        BY <3>2, <3>4, <3>5
      <4>2. \A i \in DOMAIN t : t[i][1] # "SetHP"
        BY <1>14
      <4>3. Health!Reports(v6[o] \o t, z, b)
        BY <1>3, <4>1, <4>2, HealthReportsMore
      <4>4. a.hp = z.hp /\ a.shield = z.shield
        BY <1>5, <1>7, <2>2, <3>4
      <4> QED BY <4>3, <4>4, HealthReportsSame
    <3>6. ASSUME v9[h]
          PROVE  Health!Reports(Tail(v6[c]), y, x)
      <4>1. PICK k : k = v1[c][h]
        OBVIOUS
      <4>2. Health!Reports(v6[c], y, k)
        BY <3>3, <3>4, <3>6, <4>1
      <4>3. IF v6[c][1][1] = "SetHP" THEN x.hp = v6[c][1][3] /\ x.shield = v6[c][1][4]
            ELSE x.hp = k.hp /\ x.shield = k.shield
        BY <1>4, <1>5, <1>7, <2>2, <3>4, <4>1
      <4> QED BY <1>3, <4>2, <4>3, HealthReportsNext
    <3>7. \A d \in Health!Client : v9'[Health!Played(d)] =>
            Health!Reports(v6'[Health!Other(d)], v1'[d][Health!Played(d)], v1'[Health!Other(d)][Health!Played(d)])
      <4>1. v9'[g] => Health!Reports(v6'[o], v1'[c][g], v1'[o][g])
        BY <1>11, <1>13, <1>14, <3>1, <3>4, <3>5
      <4>2. v9'[h] => Health!Reports(v6'[c], v1'[o][h], v1'[c][h])
        BY <1>11, <1>13, <3>1, <3>4, <3>6
      <4> QED BY <1>1, <1>2, <4>1, <4>2
    <3> QED BY <3>7 DEF Health!Reported, Health!Reports
  <2> QED BY <2>1, <2>2
<1>20. Health!Ending'
  <2> SUFFICES ASSUME \A d \in Health!Client : v1'[d][Health!Played(d)].anim = "down"
               PROVE  \E d \in Health!Client : v4'[d] \/ \E i \in DOMAIN v6'[d] : v6'[d][i][1] = "SelfHealing"
    BY DEF Health!Ending
  <2>1. r.w[g].anim = "down" /\ v1[o][h].anim = "down"
    BY <1>1, <1>2, <1>11
  <2>2. v1[c][g].anim = "down"
    BY <1>5, <1>7, <2>1
  <2>3. PICK d \in Health!Client : v4[d] \/ \E i \in DOMAIN v6[d] : v6[d][i][1] = "SelfHealing"
    BY <1>1, <1>2, <1>3, <2>1, <2>2 DEF Health!Ending
  <2>4. CASE v4[d]
    BY <1>12, <2>4
  <2>5. ASSUME NEW i \in DOMAIN v6[d], v6[d][i][1] = "SelfHealing"
        PROVE  \E e \in Health!Client : v4'[e] \/ \E j \in DOMAIN v6'[e] : v6'[e][j][1] = "SelfHealing"
    <3>1. CASE d = o
      BY <1>15, <2>5, <3>1
    <3>2. CASE d = c /\ i # 1
      BY <1>16, <2>5, <3>2
    <3>3. CASE d = c /\ i = 1
      BY <1>4, <2>5, <3>3, <1>5, <1>7, <2>2, <1>12
    <3> QED BY <1>1, <3>1, <3>2, <3>3
  <2> QED BY <2>3, <2>4, <2>5
<1> QED BY <1>17, <1>18, <1>19, <1>20 DEF Health!HealthInv

LEMMA HealthInit == Health!Init => Health!HealthInv
<1> SUFFICES ASSUME Health!Init
             PROVE  Health!HealthInv
  OBVIOUS
<1>1. PICK x : x = [hp |-> HeroHp, shield |-> 0, check |-> FALSE, healing |-> FALSE, anim |-> "well", fail |-> FALSE]
  OBVIOUS
<1>2. x \in Health!Object /\ x.shield = 0 /\ x.hp = HeroHp /\ x.anim # "down"
  BY HealthNumbers, <1>1 DEF Health!Object
<1>3. /\ v1 = [c \in Health!Client |-> [h \in Health!Hero |-> x]] /\ v2 = [c \in Health!Client |-> Health!Idle]
      /\ v4 = [c \in Health!Client |-> FALSE] /\ v6 = [c \in Health!Client |-> << >>] /\ v9 = [h \in Health!Hero |-> TRUE]
  BY <1>1 DEF Health!Init
<1>4. Health!Typed
  BY <1>3, <1>2 DEF Health!Idle, HealthVital, Health!Typed
<1>5. Health!ShieldsHold
  BY <1>2, <1>3, HealthOwners DEF Health!ShieldsHold
<1>6. Health!Reported
  <2> SUFFICES ASSUME NEW c \in Health!Client
               PROVE  Health!Reports(v6[Health!Other(c)], v1[c][Health!Played(c)], v1[Health!Other(c)][Health!Played(c)])
    BY DEF Health!Reported, Health!Reports
  <2>1. /\ v6[Health!Other(c)] = << >> /\ v1[c][Health!Played(c)] = x /\ v1[Health!Other(c)][Health!Played(c)] = x
    BY <1>3, HealthOwners
  <2> QED BY <2>1 DEF Health!Reports
<1>7. Health!Ending
  BY <1>2, <1>3, HealthOwners, HealthClients DEF Health!Ending
<1> QED BY <1>4, <1>5, <1>6, <1>7 DEF Health!HealthInv

LEMMA HealthStep == HealthInv /\ [Next]_vars => HealthInv'
<1> SUFFICES ASSUME HealthInv, [Next]_vars, part' = "health"
             PROVE  Health!HealthInv'
  BY DEF HealthInv
<1>1. Health!HealthInv /\ (Health!Next \/ UNCHANGED vars)
  BY DEF Next, vars, HealthInv
<1>2. CASE Health!Next
  BY <1>1, <1>2, HealthTakes, HealthShielded, HealthGiven, HealthReceives, HealthFlows, HealthLeaves, HealthRises,
     HealthStands DEF Health!Next, Health!Step
<1>3. CASE UNCHANGED vars
  BY <1>1, <1>3 DEF vars, Health!HealthInv, Health!Typed, Health!ShieldsHold, Health!Reported, Health!Ending
<1> QED
  BY <1>1, <1>2, <1>3

\* When both heroes lie on the ground the game is ending, and the other client shows the health
\* and shield a hit has left: for any health and shield, any hits and shields, whenever the
\* clients hear of each other (RPCSelfHealing, AHACKEDCharacter::TakeDamage).
THEOREM HealthHolds == Spec => []HealthOK
<1>1. Init => HealthInv
  BY HealthInit DEF Init, HealthInv
<1>2. HealthInv => HealthOK
  <2> SUFFICES ASSUME Health!HealthInv
               PROVE  Health!FallenEndsGame /\ Health!HealthShown
    BY DEF HealthInv, HealthOK
  <2>1. Health!Quiet => \A c \in Health!Client : DOMAIN v6[c] = {}
    BY DEF Health!Quiet
  <2>2. Health!FallenEndsGame
    <3> SUFFICES ASSUME Health!Quiet, \A h \in Health!Hero : v1[Health!Owner[h]][h].anim = "down"
                 PROVE  \E c \in Health!Client : v4[c]
      BY DEF Health!FallenEndsGame
    <3>1. \A c \in Health!Client : v1[c][Health!Played(c)].anim = "down"
      BY HealthOwners
    <3>2. PICK c \in Health!Client : v4[c] \/ \E i \in DOMAIN v6[c] : v6[c][i][1] = "SelfHealing"
      BY <3>1 DEF Health!HealthInv, Health!Ending
    <3> QED BY <2>1, <3>2
  <2>3. Health!HealthShown
    <3> SUFFICES ASSUME Health!Quiet, NEW h \in Health!Hero, v9[h]
                 PROVE  LET real == v1[Health!Owner[h]][h]  shown == v1[Health!Other(Health!Owner[h])][h]
                        IN  <<real.hp, real.shield>> = <<shown.hp, shown.shield>>
      BY DEF Health!HealthShown
    <3>1. PICK c \in Health!Client : c = Health!Owner[h] /\ Health!Played(c) = h /\ Health!Other(c) \in Health!Client
      BY HealthOwners
    <3>2. Health!Reports(v6[Health!Other(c)], v1[c][h], v1[Health!Other(c)][h])
      BY <3>1 DEF Health!HealthInv, Health!Reported
    <3>3. v1[Health!Other(c)][h].hp = v1[c][h].hp /\ v1[Health!Other(c)][h].shield = v1[c][h].shield
      BY <2>1, <3>1, <3>2 DEF Health!Reports
    <3> QED BY <3>1, <3>3
  <2> QED BY <2>2, <2>3
<1> QED
  BY <1>1, <1>2, HealthStep, PTL DEF Spec

-----------------------------------------------------------------------------
(***************************************************************************)
(* The choice of the heroes.  Of the variables v1 is sel, v2 slot, v3      *)
(* away, v4 plays, v5 auth, v6 chan and v9 muddled.                        *)
(***************************************************************************)
SelectorInv == part = "selector" => Sel!SelectorInv

LEMMA SelectorHeroes ==
    /\ Sel!Hero = {"crusher", "esper"} /\ Sel!Not("crusher") = "esper" /\ Sel!Not("esper") = "crusher"
    /\ \A h \in Sel!Hero : /\ Sel!Not(h) \in Sel!Hero /\ Sel!Not(h) # h /\ Sel!Not(Sel!Not(h)) = h
                           /\ \A g \in Sel!Hero : g = h \/ g = Sel!Not(h)
                           /\ h # Sel!None
    /\ Sel!None = "none"
    /\ Sel!Client = {0, 1} /\ Sel!Other(0) = 1 /\ Sel!Other(1) = 0
    /\ Sel!NoSeat = 2 /\ Sel!Seat = 0 .. 2 /\ Sel!Owner = {"none", "master", "slave"}
    /\ Sel!Owning(0) = "master" /\ Sel!Owning(1) = "slave"
    /\ Sel!SeatOf("master") = 0 /\ Sel!SeatOf("slave") = 1 /\ Sel!SeatOf("none") = 2
<1>1. Sel!Hero = {"crusher", "esper"} /\ Sel!None = "none"
  BY DEF Sel!Hero, Sel!None
<1>2. Sel!Not("crusher") = "esper"
  BY <1>1 DEF Sel!Not
<1>3. Sel!Not("esper") = "crusher"
  BY <1>1 DEF Sel!Not
<1>4. \A h \in Sel!Hero : /\ Sel!Not(h) \in Sel!Hero /\ Sel!Not(h) # h /\ Sel!Not(Sel!Not(h)) = h
                          /\ \A g \in Sel!Hero : g = h \/ g = Sel!Not(h)
                          /\ h # Sel!None
  BY <1>1, <1>2, <1>3
<1>5. /\ Sel!Client = {0, 1} /\ Sel!Other(0) = 1 /\ Sel!Other(1) = 0
      /\ Sel!NoSeat = 2 /\ Sel!Seat = 0 .. 2 /\ Sel!Owner = {"none", "master", "slave"}
      /\ Sel!Owning(0) = "master" /\ Sel!Owning(1) = "slave"
  BY DEF Sel!Client, Sel!Other, Sel!NoSeat, Sel!Seat, Sel!Owner, Sel!Owning, Sel!None
<1>6. Sel!SeatOf("master") = 0 /\ Sel!SeatOf("slave") = 1 /\ Sel!SeatOf("none") = 2
  BY DEF Sel!SeatOf, Sel!NoSeat
<1> QED BY <1>1, <1>2, <1>3, <1>4, <1>5, <1>6

\* The hero that is shown to be chosen from a seat.
LEMMA SelectorChosen ==
    ASSUME NEW f, NEW h \in Sel!Hero, NEW n, f[h] = n, f[Sel!Not(h)] # n
    PROVE  (CHOOSE g \in Sel!Hero : f[g] = n) = h
  BY SelectorHeroes

LEMMA SelectorSeats ==
    ASSUME NEW h \in Sel!Hero
    PROVE  /\ Sel!Seats(h) \in [Sel!Hero -> Sel!Seat] /\ Sel!Seats(h)[h] = 0 /\ Sel!Seats(h)[Sel!Not(h)] = 1
           /\ (CHOOSE g \in Sel!Hero : Sel!Seats(h)[g] = 0) = h
           /\ (CHOOSE g \in Sel!Hero : Sel!Seats(h)[g] = 1) = Sel!Not(h)
  BY SelectorHeroes, SelectorChosen DEF Sel!Seats

\* A hero is shown to be chosen by somebody.
SelectorTakes(s, h, own, n) == Sel!Show([s EXCEPT !.state[h] = own], h, n)
SelectorEnds(t) == [t EXCEPT !.ended = TRUE]

LEMMA SelectorTaken ==
    ASSUME NEW s \in Sel!Selecting, NEW h \in Sel!Hero, NEW own \in Sel!Owner, NEW n \in Sel!Seat
    PROVE  LET t == SelectorTakes(s, h, own, n) IN
           /\ t \in Sel!Selecting /\ t.ended = s.ended
           /\ t.state[h] = own /\ t.shown[h] = n
           /\ \A g \in Sel!Hero : g # h => t.state[g] = s.state[g] /\ t.shown[g] = s.shown[g]
           /\ SelectorEnds(t) \in Sel!Selecting /\ SelectorEnds(t).ended
           /\ SelectorEnds(t).state = t.state /\ SelectorEnds(t).shown = t.shown
<1>0. PICK t : t = SelectorTakes(s, h, own, n)
  OBVIOUS
<1>1. /\ s.state \in [Sel!Hero -> Sel!Owner] /\ s.shown \in [Sel!Hero -> Sel!Seat] /\ s.ended \in BOOLEAN
      /\ [s.state EXCEPT ![h] = own] \in [Sel!Hero -> Sel!Owner]
      /\ [s.shown EXCEPT ![h] = n] \in [Sel!Hero -> Sel!Seat]
  BY DEF Sel!Selecting
<1>2. PICK u : u = [s EXCEPT !.state[h] = own]
  OBVIOUS
<1>3. u \in Sel!Selecting /\ u.ended = s.ended /\ u.state = [s.state EXCEPT ![h] = own] /\ u.shown = s.shown
  BY <1>1, <1>2 DEF Sel!Selecting
<1>4. t = [u EXCEPT !.shown[h] = n]
  BY <1>0, <1>2 DEF Sel!Show, SelectorTakes
<1>5. t \in Sel!Selecting /\ t.ended = s.ended /\ t.state = u.state /\ t.shown = [s.shown EXCEPT ![h] = n]
  BY <1>1, <1>3, <1>4 DEF Sel!Selecting
<1>6. /\ SelectorEnds(t) \in Sel!Selecting /\ SelectorEnds(t).ended
      /\ SelectorEnds(t).state = t.state /\ SelectorEnds(t).shown = t.shown
  BY <1>5 DEF Sel!Selecting, SelectorEnds
<1>7. /\ t.state[h] = own /\ t.shown[h] = n
      /\ \A g \in Sel!Hero : g # h => t.state[g] = s.state[g] /\ t.shown[g] = s.shown[g]
  BY <1>1, <1>3, <1>5
<1> QED BY <1>0, <1>5, <1>6, <1>7

LEMMA SelectorShow ==
    ASSUME NEW s \in Sel!Selecting, NEW h \in Sel!Hero, NEW n \in Sel!Seat, NEW t, t = Sel!Show(s, h, n)
    PROVE  /\ t \in Sel!Selecting /\ t.ended = s.ended /\ t.state = s.state
           /\ t.shown = [s.shown EXCEPT ![h] = n]
  BY DEF Sel!Selecting, Sel!Show

\* What will be shown when calls are sent, ...
LEMMA SelectorStays ==
    ASSUME NEW S, NEW s \in Seq(S), NEW t \in Seq(S), NEW n \in DOMAIN s, NEW h, NEW now, NEW seat,
           Sel!WillShow(s, n, h, now, seat)
    PROVE  Sel!WillShow(s \o t, n, h, now, seat)
  BY QueueConcats DEF Sel!WillShow, Sel!Shows

LEMMA SelectorGrows ==
    ASSUME NEW S, NEW s \in Seq(S), NEW t \in Seq(S), NEW h, NEW g, NEW now, NEW old, NEW seat, NEW k \in DOMAIN t,
           Sel!WillShow(s, Len(s), h, now, old), t[1][1] = "show", t[1][2] = g, t[1][3] = seat,
           \A j \in DOMAIN t : j # 1 => t[j][1] # "show"
    PROVE  Sel!WillShow(s \o t, Len(s) + k, h, now, IF h = g THEN seat ELSE old)
<1> DEFINE n == Len(s)
           u == s \o t
           new == IF h = g THEN seat ELSE old
<1>1. /\ n \in Nat /\ k \in Nat \ {0} /\ 1 \in DOMAIN t /\ DOMAIN t = 1 .. Len(t) /\ k <= Len(t) /\ Len(t) \in Nat
      /\ \A i \in 1 .. n + Len(t) : u[i] = IF i <= n THEN s[i] ELSE t[i - n]
  BY QueueConcats
<1> HIDE DEF u, n
<1>2. \A i \in 1 .. n : i \in 1 .. n + k /\ u[i] = s[i] /\ i < n + 1
  BY <1>1
<1>3. n + 1 \in 1 .. n + k /\ u[n + 1] = t[1]
  BY <1>1
<1>4. \A i \in 1 .. n + k : i \in 1 .. n \/ i = n + 1 \/ u[i][1] # "show"
  <2> SUFFICES ASSUME NEW i \in 1 .. n + k, ~(i \in 1 .. n), i # n + 1
               PROVE  u[i][1] # "show"
    OBVIOUS
  <2>1. i \in 1 .. n + Len(t) /\ ~(i <= n) /\ i - n \in DOMAIN t /\ i - n # 1
    BY <1>1
  <2> QED BY <1>1, <2>1
<1>5. \A i \in 1 .. n : Sel!Shows(s, i, h) => s[i][3] = old \/ \E j \in 1 .. n : i < j /\ Sel!Shows(s, j, h)
  BY DEF Sel!WillShow, n
<1>6. (\A i \in 1 .. n : ~Sel!Shows(s, i, h)) => now = old
  BY DEF Sel!WillShow, n
<1>7. \A i \in 1 .. n : Sel!Shows(u, i, h) <=> Sel!Shows(s, i, h)
  BY <1>2 DEF Sel!Shows
<1>8. Sel!Shows(u, n + 1, h) <=> h = g
  BY <1>3 DEF Sel!Shows
<1>9. \A i \in 1 .. n + k : Sel!Shows(u, i, h) => i \in 1 .. n \/ i = n + 1
  BY <1>4 DEF Sel!Shows
<1>10. CASE h = g
  BY <1>10, <1>2, <1>3, <1>8, <1>9 DEF Sel!WillShow, u, n
<1>11. CASE h # g
  BY <1>2, <1>7, <1>8, <1>9, <1>11, <1>5, <1>6 DEF Sel!WillShow, u, n
<1> QED BY <1>10, <1>11

\* ... and when one arrives.
LEMMA SelectorNext ==
    ASSUME NEW S, NEW q \in Seq(S), q # << >>, NEW n \in DOMAIN q, NEW h, NEW now, NEW then, NEW seat,
           Sel!WillShow(q, n, h, now, seat),
           Sel!Shows(q, 1, h) => then = q[1][3],
           ~Sel!Shows(q, 1, h) => then = now
    PROVE  Sel!WillShow(Tail(q), n - 1, h, then, seat)
<1> DEFINE u == Tail(q)
<1>1. n \in Nat \ {0} /\ \A i \in 1 .. n - 1 : u[i] = q[i + 1] /\ i + 1 \in 1 .. n
  BY QueueTails
<1> HIDE DEF u
<1>2. \A i \in 1 .. n : i = 1 \/ (i - 1 \in 1 .. n - 1 /\ (i - 1) + 1 = i)
  BY <1>1
<1>3. \A i \in 1 .. n - 1 : Sel!Shows(u, i, h) <=> Sel!Shows(q, i + 1, h)
  BY <1>1 DEF Sel!Shows
<1>4. ASSUME NEW i \in 1 .. n - 1, Sel!Shows(u, i, h), u[i][3] # seat
      PROVE  \E j \in 1 .. n - 1 : i < j /\ Sel!Shows(u, j, h)
  <2>1. PICK j \in 1 .. n : i + 1 < j /\ Sel!Shows(q, j, h)
    BY <1>1, <1>3, <1>4 DEF Sel!WillShow
  <2>2. j - 1 \in 1 .. n - 1 /\ (j - 1) + 1 = j /\ i < j - 1
    BY <1>1, <2>1
  <2> QED BY <1>3, <2>1, <2>2
<1>5. ASSUME \A i \in 1 .. n - 1 : ~Sel!Shows(u, i, h)
      PROVE  then = seat
  BY <1>2, <1>3, <1>5, <1>1 DEF Sel!WillShow
<1>6. Sel!WillShow(u, n - 1, h, then, seat)
  BY <1>4, <1>5 DEF Sel!WillShow
<1> QED BY <1>6 DEF u

\* Who plays a hero keeps it.
SelectorKept ==
    \A c \in Sel!Client :
        v4[c] # Sel!None => v4'[c] = v4[c] \/ (v3' = {c} /\ v4'[c] = Sel!None)

\* The calls.
LEMMA SelectorCalls ==
    /\ \A h \in Sel!Hero, n \in Sel!Seat : <<"show", h, n>> \in Sel!Message
    /\ \A h \in Sel!Hero, n \in {0, 1} : <<"end", h, n>> \in Sel!Message
    /\ \A h \in Sel!Hero : <<"select", h, 1>> \in Sel!Message
    /\ \A h \in Sel!Hero : <<"authority", "crusher", Sel!Seats(h)>> \in Sel!Message
    /\ \A m \in Sel!Message : /\ m[1] \in {"select", "show", "end", "authority"}
                              /\ m[1] = "select" => m[2] \in Sel!Hero /\ m[3] = 1
                              /\ m[1] = "show" => m[2] \in Sel!Hero /\ m[3] \in Sel!Seat
<1>1. \A h \in Sel!Hero, n \in Sel!Seat : <<"show", h, n>> \in Sel!Message
  BY DEF Sel!Message
<1>2. \A h \in Sel!Hero, n \in {0, 1} : <<"end", h, n>> \in Sel!Message
  BY SelectorHeroes DEF Sel!Message
<1>3. \A h \in Sel!Hero : <<"select", h, 1>> \in Sel!Message
  BY DEF Sel!Message
<1>4. \A h \in Sel!Hero : <<"authority", "crusher", Sel!Seats(h)>> \in Sel!Message
  BY DEF Sel!Message
<1>5. ASSUME NEW m \in Sel!Message
      PROVE  /\ m[1] \in {"select", "show", "end", "authority"}
             /\ m[1] = "select" => m[2] \in Sel!Hero /\ m[3] = 1
             /\ m[1] = "show" => m[2] \in Sel!Hero /\ m[3] \in Sel!Seat
  <2>1. \/ m \in {"select"} \X Sel!Hero \X {1}
        \/ m \in {"show"} \X Sel!Hero \X Sel!Seat
        \/ m \in {"end"} \X Sel!Hero \X Sel!Client
        \/ m \in {"authority"} \X {"crusher"} \X {Sel!Seats(h) : h \in Sel!Hero}
    BY Zenon DEF Sel!Message
  <2>2. CASE m \in {"select"} \X Sel!Hero \X {1}
    BY <2>2
  <2>3. CASE m \in {"show"} \X Sel!Hero \X Sel!Seat
    BY <2>3
  <2>4. CASE m \in {"end"} \X Sel!Hero \X Sel!Client
    BY <2>4
  <2>5. CASE m \in {"authority"} \X {"crusher"} \X {Sel!Seats(h) : h \in Sel!Hero}
    <3> DEFINE A == {Sel!Seats(h) : h \in Sel!Hero}
    <3>1. m \in {"authority"} \X {"crusher"} \X A
      BY <2>5
    <3> HIDE DEF A
    <3> QED BY <3>1
  <2> QED BY <2>1, <2>2, <2>3, <2>4, <2>5
<1> QED BY <1>1, <1>2, <1>3, <1>4, <1>5

\* The master has s now, by writing that own has chosen h, and sends the calls t.
SelectorSends(t, h, own, s) ==
    /\ v1' \in [Sel!Client -> Sel!Selecting] /\ v1'[0] = s /\ v1'[1] = v1[1] /\ s \in Sel!Selecting
    /\ s.state[h] = own /\ s.shown[h] = Sel!SeatOf(own)
    /\ \A g \in Sel!Hero : g # h => s.state[g] = v1[0].state[g] /\ s.shown[g] = v1[0].shown[g]
    /\ own # Sel!None => v1[0].state[Sel!Not(h)] # own
    /\ t[1] = <<"show", h, Sel!SeatOf(own)>> /\ \A j \in DOMAIN t : j # 1 => t[j][1] = "end"
    /\ v6' \in [Sel!Client -> Seq(Sel!Message)] /\ v6'[1] = v6[1] \o t
    /\ v2' = v2 /\ v3' = v3 /\ v4' \in [Sel!Client -> Sel!Hero \cup {Sel!None}]
    /\ v5' \in [Sel!Client -> [Sel!Hero -> Sel!Seat]] /\ v4'[1] = v4[1] /\ v5'[1] = v5[1]
    /\ \A i \in DOMAIN v6'[0] : v6'[0][i][1] = "select"
    /\ v1[0].ended => s.ended /\ v4'[0] = v4[0] /\ v5'[0] = v5[0]
    /\ s.ended => v4'[0] \in Sel!Hero /\ s.state[v4'[0]] = "master" /\ v5'[0] = Sel!Seats(v4'[0])
    /\ ~s.ended => v4'[0] = v4[0] /\ \A j \in DOMAIN t : t[j][1] # "end"
    /\ (\E j \in DOMAIN t : t[j][1] = "end") => s.shown = Sel!Seats(v4'[0])

\* What the master shows of its choice reaches the other client.
LEMMA SelectorShown ==
    ASSUME Sel!Typed, Sel!Choosing, NEW t \in Seq(Sel!Message), t # << >>,
           NEW h \in Sel!Hero, NEW own \in Sel!Owner, NEW s,
           SelectorSends(t, h, own, s)
    PROVE  Sel!Typed' /\ Sel!Choosing'
<1> DEFINE q == v6[1]
           u == v6'[1]
           x == Sel!SeatOf(own)
<1> USE DEF SelectorSends
<1>1. /\ v1 \in [Sel!Client -> Sel!Selecting] /\ q \in Seq(Sel!Message) /\ u = q \o t
      /\ 0 \in Sel!Client /\ 1 \in Sel!Client /\ Sel!Client = {0, 1}
      /\ v1'[0] = s /\ v1'[1] = v1[1] /\ v1' \in [Sel!Client -> Sel!Selecting]
      /\ v2' = v2 /\ v3' = v3 /\ v4'[1] = v4[1] /\ v5'[1] = v5[1]
  BY SelectorHeroes DEF Sel!Typed
<1>2. Sel!Typed'
  BY <1>1 DEF Sel!Typed, Sel!Client, Sel!Hero, Sel!Seat, Sel!Selecting, Sel!Owner, Sel!Message, Sel!Seats,
              Sel!None, Sel!NoSeat
<1>3. v1[0].state \in [Sel!Hero -> Sel!Owner] /\ v1[0].shown \in [Sel!Hero -> Sel!Seat] /\ x \in Sel!Seat
  BY <1>1, SelectorHeroes DEF Sel!Selecting
<1> HIDE DEF q, u, x
<1>4. /\ t \in Seq(Sel!Message) /\ 1 \in DOMAIN t /\ Len(t) \in DOMAIN t /\ t[1][1] = "show" /\ t[1][2] = h /\ t[1][3] = x
      /\ \A j \in DOMAIN t : j # 1 => t[j][1] # "show"
      /\ Len(q) \in Nat /\ Len(t) \in Nat /\ Len(u) = Len(q) + Len(t)
  BY <1>1 DEF x
<1>5. /\ \A i \in DOMAIN u : \/ i \in DOMAIN q /\ u[i] = q[i]
                             \/ \E j \in DOMAIN t : u[i] = t[j] /\ i = Len(q) + j
  <2>1. q \in Seq(Sel!Message) /\ u = q \o t
    BY <1>1
  <2>2. \A i \in DOMAIN (q \o t) : \/ i \in DOMAIN q /\ (q \o t)[i] = q[i]
                                   \/ \E j \in DOMAIN t : (q \o t)[i] = t[j] /\ i = Len(q) + j
    BY SMTT(60), <2>1, QueueGrows
  <2> QED BY <2>1, <2>2
<1>6. /\ Sel!Decided /\ Sel!Followed /\ v3 = {} /\ (\A c \in Sel!Client : v2[c] = c)
      /\ \A i \in DOMAIN q : q[i][1] \in {"show", "end"}
  BY DEF Sel!Choosing, q
<1>7. \A g \in Sel!Hero, k \in DOMAIN t : Sel!WillShow(u, Len(q) + k, g, v1[1].shown[g], s.shown[g])
  <2> SUFFICES ASSUME NEW g \in Sel!Hero, NEW k \in DOMAIN t
               PROVE  Sel!WillShow(u, Len(q) + k, g, v1[1].shown[g], s.shown[g])
    OBVIOUS
  <2>1. PICK now, old : now = v1[1].shown[g] /\ old = v1[0].shown[g]
    OBVIOUS
  <2>2. Sel!WillShow(q, Len(q), g, now, old)
    BY <1>6, <2>1 DEF Sel!Followed, q
  <2>3. Sel!WillShow(q \o t, Len(q) + k, g, now, IF g = h THEN x ELSE old)
    BY <1>1, <1>4, <2>2, SelectorGrows
  <2>4. s.shown[g] = IF g = h THEN x ELSE old
    BY <1>3, <2>1 DEF x
  <2> QED BY <1>1, <2>1, <2>3, <2>4
<1>8. \A i \in DOMAIN u : u[i][1] \in {"show", "end"}
  <2> SUFFICES ASSUME NEW i \in DOMAIN u
               PROVE  u[i][1] \in {"show", "end"}
    OBVIOUS
  <2>1. CASE i \in DOMAIN q /\ u[i] = q[i]
    BY <1>6, <2>1
  <2>2. CASE \E j \in DOMAIN t : u[i] = t[j]
    <3>1. PICK j \in DOMAIN t : u[i] = t[j]
      BY <2>2
    <3> QED BY <1>4, <3>1
  <2> QED BY <1>5, <2>1, <2>2
<1>9. Sel!Decided'
  <2>1. \A g \in Sel!Hero : s.shown[g] = Sel!SeatOf(s.state[g])
    <3> SUFFICES ASSUME NEW g \in Sel!Hero
                 PROVE  s.shown[g] = Sel!SeatOf(s.state[g])
      OBVIOUS
    <3>1. v1[0].shown[g] = Sel!SeatOf(v1[0].state[g])
      BY <1>6 DEF Sel!Decided
    <3>2. /\ s.shown[g] = IF g = h THEN x ELSE v1[0].shown[g]
          /\ s.state[g] = IF g = h THEN own ELSE v1[0].state[g]
      BY <1>3 DEF x
    <3> QED BY <3>1, <3>2 DEF x
  <2>2. s.state["crusher"] = s.state["esper"] => s.state["crusher"] = Sel!None
    BY <1>3, SelectorHeroes
  <2>3. ~s.ended => v4'[0] = Sel!None /\ ~v1[1].ended /\ \A i \in DOMAIN u : u[i][1] # "end"
    <3> SUFFICES ASSUME ~s.ended
                 PROVE  v4'[0] = Sel!None /\ ~v1[1].ended /\ \A i \in DOMAIN u : u[i][1] # "end"
      OBVIOUS
    <3>1. v4'[0] = Sel!None /\ ~v1[1].ended /\ \A i \in DOMAIN q : q[i][1] # "end"
      BY <1>6 DEF Sel!Decided, q
    <3>2. \A j \in DOMAIN t : t[j][1] # "end"
      OBVIOUS
    <3>3. \A i \in DOMAIN u : u[i][1] # "end"
      BY SMTT(60), <1>5, <3>1, <3>2
    <3> QED BY <3>1, <3>3
  <2> QED BY <1>1, <2>1, <2>2, <2>3 DEF Sel!Decided, Sel!Hero, Sel!SeatOf, Sel!NoSeat, Sel!Seats, Sel!None, u
<1>10. Sel!Followed'
  <2>1. \A g \in Sel!Hero : Sel!WillShow(u, Len(u), g, v1[1].shown[g], s.shown[g])
    BY <1>4, <1>7
  <2>2. ASSUME NEW i \in DOMAIN u, u[i][1] = "end", NEW g \in Sel!Hero
        PROVE  Sel!WillShow(u, i, g, v1[1].shown[g], Sel!Seats(v4'[0])[g])
    <3>1. CASE i \in DOMAIN q /\ u[i] = q[i]
      <4>1. v1[0].ended
        BY <1>6, <2>2, <3>1 DEF Sel!Decided, q
      <4>2. PICK now, seat : now = v1[1].shown[g] /\ seat = Sel!Seats(v4[0])[g]
        OBVIOUS
      <4>3. Sel!WillShow(q, i, g, now, seat)
        BY <1>6, <2>2, <3>1, <4>2 DEF Sel!Followed, q
      <4>4. Sel!WillShow(q \o t, i, g, now, seat)
        BY <1>1, <3>1, <4>3, SelectorStays
      <4> QED BY <1>1, <4>1, <4>2, <4>4
    <3>2. CASE \E j \in DOMAIN t : u[i] = t[j] /\ i = Len(q) + j
      <4>1. PICK j \in DOMAIN t : u[i] = t[j] /\ i = Len(q) + j
        BY <3>2
      <4>2. s.shown = Sel!Seats(v4'[0])
        BY <2>2, <4>1
      <4>3. Sel!WillShow(u, i, g, v1[1].shown[g], s.shown[g])
        BY <1>7, <4>1
      <4> QED BY <4>2, <4>3
    <3> QED BY <1>5, <3>1, <3>2
  <2>3. IF v1[1].ended THEN v4'[1] = Sel!Not(v4'[0]) /\ v5'[1] = v5'[0] ELSE v4'[1] = Sel!None
    BY <1>6, <1>1 DEF Sel!Decided, Sel!Followed
  <2>4. \A g \in Sel!Hero : Sel!WillShow(u, Len(u), g, v1'[1].shown[g], v1'[0].shown[g])
    BY <1>1, <2>1
  <2>5. \A i \in DOMAIN u : u[i][1] = "end" =>
            \A g \in Sel!Hero : Sel!WillShow(u, i, g, v1'[1].shown[g], Sel!Seats(v4'[0])[g])
    BY <1>1, <2>2
  <2>6. IF v1'[1].ended THEN v4'[1] = Sel!Not(v4'[0]) /\ v5'[1] = v5'[0] ELSE v4'[1] = Sel!None
    BY <1>1, <2>3
  <2> QED BY <2>4, <2>5, <2>6
          DEF Sel!Followed, Sel!WillShow, Sel!Shows, Sel!Hero, Sel!Seats, Sel!Not, Sel!None, u
<1> QED BY <1>1, <1>2, <1>6, <1>8, <1>9, <1>10 DEF Sel!Choosing, Sel!Client, u

\* Nothing is shown by a choice that the other client only sends.
LEMMA SelectorQuiet ==
    ASSUME Sel!Typed, Sel!Choosing, v6' \in [Sel!Client -> Seq(Sel!Message)], v6'[1] = v6[1],
           \A i \in DOMAIN v6'[0] : v6'[0][i][1] = "select",
           v1' = v1, v2' = v2, v3' = v3, v4' = v4, v5' = v5
    PROVE  Sel!Typed' /\ Sel!Choosing'
<1>1. Sel!Typed'
  BY DEF Sel!Typed, Sel!Client, Sel!Hero, Sel!Seat, Sel!Selecting, Sel!Owner, Sel!Message,
         Sel!Seats, Sel!None, Sel!NoSeat
<1>2. Sel!Decided /\ Sel!Followed
  BY DEF Sel!Choosing
<1>3. Sel!Decided'
  BY <1>2 DEF Sel!Decided, Sel!Hero, Sel!Seats, Sel!None, Sel!SeatOf, Sel!NoSeat
<1>4. Sel!Followed'
  <2>1. PICK q, s, r, k : q = v6[1] /\ s = v1[1] /\ r = v1[0] /\ k = v4[0]
    OBVIOUS
  <2>2. v6'[1] = q /\ v1'[1] = s /\ v1'[0] = r /\ v4'[0] = k /\ v4'[1] = v4[1] /\ v5' = v5
    BY <2>1
  <2>3. /\ \A g \in Sel!Hero : Sel!WillShow(q, Len(q), g, s.shown[g], r.shown[g])
        /\ \A i \in DOMAIN q : q[i][1] = "end" =>
              \A g \in Sel!Hero : Sel!WillShow(q, i, g, s.shown[g], Sel!Seats(k)[g])
        /\ IF s.ended THEN v4[1] = Sel!Not(k) /\ v5[1] = v5[0] ELSE v4[1] = Sel!None
    BY <1>2, <2>1 DEF Sel!Followed
  <2> QED BY <2>2, <2>3 DEF Sel!Followed, Sel!WillShow, Sel!Shows, Sel!Hero, Sel!Seats, Sel!None, Sel!Not
<1>5. Sel!Choosing'
  BY <1>3, <1>4 DEF Sel!Choosing, Sel!Client
<1> QED BY <1>1, <1>5

\* The master decides on a choice.
LEMMA SelectorMaster ==
    ASSUME Sel!Typed, Sel!Choosing, NEW n \in {0, 1}, NEW h \in Sel!Hero, NEW ch \in [Sel!Client -> Seq(Sel!Message)],
           ch[1] = v6[1], \A i \in DOMAIN ch[0] : ch[0][i][1] = "select", n = 0 => ~v1[0].ended,
           Sel!MasterSelect(0, n, h, ch), v2' = v2, v3' = v3, ~v9'
    PROVE  SelectorKept /\ Sel!Typed' /\ Sel!Choosing'
<1>0. PICK own, s0 : own = Sel!Owning(n) /\ s0 = v1[0]
  OBVIOUS
<1> DEFINE o == Sel!Not(h)
           show == <<"show", h, n>>
           end == <<"end", h, n>>
           back == <<"show", h, Sel!NoSeat>>
<1>1. /\ v1 \in [Sel!Client -> Sel!Selecting] /\ v4 \in [Sel!Client -> Sel!Hero \cup {Sel!None}]
      /\ v5 \in [Sel!Client -> [Sel!Hero -> Sel!Seat]]
      /\ v6 \in [Sel!Client -> Seq(Sel!Message)] /\ v2 \in [Sel!Client -> Sel!Client]
  BY DEF Sel!Typed
<1>2. /\ s0 \in Sel!Selecting /\ s0.state \in [Sel!Hero -> Sel!Owner] /\ s0.shown \in [Sel!Hero -> Sel!Seat]
      /\ s0.ended \in BOOLEAN
  BY <1>0, <1>1, SelectorHeroes DEF Sel!Selecting
<1>3. /\ own = (IF n = 0 THEN "master" ELSE "slave") /\ own \in Sel!Owner /\ own # Sel!None /\ Sel!SeatOf(own) = n
      /\ n \in Sel!Seat /\ n \in Sel!Client /\ Sel!NoSeat \in Sel!Seat /\ Sel!None \in Sel!Owner
      /\ Sel!SeatOf(Sel!None) = Sel!NoSeat
  BY <1>0, SelectorHeroes
<1>4. o \in Sel!Hero /\ o # h /\ Sel!Not(o) = h /\ \A g \in Sel!Hero : g = h \/ g = o
  BY SelectorHeroes DEF o
<1>5. /\ v3 = {} /\ (\A c \in Sel!Client : v2[c] = c) /\ Sel!Decided /\ Sel!Followed
  BY DEF Sel!Choosing
<1>6. /\ \A g \in Sel!Hero : s0.shown[g] = Sel!SeatOf(s0.state[g])
      /\ s0.ended => v4[0] \in Sel!Hero /\ s0.state[v4[0]] = "master" /\ v5[0] = Sel!Seats(v4[0])
      /\ ~s0.ended => v4[0] = Sel!None
  BY <1>0, <1>5 DEF Sel!Decided
<1>7. /\ show \in Sel!Message /\ end \in Sel!Message /\ back \in Sel!Message
  BY <1>3, SelectorCalls DEF show, end, back
<1>8. ~(s0.state[h] = Sel!None /\ s0.state[o] = own)
  BY <1>0 DEF Sel!MasterSelect, o
<1>9. \/ /\ s0.state[h] = Sel!None /\ s0.state[o] # Sel!None
         /\ Sel!EndSelect(0, Sel!Show([s0 EXCEPT !.state[h] = own], h, n))
         /\ v6' = [ch EXCEPT ![1] = ch[1] \o (<<show, end>> \o << >>)]
      \/ /\ s0.state[h] = Sel!None /\ s0.state[o] = Sel!None
         /\ v1' = [v1 EXCEPT ![0] = Sel!Show([s0 EXCEPT !.state[h] = own], h, n)]
         /\ v6' = [ch EXCEPT ![1] = ch[1] \o <<show>>] /\ v4' = v4 /\ v5' = v5
      \/ /\ s0.state[h] = own
         /\ v1' = [v1 EXCEPT ![0] = Sel!Show([s0 EXCEPT !.state[h] = Sel!None], h, Sel!NoSeat)]
         /\ v6' = [ch EXCEPT ![1] = ch[1] \o <<back>>] /\ v4' = v4 /\ v5' = v5
      \/ v6' = ch /\ v1' = v1 /\ v4' = v4 /\ v5' = v5
  <2>1. Sel!Other(0) = 1
    BY SelectorHeroes
  <2>2. \A t : Sel!Tell(ch, 0, t) => v6' = [ch EXCEPT ![1] = ch[1] \o t]
    BY <1>5, <2>1 DEF Sel!Tell
  <2>3. CASE s0.state[h] = Sel!None /\ s0.state[o] # Sel!None
    <3>1. Sel!EndSelect(0, Sel!Show([s0 EXCEPT !.state[h] = own], h, n)) /\ Sel!Tell(ch, 0, <<show, end>> \o << >>)
      <4> DEFINE undo == IF s0.state[o] = own THEN << <<"show", o, Sel!NoSeat>> >> ELSE << >>
                 taken == Sel!Show([s0 EXCEPT !.state[h] = own], h, n)
      <4>1. /\ Sel!EndSelect(0, Sel!Show([s0 EXCEPT !.state[h] = own], h, n))
            /\ Sel!Tell(ch, 0, <<show, end>> \o undo)
        BY <1>0, <1>3, <2>3 DEF Sel!MasterSelect, o, show, end
      <4>2. undo = << >>
        BY <1>8, <2>3
      <4> QED BY <4>1, <4>2
    <3>2. v6' = [ch EXCEPT ![1] = ch[1] \o (<<show, end>> \o << >>)]
      BY <2>2, <3>1
    <3> QED BY <2>3, <3>1, <3>2, Zenon
  <2>4. CASE s0.state[h] = Sel!None /\ s0.state[o] = Sel!None
    BY <1>0, <2>2, <2>4 DEF Sel!MasterSelect, o, show
  <2>5. CASE s0.state[h] # Sel!None
    BY <1>0, <2>2, <2>5 DEF Sel!MasterSelect, o, back
  <2> QED BY <2>3, <2>4, <2>5
<1> HIDE DEF o, show, end, back
<1>10. CASE /\ s0.state[h] = Sel!None /\ s0.state[o] # Sel!None
            /\ Sel!EndSelect(0, Sel!Show([s0 EXCEPT !.state[h] = own], h, n))
            /\ v6' = [ch EXCEPT ![1] = ch[1] \o (<<show, end>> \o << >>)]
  <2>1. PICK t : t = SelectorTakes(s0, h, own, n)
    OBVIOUS
  <2>2. PICK s : s = SelectorEnds(t)
    OBVIOUS
  <2>3. /\ t.state[h] = own /\ t.shown[h] = n
        /\ \A g \in Sel!Hero : g # h => t.state[g] = s0.state[g] /\ t.shown[g] = s0.shown[g]
        /\ s \in Sel!Selecting /\ s.ended /\ s.state = t.state /\ s.shown = t.shown
    <3>1. s0 \in Sel!Selecting /\ own \in Sel!Owner /\ n \in Sel!Seat
      BY <1>2, <1>3
    <3>2. /\ t.state[h] = own /\ t.shown[h] = n
          /\ \A g \in Sel!Hero : g # h => t.state[g] = s0.state[g] /\ t.shown[g] = s0.shown[g]
          /\ SelectorEnds(t) \in Sel!Selecting /\ SelectorEnds(t).ended
          /\ SelectorEnds(t).state = t.state /\ SelectorEnds(t).shown = t.shown
      BY <2>1, <3>1, SelectorTaken
    <3> QED BY <2>2, <3>2
  <2>4. s.state[h] = own /\ s.state[o] = s0.state[o] /\ s.shown[h] = n /\ s.shown[o] = s0.shown[o]
    BY <1>4, <2>3
  <2>5. PICK k \in Sel!Hero : k = IF n = 0 THEN h ELSE o
    BY <1>4
  <2>6. s.state[k] = "master" /\ s.shown[k] = 0 /\ s.shown[Sel!Not(k)] = 1
    <3>1. s0.state[o] = (IF n = 0 THEN "slave" ELSE "master") /\ s0.shown[o] = 1 - n
      BY <1>2, <1>3, <1>4, <1>6, <1>8, <1>10, SelectorHeroes
    <3>2. CASE n = 0
      BY <1>3, <1>4, <2>4, <2>5, <3>1, <3>2 DEF o
    <3>3. CASE n = 1
      BY <1>3, <1>4, <2>4, <2>5, <3>1, <3>3
    <3> QED BY <3>2, <3>3
  <2>7. s.shown = Sel!Seats(k)
    BY <2>3, SelectorSeats, <2>6, SelectorHeroes DEF Sel!Selecting
  <2>8. v1' = [v1 EXCEPT ![0] = s] /\ v4' = [v4 EXCEPT ![0] = k] /\ v5' = [v5 EXCEPT ![0] = s.shown]
    <3>1. v2[0] = 0
      BY <1>5, SelectorHeroes
    <3>2. Sel!EndSelect(0, t)
      BY <1>10, <2>1 DEF SelectorTakes
    <3>3. v4' = [v4 EXCEPT ![0] = IF 0 \in {t.shown[g] : g \in Sel!Hero}
                                    THEN CHOOSE g \in Sel!Hero : t.shown[g] = 0 ELSE Sel!None]
      BY <3>1, <3>2 DEF Sel!EndSelect
    <3>4. 0 \in {t.shown[g] : g \in Sel!Hero} /\ (CHOOSE g \in Sel!Hero : t.shown[g] = 0) = k
      BY <2>3, <2>6, SelectorChosen
    <3> QED BY <2>2, <2>3, <3>2, <3>3, <3>4 DEF Sel!EndSelect, SelectorEnds
  <2>9. /\ <<show, end>> \in Seq(Sel!Message) /\ <<show, end>> \o << >> = <<show, end>> /\ <<show, end>> # << >>
        /\ DOMAIN <<show, end>> = {1, 2} /\ <<show, end>>[1] = show /\ <<show, end>>[2] = end
    BY <1>7
  <2>10. PICK u \in Seq(Sel!Message) :
             u # << >> /\ DOMAIN u = {1, 2} /\ u[1] = show /\ u[2][1] = "end" /\ v6' = [ch EXCEPT ![1] = ch[1] \o u]
    BY <1>10, <2>9 DEF end
  <2>11. /\ v6' \in [Sel!Client -> Seq(Sel!Message)] /\ v6'[1] = v6[1] \o u
         /\ \A i \in DOMAIN v6'[0] : v6'[0][i][1] = "select"
    BY <1>1, <2>10, SelectorHeroes, QueueConcats
  <2>12. /\ v4' \in [Sel!Client -> Sel!Hero \cup {Sel!None}] /\ v5' \in [Sel!Client -> [Sel!Hero -> Sel!Seat]]
         /\ v4'[0] = k /\ v4'[1] = v4[1] /\ v5'[0] = Sel!Seats(k) /\ v5'[1] = v5[1]
    BY <1>1, <2>7, <2>8, SelectorHeroes, SelectorSeats
  <2>13. s0.ended => v4[0] = k
    <3> SUFFICES ASSUME s0.ended
                 PROVE  v4[0] = k
      OBVIOUS
    <3>1. v4[0] \in Sel!Hero /\ s0.state[v4[0]] = "master"
      BY <1>6
    <3>2. v4[0] = o /\ s0.state[o] = "master"
      BY <1>4, <1>10, <3>1, SelectorHeroes
    <3>3. n # 0
      BY <1>3, <1>8, <1>10, <3>2
    <3> QED BY <2>5, <3>2, <3>3
  <2>14. v1[0].ended => s.ended /\ v4'[0] = v4[0] /\ v5'[0] = v5[0]
    BY <1>0, <1>6, <2>3, <2>12, <2>13
  <2>15. Sel!Typed' /\ Sel!Choosing'
    <3>1. /\ s.state[h] = own /\ s.shown[h] = Sel!SeatOf(own)
          /\ \A g \in Sel!Hero : g # h => s.state[g] = v1[0].state[g] /\ s.shown[g] = v1[0].shown[g]
      BY <1>0, <1>3, <2>3
    <3>7. v1' \in [Sel!Client -> Sel!Selecting] /\ v1'[0] = s /\ v1'[1] = v1[1]
      BY <1>1, <2>3, <2>8, SelectorHeroes
    <3>2. v1[0].state[Sel!Not(h)] # own
      BY <1>0, <1>8, <1>10 DEF o
    <3>3. u[1] = <<"show", h, Sel!SeatOf(own)>> /\ \A j \in DOMAIN u : j # 1 => u[j][1] = "end"
      BY <1>3, <2>10 DEF show
    <3>4. s.ended => v4'[0] \in Sel!Hero /\ s.state[v4'[0]] = "master" /\ v5'[0] = Sel!Seats(v4'[0])
      BY <2>6, <2>12
    <3>5. s.shown = Sel!Seats(v4'[0])
      BY <2>7, <2>12
    <3>6. SelectorSends(u, h, own, s)
      BY <1>3, <2>3, <2>10, <2>11, <2>12, <2>14, <3>1, <3>2, <3>3, <3>4, <3>5, <3>7 DEF SelectorSends
    <3> QED BY <1>3, <2>10, <3>6, SelectorShown
  <2>16. SelectorKept
    BY <1>6, <2>12, <2>13, SelectorHeroes DEF SelectorKept
  <2> QED BY <2>15, <2>16
<1>11. CASE /\ s0.state[h] = Sel!None /\ s0.state[o] = Sel!None
            /\ v1' = [v1 EXCEPT ![0] = Sel!Show([s0 EXCEPT !.state[h] = own], h, n)]
            /\ v6' = [ch EXCEPT ![1] = ch[1] \o <<show>>] /\ v4' = v4 /\ v5' = v5
  <2>1. PICK s : s = SelectorTakes(s0, h, own, n)
    OBVIOUS
  <2>2. v1' = [v1 EXCEPT ![0] = s]
    BY <1>11, <2>1 DEF SelectorTakes
  <2>3. ~s0.ended
    <3> SUFFICES ASSUME s0.ended
                 PROVE  FALSE
      OBVIOUS
    <3>1. v4[0] \in Sel!Hero /\ s0.state[v4[0]] = "master"
      BY <1>6
    <3>2. s0.state[v4[0]] = Sel!None
      BY <1>4, <1>11, <3>1
    <3> QED BY <3>1, <3>2, SelectorHeroes
  <2>4. /\ s.state[h] = own /\ s.shown[h] = n /\ s.ended = s0.ended /\ s \in Sel!Selecting
        /\ \A g \in Sel!Hero : g # h => s.state[g] = s0.state[g] /\ s.shown[g] = s0.shown[g]
    <3>1. s0 \in Sel!Selecting /\ own \in Sel!Owner /\ n \in Sel!Seat
      BY <1>2, <1>3
    <3> QED BY <2>1, <3>1, SelectorTaken
  <2>5. PICK u \in Seq(Sel!Message) :
            u # << >> /\ DOMAIN u = {1} /\ u[1] = show /\ v6' = [ch EXCEPT ![1] = ch[1] \o u]
    BY <1>7, <1>11, QueueBlows
  <2>6. SelectorSends(u, h, own, s)
    <3>1. /\ v6' \in [Sel!Client -> Seq(Sel!Message)] /\ v6'[1] = v6[1] \o u
          /\ \A i \in DOMAIN v6'[0] : v6'[0][i][1] = "select"
      BY <1>1, <2>5, SelectorHeroes, QueueConcats
    <3>2. v1' \in [Sel!Client -> Sel!Selecting] /\ v1'[0] = s /\ v1'[1] = v1[1]
      BY <1>1, <2>2, <2>4, SelectorHeroes
    <3>3. u[1] = <<"show", h, Sel!SeatOf(own)>> /\ u[1][1] # "end" /\ \A j \in DOMAIN u : j = 1
      BY <1>3, <2>5 DEF show
    <3>4. v1[0].state[Sel!Not(h)] # own /\ ~v1[0].ended /\ ~s.ended
      BY <1>0, <1>3, <1>11, <2>3, <2>4 DEF o
    <3>5. /\ s.state[h] = own /\ s.shown[h] = Sel!SeatOf(own)
          /\ \A g \in Sel!Hero : g # h => s.state[g] = v1[0].state[g] /\ s.shown[g] = v1[0].shown[g]
      BY <1>0, <1>3, <2>4
    <3> QED BY <1>1, <1>11, <2>4, <3>1, <3>2, <3>3, <3>4, <3>5 DEF SelectorSends
  <2> QED BY <1>3, <1>11, <2>5, <2>6, SelectorShown DEF SelectorKept
<1>12. CASE /\ s0.state[h] = own
            /\ v1' = [v1 EXCEPT ![0] = Sel!Show([s0 EXCEPT !.state[h] = Sel!None], h, Sel!NoSeat)]
            /\ v6' = [ch EXCEPT ![1] = ch[1] \o <<back>>] /\ v4' = v4 /\ v5' = v5
  <2>1. PICK s : s = SelectorTakes(s0, h, Sel!None, Sel!NoSeat)
    OBVIOUS
  <2>2. v1' = [v1 EXCEPT ![0] = s]
    BY <1>12, <2>1 DEF SelectorTakes
  <2>3. s0.ended => v4[0] # h
    <3> SUFFICES ASSUME s0.ended, v4[0] = h
                 PROVE  FALSE
      OBVIOUS
    <3>1. own = "master"
      BY <1>6, <1>12
    <3> QED BY <1>0, <1>3, <3>1
  <2>4. /\ s.state[h] = Sel!None /\ s.shown[h] = Sel!NoSeat /\ s.ended = s0.ended /\ s \in Sel!Selecting
        /\ \A g \in Sel!Hero : g # h => s.state[g] = s0.state[g] /\ s.shown[g] = s0.shown[g]
    <3>1. s0 \in Sel!Selecting /\ Sel!None \in Sel!Owner /\ Sel!NoSeat \in Sel!Seat
      BY <1>2, <1>3
    <3> QED BY <2>1, <3>1, SelectorTaken
  <2>5. PICK u \in Seq(Sel!Message) :
            u # << >> /\ DOMAIN u = {1} /\ u[1] = back /\ v6' = [ch EXCEPT ![1] = ch[1] \o u]
    BY <1>7, <1>12, QueueBlows
  <2>6. SelectorSends(u, h, Sel!None, s)
    <3>1. /\ v6' \in [Sel!Client -> Seq(Sel!Message)] /\ v6'[1] = v6[1] \o u
          /\ \A i \in DOMAIN v6'[0] : v6'[0][i][1] = "select"
      BY <1>1, <2>5, SelectorHeroes, QueueConcats
    <3>2. v1' \in [Sel!Client -> Sel!Selecting] /\ v1'[0] = s /\ v1'[1] = v1[1]
      BY <1>1, <2>2, <2>4, SelectorHeroes
    <3>3. u[1] = <<"show", h, Sel!SeatOf(Sel!None)>> /\ u[1][1] # "end" /\ \A j \in DOMAIN u : j = 1
      BY <1>3, <2>5 DEF back
    <3>4. v1[0].ended => s.ended /\ v4[0] \in Sel!Hero /\ s.state[v4[0]] = "master" /\ v5[0] = Sel!Seats(v4[0])
      BY <1>0, <1>6, <2>3, <2>4
    <3>5. /\ s.state[h] = Sel!None /\ s.shown[h] = Sel!SeatOf(Sel!None) /\ s.ended = v1[0].ended
          /\ \A g \in Sel!Hero : g # h => s.state[g] = v1[0].state[g] /\ s.shown[g] = v1[0].shown[g]
      BY <1>0, <1>3, <2>4
    <3> QED BY <1>1, <1>12, <2>4, <3>1, <3>2, <3>3, <3>4, <3>5 DEF SelectorSends
  <2> QED BY <1>3, <1>12, <2>5, <2>6, SelectorShown DEF SelectorKept
<1>13. CASE v6' = ch /\ v1' = v1 /\ v4' = v4 /\ v5' = v5
  BY <1>13, SelectorQuiet DEF SelectorKept
<1> QED BY <1>9, <1>10, <1>11, <1>12, <1>13

\* A call arrives at the other client.
SelectorHears(s) ==
    LET q == v6[1]
    IN  /\ q # << >> /\ s \in Sel!Selecting /\ v1' = [v1 EXCEPT ![1] = s]
        /\ \A g \in Sel!Hero : /\ Sel!Shows(q, 1, g) => s.shown[g] = q[1][3]
                               /\ ~Sel!Shows(q, 1, g) => s.shown[g] = v1[1].shown[g]
        /\ v6' = [v6 EXCEPT ![1] = Tail(q)] /\ v2' = v2 /\ v3' = v3
        /\ v4' \in [Sel!Client -> Sel!Hero \cup {Sel!None}] /\ v4'[0] = v4[0]
        /\ v5' \in [Sel!Client -> [Sel!Hero -> Sel!Seat]] /\ v5'[0] = v5[0]
        /\ s.ended => v1[0].ended
        /\ IF s.ended THEN v4'[1] = Sel!Not(v4[0]) /\ v5'[1] = v5[0] ELSE v4'[1] = Sel!None

LEMMA SelectorHeard ==
    ASSUME Sel!Typed, Sel!Choosing, NEW s, SelectorHears(s)
    PROVE  Sel!Typed' /\ Sel!Choosing'
<1>1. PICK q, u, r, k, w : q = v6[1] /\ u = Tail(q) /\ r = v1[0] /\ k = v4[0] /\ w = v1[1]
  OBVIOUS
<1>2. /\ v1 \in [Sel!Client -> Sel!Selecting] /\ v6 \in [Sel!Client -> Seq(Sel!Message)]
      /\ q \in Seq(Sel!Message) /\ q # << >> /\ 0 \in Sel!Client /\ 1 \in Sel!Client /\ Sel!Client = {0, 1}
  BY <1>1, SelectorHeroes DEF Sel!Typed, SelectorHears
<1>3. /\ u \in Seq(Sel!Message) /\ Len(q) \in Nat \ {0} /\ DOMAIN q = 1 .. Len(q) /\ DOMAIN u = 1 .. Len(q) - 1
      /\ \A i \in 1 .. Len(q) - 1 : u[i] = q[i + 1] /\ i + 1 \in DOMAIN q
      /\ Len(u) = Len(q) - 1
  BY <1>1, <1>2, QueueTails
<1>4. /\ v1'[0] = r /\ v1'[1] = s /\ v6'[1] = u /\ v6'[0] = v6[0] /\ v4'[0] = k /\ v5'[0] = v5[0]
      /\ v1' \in [Sel!Client -> Sel!Selecting] /\ v6' \in [Sel!Client -> Seq(Sel!Message)]
  BY <1>1, <1>2, <1>3 DEF SelectorHears
<1>5. Sel!Typed'
  <2>1. /\ v4' \in [Sel!Client -> Sel!Hero \cup {Sel!None}] /\ v5' \in [Sel!Client -> [Sel!Hero -> Sel!Seat]]
        /\ v2' = v2 /\ v2 \in [Sel!Client -> Sel!Client]
    BY DEF SelectorHears, Sel!Typed
  <2> QED BY <1>4, <2>1 DEF Sel!Typed, Sel!Client, Sel!Hero, Sel!Seat, Sel!Selecting, Sel!Owner, Sel!Message,
                            Sel!Seats, Sel!None, Sel!NoSeat
<1>6. /\ Sel!Decided /\ Sel!Followed /\ v3 = {} /\ (\A c \in Sel!Client : v2[c] = c)
      /\ (\A i \in DOMAIN v6[0] : v6[0][i][1] = "select")
      /\ \A i \in DOMAIN q : q[i][1] \in {"show", "end"}
  BY <1>1 DEF Sel!Choosing
<1>7. Sel!Decided'
  <2>1. /\ \A h \in Sel!Hero : r.shown[h] = Sel!SeatOf(r.state[h])
        /\ r.state["crusher"] = r.state["esper"] => r.state["crusher"] = Sel!None
        /\ ~r.ended => k = Sel!None /\ \A i \in DOMAIN q : q[i][1] # "end"
        /\ r.ended => k \in Sel!Hero /\ r.state[k] = "master" /\ v5[0] = Sel!Seats(k)
    BY <1>1, <1>6 DEF Sel!Decided
  <2>2. ~r.ended => ~s.ended /\ \A i \in DOMAIN u : u[i][1] # "end"
    BY SMTT(60), <1>1, <1>3, <2>1 DEF SelectorHears
  <2> QED BY <1>4, <2>1, <2>2 DEF Sel!Decided, Sel!Hero, Sel!Seats, Sel!None, Sel!SeatOf, Sel!NoSeat
<1>8. ASSUME NEW i \in DOMAIN q, NEW g \in Sel!Hero, NEW seat, Sel!WillShow(q, i, g, w.shown[g], seat)
      PROVE  Sel!WillShow(u, i - 1, g, s.shown[g], seat)
  <2>1. PICK now, then : now = w.shown[g] /\ then = s.shown[g]
    OBVIOUS
  <2>2. (Sel!Shows(q, 1, g) => then = q[1][3]) /\ (~Sel!Shows(q, 1, g) => then = now)
    BY <1>1, <2>1 DEF SelectorHears
  <2>3. Sel!WillShow(q, i, g, now, seat)
    BY <1>8, <2>1
  <2>4. Sel!WillShow(Tail(q), i - 1, g, then, seat)
    BY <1>2, <2>2, <2>3, SelectorNext
  <2> QED BY <1>1, <2>1, <2>4
<1>9. Sel!Followed'
  <2>1. /\ \A g \in Sel!Hero : Sel!WillShow(q, Len(q), g, w.shown[g], r.shown[g])
        /\ \A i \in DOMAIN q : q[i][1] = "end" =>
              \A g \in Sel!Hero : Sel!WillShow(q, i, g, w.shown[g], Sel!Seats(k)[g])
    BY <1>1, <1>6 DEF Sel!Followed
  <2>2. \A g \in Sel!Hero : Sel!WillShow(u, Len(u), g, s.shown[g], r.shown[g])
    <3> SUFFICES ASSUME NEW g \in Sel!Hero
                 PROVE  Sel!WillShow(u, Len(u), g, s.shown[g], r.shown[g])
      OBVIOUS
    <3>1. Len(q) \in DOMAIN q /\ Len(u) = Len(q) - 1
      BY <1>3
    <3> QED BY <1>8, <2>1, <3>1
  <2>3. \A i \in DOMAIN u : u[i][1] = "end" =>
            \A g \in Sel!Hero : Sel!WillShow(u, i, g, s.shown[g], Sel!Seats(k)[g])
    <3> SUFFICES ASSUME NEW i \in DOMAIN u, u[i][1] = "end", NEW g \in Sel!Hero
                 PROVE  Sel!WillShow(u, i, g, s.shown[g], Sel!Seats(k)[g])
      OBVIOUS
    <3>1. i + 1 \in DOMAIN q /\ (i + 1) - 1 = i /\ q[i + 1][1] = "end"
      BY <1>3
    <3>2. PICK j : j = i + 1
      OBVIOUS
    <3>3. Sel!WillShow(q, j, g, w.shown[g], Sel!Seats(k)[g])
      BY <2>1, <3>1, <3>2
    <3>5. PICK seat : seat = Sel!Seats(k)[g]
      OBVIOUS
    <3>4. Sel!WillShow(u, j - 1, g, s.shown[g], Sel!Seats(k)[g])
      BY <1>8, <3>1, <3>2, <3>3, <3>5
    <3> QED BY <3>1, <3>2, <3>4
  <2>4. IF s.ended THEN v4'[1] = Sel!Not(k) /\ v5'[1] = v5[0] ELSE v4'[1] = Sel!None
    BY <1>1 DEF SelectorHears
  <2>5. u = v6'[1] /\ s = v1'[1] /\ r = v1'[0] /\ k = v4'[0] /\ v5[0] = v5'[0]
    BY <1>4
  <2>6. \A g \in Sel!Hero : Sel!WillShow(v6'[1], Len(v6'[1]), g, v1'[1].shown[g], v1'[0].shown[g])
    BY <2>2, <2>5
  <2>7. \A i \in DOMAIN v6'[1] : v6'[1][i][1] = "end" =>
            \A g \in Sel!Hero : Sel!WillShow(v6'[1], i, g, v1'[1].shown[g], Sel!Seats(v4'[0])[g])
    BY <2>3, <2>5
  <2>8. IF v1'[1].ended THEN v4'[1] = Sel!Not(v4'[0]) /\ v5'[1] = v5'[0] ELSE v4'[1] = Sel!None
    BY <2>4, <2>5
  <2> QED BY <2>6, <2>7, <2>8
          DEF Sel!Followed, Sel!WillShow, Sel!Shows, Sel!Hero, Sel!Seats, Sel!None, Sel!Not
<1>10. Sel!Choosing'
  BY <1>3, <1>6, <1>4, <1>7, <1>9 DEF SelectorHears, Sel!Choosing, Sel!Client
<1> QED BY <1>5, <1>10

\* A choice is made, or a call arrives, while the heroes are chosen.
LEMMA SelectorChoosing ==
    ASSUME Sel!Typed, Sel!Choosing, ~v9', NEW c \in Sel!Client, NEW h \in Sel!Hero, Sel!Select(c, h) \/ Sel!Recv(c)
    PROVE  SelectorKept /\ Sel!Typed' /\ Sel!Choosing'
<1>1. /\ v1 \in [Sel!Client -> Sel!Selecting] /\ v4 \in [Sel!Client -> Sel!Hero \cup {Sel!None}]
      /\ v5 \in [Sel!Client -> [Sel!Hero -> Sel!Seat]] /\ v6 \in [Sel!Client -> Seq(Sel!Message)]
  BY DEF Sel!Typed
<1>2. /\ v3 = {} /\ v2[0] = 0 /\ v2[1] = 1 /\ Sel!Decided /\ Sel!Followed
      /\ \A i \in DOMAIN v6[0] : v6[0][i][1] = "select"
      /\ \A i \in DOMAIN v6[1] : v6[1][i][1] \in {"show", "end"}
  BY SelectorHeroes DEF Sel!Choosing
<1>3. /\ Sel!Client = {0, 1} /\ Sel!Other(0) = 1 /\ Sel!Other(1) = 0
      /\ v6[0] \in Seq(Sel!Message) /\ v6[1] \in Seq(Sel!Message)
  BY <1>1, SelectorHeroes
<1>4. CASE Sel!Select(0, h)
  <2>1. Sel!MasterSelect(0, 0, h, v6) /\ v2' = v2 /\ v3' = v3 /\ ~v1[0].ended
    BY <1>2, <1>4 DEF Sel!Select
  <2>2. PICK ch \in [Sel!Client -> Seq(Sel!Message)] : ch = v6
    BY <1>1
  <2>3. Sel!MasterSelect(0, 0, h, ch) /\ ch[1] = v6[1] /\ \A i \in DOMAIN ch[0] : ch[0][i][1] = "select"
    BY <1>2, <2>1, <2>2
  <2>4. 0 \in {0, 1} /\ (0 = 0 => ~v1[0].ended)
    BY <2>1
  <2> QED BY <2>1, <2>3, <2>4, SelectorMaster
<1>5. CASE Sel!Select(1, h)
  <2>1. /\ v6' = [v6 EXCEPT ![0] = v6[0] \o << <<"select", h, 1>> >>]
        /\ v1' = v1 /\ v2' = v2 /\ v3' = v3 /\ v4' = v4 /\ v5' = v5
    <3>1. Sel!Tell(v6, 1, << <<"select", h, 1>> >>) /\ v1' = v1 /\ v2' = v2 /\ v3' = v3 /\ v4' = v4 /\ v5' = v5
      BY <1>2, <1>5 DEF Sel!Select
    <3>2. v6' = [v6 EXCEPT ![0] = v6[0] \o << <<"select", h, 1>> >>]
      BY <1>2, <1>3, <3>1 DEF Sel!Tell
    <3> QED BY <3>1, <3>2
  <2>2. <<"select", h, 1>> \in Sel!Message
    BY SelectorCalls
  <2>3. PICK u \in Seq(Sel!Message) : v6' = [v6 EXCEPT ![0] = v6[0] \o u] /\ \A j \in DOMAIN u : u[j][1] = "select"
    <3>1. PICK m \in Sel!Message : m = <<"select", h, 1>>
      BY <2>2
    <3>2. <<m>> \in Seq(Sel!Message) /\ DOMAIN <<m>> = {1} /\ <<m>>[1] = m
      BY QueueBlows
    <3>3. m[1] = "select"
      BY <3>1
    <3> QED BY <2>1, <3>1, <3>2, <3>3
  <2>4. PICK q \in Seq(Sel!Message) : q = v6[0]
    BY <1>3
  <2>5. /\ q \o u \in Seq(Sel!Message)
        /\ \A i \in DOMAIN (q \o u) : \/ i \in DOMAIN q /\ (q \o u)[i] = q[i]
                                      \/ \E j \in DOMAIN u : (q \o u)[i] = u[j] /\ i = Len(q) + j
    BY QueueGrows
  <2>6. \A i \in DOMAIN (q \o u) : (q \o u)[i][1] = "select"
    BY <1>2, <2>3, <2>4, <2>5
  <2>7. v6' \in [Sel!Client -> Seq(Sel!Message)] /\ v6'[1] = v6[1] /\ v6'[0] = q \o u
    BY <1>1, <1>3, <2>3, <2>4, <2>5
  <2> QED BY <2>1, <2>6, <2>7, SelectorQuiet DEF SelectorKept
<1>6. CASE Sel!Recv(0)
  <2>1. PICK q \in Seq(Sel!Message) : q = v6[0]
    BY <1>3
  <2>2. /\ q # << >> /\ Tail(q) \in Seq(Sel!Message) /\ Head(q) = q[1] /\ q[1] \in Sel!Message /\ 1 \in DOMAIN q
        /\ \A i \in DOMAIN Tail(q) : i + 1 \in DOMAIN q /\ Tail(q)[i] = q[i + 1]
    BY <1>6, <2>1, QueueTails DEF Sel!Recv
  <2>3. PICK m, g : m = q[1] /\ g = m[2]
    OBVIOUS
  <2>4. m[1] = "select" /\ g \in Sel!Hero /\ m[3] = 1
    BY <1>2, <2>1, <2>2, <2>3, SelectorCalls
  <2>5. PICK ch : ch = [v6 EXCEPT ![0] = Tail(q)]
    OBVIOUS
  <2>6. ch \in [Sel!Client -> Seq(Sel!Message)] /\ ch[1] = v6[1] /\ ch[0] = Tail(q)
    BY <1>1, <1>3, <2>2, <2>5
  <2>7. Sel!MasterSelect(0, 1, g, ch) /\ v2' = v2 /\ v3' = v3
    BY <1>6, <2>1, <2>2, <2>3, <2>4, <2>5 DEF Sel!Recv
  <2>8. \A i \in DOMAIN ch[0] : ch[0][i][1] = "select"
    BY <1>2, <2>1, <2>2, <2>6
  <2>9. 1 \in {0, 1} /\ (1 = 0 => ~v1[0].ended)
    OBVIOUS
  <2> QED BY <2>4, <2>6, <2>7, <2>8, <2>9, SelectorMaster
<1>7. CASE Sel!Recv(1)
  <2>1. PICK q \in Seq(Sel!Message) : q = v6[1]
    BY <1>3
  <2>2. q # << >> /\ Head(q) = q[1] /\ q[1] \in Sel!Message /\ 1 \in DOMAIN q /\ v2' = v2 /\ v3' = v3
    BY <1>7, <2>1, QueueTails DEF Sel!Recv
  <2>3. PICK m, g, w : m = q[1] /\ g = m[2] /\ w = v1[1]
    OBVIOUS
  <2>4. m[1] \in {"show", "end"} /\ (m[1] = "show" => g \in Sel!Hero /\ m[3] \in Sel!Seat)
    BY <1>2, <2>1, <2>2, <2>3, SelectorCalls
  <2>5. w \in Sel!Selecting /\ w.shown \in [Sel!Hero -> Sel!Seat]
    BY <1>1, <1>3, <2>3 DEF Sel!Selecting
  <2>6. /\ w.ended => v1[0].ended
        /\ IF w.ended THEN v4[1] = Sel!Not(v4[0]) /\ v5[1] = v5[0] ELSE v4[1] = Sel!None
    BY <1>2, <2>3 DEF Sel!Decided, Sel!Followed
  <2>7. CASE m[1] = "show"
    <3>1. /\ v1' = [v1 EXCEPT ![1] = Sel!Show(w, g, m[3])] /\ v6' = [v6 EXCEPT ![1] = Tail(q)]
          /\ v4' = v4 /\ v5' = v5
      BY <1>7, <2>1, <2>2, <2>3, <2>7 DEF Sel!Recv
    <3>2. PICK s : s = Sel!Show(w, g, m[3])
      OBVIOUS
    <3>3. s \in Sel!Selecting /\ s.ended = w.ended /\ s.shown = [w.shown EXCEPT ![g] = m[3]]
      BY <2>4, <2>5, <2>7, <3>2, SelectorShow
    <3>4. SelectorHears(s)
      <4>1. \A x \in Sel!Hero : /\ Sel!Shows(q, 1, x) => s.shown[x] = q[1][3]
                                /\ ~Sel!Shows(q, 1, x) => s.shown[x] = w.shown[x]
        BY <2>3, <2>5, <2>7, <3>3 DEF Sel!Shows
      <4>2. v1' = [v1 EXCEPT ![1] = s]
        BY <3>1, <3>2
      <4> QED BY <1>1, <2>1, <2>2, <2>3, <2>6, <3>1, <3>3, <4>1, <4>2 DEF SelectorHears
    <3> QED BY <3>1, <3>4, SelectorHeard DEF SelectorKept
  <2>8. CASE m[1] = "end"
    <3>1. PICK k \in Sel!Hero : k = v4[0] /\ v1[0].ended /\ v5[0] = Sel!Seats(k)
      BY <1>2, <2>1, <2>2, <2>3, <2>8 DEF Sel!Decided
    <3>2. \A x \in Sel!Hero : ~Sel!Shows(q, 1, x)
      BY <2>3, <2>8 DEF Sel!Shows
    <3>3. \A x \in Sel!Hero : w.shown[x] = Sel!Seats(k)[x]
      <4> SUFFICES ASSUME NEW x \in Sel!Hero
                   PROVE  w.shown[x] = Sel!Seats(k)[x]
        OBVIOUS
      <4>1. Sel!WillShow(q, 1, x, w.shown[x], Sel!Seats(k)[x])
        BY <1>2, <2>1, <2>2, <2>3, <2>8, <3>1 DEF Sel!Followed
      <4>2. \A i \in 1 .. 1 : ~Sel!Shows(q, i, x)
        BY <3>2
      <4> QED BY <4>1, <4>2 DEF Sel!WillShow
    <3>4. w.shown = Sel!Seats(k)
      BY SelectorSeats, <2>5, <3>3
    <3>5. /\ Sel!EndSelect(1, w) /\ v6' = [v6 EXCEPT ![1] = Tail(q)]
      BY <1>7, <2>1, <2>2, <2>3, <2>8 DEF Sel!Recv
    <3>6. PICK s : s = SelectorEnds(w)
      OBVIOUS
    <3>7. s \in Sel!Selecting /\ s.ended /\ s.shown = w.shown
      BY <2>5, <3>6 DEF Sel!Selecting, SelectorEnds
    <3>8. /\ v1' = [v1 EXCEPT ![1] = s] /\ v4' = [v4 EXCEPT ![1] = Sel!Not(k)] /\ v5' = [v5 EXCEPT ![1] = Sel!Seats(k)]
      <4>1. 1 \in {w.shown[x] : x \in Sel!Hero} /\ (CHOOSE x \in Sel!Hero : w.shown[x] = 1) = Sel!Not(k)
        BY <3>4, SelectorSeats, SelectorHeroes
      <4>2. v4' = [v4 EXCEPT ![1] = IF 1 \in {w.shown[x] : x \in Sel!Hero}
                                      THEN CHOOSE x \in Sel!Hero : w.shown[x] = 1 ELSE Sel!None]
        BY <1>2, <3>5 DEF Sel!EndSelect
      <4>3. v4' = [v4 EXCEPT ![1] = Sel!Not(k)]
        BY <4>1, <4>2
      <4>4. v5' = [v5 EXCEPT ![1] = Sel!Seats(k)]
        BY <3>4, <3>5 DEF Sel!EndSelect
      <4>5. v1' = [v1 EXCEPT ![1] = s]
        BY <3>5, <3>6 DEF Sel!EndSelect, SelectorEnds
      <4> QED BY <4>3, <4>4, <4>5
    <3>9. /\ v4' \in [Sel!Client -> Sel!Hero \cup {Sel!None}] /\ v5' \in [Sel!Client -> [Sel!Hero -> Sel!Seat]]
          /\ v4'[0] = v4[0] /\ v4'[1] = Sel!Not(k) /\ v5'[0] = v5[0] /\ v5'[1] = Sel!Seats(k)
      BY SelectorHeroes, SelectorSeats, <1>1, <1>3, <3>8
    <3>10. SelectorHears(s)
      <4>1. \A x \in Sel!Hero : ~Sel!Shows(q, 1, x) /\ s.shown[x] = v1[1].shown[x]
        BY <2>3, <3>2, <3>7
      <4>2. IF s.ended THEN v4'[1] = Sel!Not(v4[0]) /\ v5'[1] = v5[0] ELSE v4'[1] = Sel!None
        BY <3>1, <3>7, <3>9
      <4> QED BY <2>1, <2>2, <3>1, <3>5, <3>7, <3>8, <3>9, <4>1, <4>2 DEF SelectorHears
    <3>11. SelectorKept
      BY <2>6, <3>1, <3>9, <1>3 DEF SelectorKept
    <3> QED BY <3>10, <3>11, SelectorHeard
  <2> QED BY <2>4, <2>7, <2>8
<1> QED BY <1>3, <1>4, <1>5, <1>6, <1>7

\* What is left of the state after a step, with the one that stays being o.
SelectorAfter(o, d, h) ==
    /\ Sel!Client = {o, d} /\ o # d /\ Sel!Other(o) = d /\ h \in Sel!Hero
    /\ v1' \in [Sel!Client -> Sel!Selecting] /\ v2' \in [Sel!Client -> Sel!Client]
    /\ v4' \in [Sel!Client -> Sel!Hero \cup {Sel!None}] /\ v5' \in [Sel!Client -> [Sel!Hero -> Sel!Seat]]
    /\ v6' \in [Sel!Client -> Seq(Sel!Message)]
    /\ v2'[o] = 0 /\ v2'[d] = 1 /\ v6'[o] = << >> /\ v1'[o].ended /\ v4'[o] = h
    /\ v1'[o].state[h] = "master" /\ v1'[o].state[Sel!Not(h)] = "slave"
    /\ v4'[d] = IF v1'[d].ended THEN Sel!Not(h) ELSE Sel!None
    /\ \/ v3' = {d} /\ v6'[d] = << >>
       \/ v3' = {} /\ v5'[o] = Sel!Seats(h) /\ v6'[d] = << <<"authority", "crusher", Sel!Seats(h)>> >>
       \/ v3' = {} /\ v5'[o] = Sel!Seats(h) /\ v6'[d] = << >> /\ v1'[d].ended /\ v5'[d] = Sel!Seats(h)

LEMMA SelectorStays2 ==
    ASSUME NEW o, NEW d, NEW h, SelectorAfter(o, d, h)
    PROVE  Sel!Typed' /\ Sel!Staying(o)'
<1>1. Sel!Typed'
  BY DEF SelectorAfter, Sel!Typed, Sel!Client, Sel!Hero, Sel!Seat, Sel!Selecting, Sel!Owner, Sel!Message,
         Sel!Seats, Sel!None, Sel!NoSeat
<1>2. /\ v2'[o] = 0 /\ v2'[Sel!Other(o)] = 1 /\ v6'[o] = << >>
      /\ v1'[o].ended /\ v4'[o] \in Sel!Hero /\ v1'[o].state[v4'[o]] = "master"
      /\ v1'[o].state[Sel!Not(v4'[o])] = "slave"
      /\ v4'[Sel!Other(o)] = IF v1'[Sel!Other(o)].ended THEN Sel!Not(v4'[o]) ELSE Sel!None
  BY DEF SelectorAfter
<1>3. \/ v3' = {Sel!Other(o)} /\ v6'[Sel!Other(o)] = << >>
      \/ v3' = {} /\ v5'[o] = Sel!Seats(v4'[o])
         /\ v6'[Sel!Other(o)] = << <<"authority", "crusher", Sel!Seats(v4'[o])>> >>
      \/ v3' = {} /\ v5'[o] = Sel!Seats(v4'[o]) /\ v6'[Sel!Other(o)] = << >> /\ v1'[Sel!Other(o)].ended
         /\ v5'[Sel!Other(o)] = Sel!Seats(v4'[o])
  BY DEF SelectorAfter
<1>4. Sel!Staying(o)'
  BY <1>2, <1>3 DEF Sel!Staying, Sel!Other, Sel!Not, Sel!Seats, Sel!Hero, Sel!None
<1> QED BY <1>1, <1>4

\* A connection is lost.
LEMMA SelectorLoses ==
    ASSUME Sel!Typed, ~v9', NEW d \in Sel!Client, Sel!Lose(d),
           \A o \in Sel!Client : (\A x \in Sel!Client : v1[x].ended) =>
               v4[o] \in Sel!Hero /\ v4[Sel!Other(o)] = Sel!Not(v4[o])
    PROVE  SelectorKept /\ Sel!Typed' /\ \E o \in Sel!Client : Sel!Staying(o)'
<1> DEFINE o == Sel!Other(d)
<1>1. /\ o \in Sel!Client /\ Sel!Client = {o, d} /\ o # d /\ Sel!Other(o) = d /\ 0 \in Sel!Client /\ 1 \in Sel!Client
  BY SelectorHeroes
<1> HIDE DEF o
<1>2. /\ v1 \in [Sel!Client -> Sel!Selecting] /\ v2 \in [Sel!Client -> Sel!Client]
      /\ v4 \in [Sel!Client -> Sel!Hero \cup {Sel!None}] /\ v5 \in [Sel!Client -> [Sel!Hero -> Sel!Seat]]
  BY DEF Sel!Typed
<1>3. \A x \in Sel!Client : v1[x].ended
  BY DEF Sel!Lose
<1>4. PICK h, s : h = v4[o] /\ s = v1[o]
  OBVIOUS
<1>5. h \in Sel!Hero /\ v4[d] = Sel!Not(h) /\ s.ended /\ s \in Sel!Selecting
  BY <1>1, <1>2, <1>3, <1>4
<1>6. PICK t : t = Sel!Disconnected(s, h)
  OBVIOUS
<1>7. t \in Sel!Selecting /\ t.ended /\ t.state[h] = "master" /\ t.state[Sel!Not(h)] = "slave"
  <2>1. PICK f : f = [g \in Sel!Hero |-> IF (h = "crusher") = (g = "crusher") THEN "master" ELSE "slave"]
    OBVIOUS
  <2>2. t = [s EXCEPT !.state = f]
    BY <1>5, <1>6, <2>1 DEF Sel!Disconnected
  <2>3. f \in [Sel!Hero -> Sel!Owner]
    BY <2>1, SelectorHeroes
  <2>4. f[h] = "master" /\ f[Sel!Not(h)] = "slave"
    BY <1>5, <2>1, SelectorHeroes
  <2> QED BY <1>5, <2>2, <2>3, <2>4 DEF Sel!Selecting
<1>8. /\ v3' = {d} /\ v2' = [v2 EXCEPT ![o] = 0, ![d] = 1] /\ v6' = [x \in Sel!Client |-> << >>]
  BY DEF Sel!Lose, o
<1>9. PICK crash \in BOOLEAN :
         /\ v1' = [v1 EXCEPT ![o] = t, ![d] = IF crash THEN Sel!New ELSE v1[d]]
         /\ v4' = IF crash THEN [v4 EXCEPT ![d] = Sel!None] ELSE v4
         /\ v5' = IF crash THEN [v5 EXCEPT ![d] = Sel!New.shown] ELSE v5
  <2>1. PICK crash \in BOOLEAN :
           /\ v1' = [v1 EXCEPT ![o] = Sel!Disconnected(v1[o], v4[o]), ![d] = IF crash THEN Sel!New ELSE v1[d]]
           /\ v4' = IF crash THEN [v4 EXCEPT ![d] = Sel!None] ELSE v4
           /\ v5' = IF crash THEN [v5 EXCEPT ![d] = Sel!New.shown] ELSE v5
    BY DEF Sel!Lose, o
  <2> QED BY <1>4, <1>6, <2>1
<1>10. Sel!New \in Sel!Selecting /\ ~Sel!New.ended /\ Sel!New.shown \in [Sel!Hero -> Sel!Seat]
  BY SelectorHeroes DEF Sel!New, Sel!Selecting
<1>11. /\ v1' \in [Sel!Client -> Sel!Selecting] /\ v1'[o] = t /\ v1'[d] = IF crash THEN Sel!New ELSE v1[d]
  BY <1>1, <1>2, <1>7, <1>9, <1>10
<1>12. /\ v4' \in [Sel!Client -> Sel!Hero \cup {Sel!None}] /\ v4'[o] = h
       /\ v4'[d] = IF crash THEN Sel!None ELSE Sel!Not(h)
  BY <1>1, <1>2, <1>4, <1>5, <1>9
<1>13. v5' \in [Sel!Client -> [Sel!Hero -> Sel!Seat]]
  BY <1>2, <1>9, <1>10
<1>14. /\ v2' \in [Sel!Client -> Sel!Client] /\ v2'[o] = 0 /\ v2'[d] = 1
  BY <1>1, <1>2, <1>8
<1>15. v6' \in [Sel!Client -> Seq(Sel!Message)] /\ v6'[o] = << >> /\ v6'[d] = << >>
  BY <1>1, <1>8
<1>16. v4'[d] = IF v1'[d].ended THEN Sel!Not(h) ELSE Sel!None
  BY <1>3, <1>10, <1>11, <1>12
<1>17. SelectorAfter(o, d, h)
  BY <1>1, <1>5, <1>7, <1>8, <1>11, <1>12, <1>13, <1>14, <1>15, <1>16 DEF SelectorAfter
<1>18. SelectorKept
  BY <1>1, <1>4, <1>5, <1>8, <1>12 DEF SelectorKept
<1> QED BY <1>1, <1>17, <1>18, SelectorStays2

\* After a loss.
LEMMA SelectorStaying ==
    ASSUME Sel!Typed, NEW o \in Sel!Client, Sel!Staying(o), NEW c \in Sel!Client, NEW g \in Sel!Hero,
           Sel!Select(c, g) \/ Sel!Return(c) \/ Sel!Recv(c)
    PROVE  SelectorKept /\ Sel!Typed' /\ Sel!Staying(o)' /\ v9' = v9
<1> DEFINE d == Sel!Other(o)
<1>1. /\ d \in Sel!Client /\ Sel!Client = {o, d} /\ o # d /\ Sel!Other(o) = d /\ Sel!Other(d) = o
  BY SelectorHeroes
<1> HIDE DEF d
<1>2. /\ v1 \in [Sel!Client -> Sel!Selecting] /\ v2 \in [Sel!Client -> Sel!Client]
      /\ v4 \in [Sel!Client -> Sel!Hero \cup {Sel!None}] /\ v5 \in [Sel!Client -> [Sel!Hero -> Sel!Seat]]
      /\ v6 \in [Sel!Client -> Seq(Sel!Message)]
  BY DEF Sel!Typed
<1>3. PICK h \in Sel!Hero : h = v4[o]
  BY DEF Sel!Staying
<1>4. /\ v2[o] = 0 /\ v2[d] = 1 /\ v6[o] = << >> /\ v1[o].ended
      /\ v1[o].state[h] = "master" /\ v1[o].state[Sel!Not(h)] = "slave"
      /\ v4[d] = IF v1[d].ended THEN Sel!Not(h) ELSE Sel!None
  BY <1>1, <1>3 DEF Sel!Staying
<1>5. \/ v3 = {d} /\ v6[d] = << >>
      \/ v3 = {} /\ v5[o] = Sel!Seats(h) /\ v6[d] = << <<"authority", "crusher", Sel!Seats(h)>> >>
      \/ v3 = {} /\ v5[o] = Sel!Seats(h) /\ v6[d] = << >> /\ v1[d].ended /\ v5[d] = Sel!Seats(h)
  BY <1>1, <1>3 DEF Sel!Staying
<1>6. PICK m \in Sel!Message : m = <<"authority", "crusher", Sel!Seats(h)>>
  BY SelectorCalls
<1>7. <<m>> \in Seq(Sel!Message) /\ <<m>> # << >> /\ Head(<<m>>) = m /\ Tail(<<m>>) = << >>
  OBVIOUS
<1>8. /\ Sel!Seats(h) \in [Sel!Hero -> Sel!Seat] /\ Sel!Not(h) \in Sel!Hero
      /\ (CHOOSE x \in Sel!Hero : Sel!Seats(h)[x] = 0) = h
      /\ (CHOOSE x \in Sel!Hero : Sel!Seats(h)[x] = 1) = Sel!Not(h)
  BY SelectorSeats, SelectorHeroes
<1>9. ~Sel!Select(c, g)
  <2> SUFFICES ASSUME Sel!Select(c, g)
               PROVE  FALSE
    OBVIOUS
  <2>1. v6[c] = << >> /\ ~v1[c].ended /\ v3 = {}
    BY DEF Sel!Select
  <2>2. c = d
    BY <1>1, <1>4, <2>1
  <2> QED BY <1>5, <1>6, <1>7, <2>1, <2>2
<1>10. CASE Sel!Return(c)
  <2>1. c = d /\ v3 = {d}
    BY <1>5, <1>10 DEF Sel!Return
  <2>2. PICK seats : seats = [x \in Sel!Hero |-> IF v1[o].state["crusher"] = "master" THEN IF x = "crusher" THEN 0 ELSE 1
                                               ELSE IF x = "crusher" THEN 1 ELSE 0]
    OBVIOUS
  <2>3. seats = Sel!Seats(h)
    BY <1>4, <2>2, SelectorHeroes DEF Sel!Seats
  <2>4. /\ Sel!Possess(o, seats) /\ v6' = [v6 EXCEPT ![d] = << <<"authority", "crusher", seats>> >>]
        /\ v3' = {} /\ v2' = v2 /\ v1' = v1 /\ v9' = v9
    BY <1>1, <1>4, <1>10, <2>1, <2>2 DEF Sel!Return
  <2>5. v5' = [v5 EXCEPT ![o] = Sel!Seats(h)] /\ v4' = [v4 EXCEPT ![o] = h]
    BY <1>4, <2>4, <1>8, <2>3 DEF Sel!Possess
  <2>6. v4' = v4
    BY <1>2, <1>3, <2>5
  <2>7. v6' \in [Sel!Client -> Seq(Sel!Message)] /\ v6'[o] = << >> /\ v6'[d] = << <<"authority", "crusher", Sel!Seats(h)>> >>
    BY <1>1, <1>2, <1>4, <1>6, <1>7, <2>3, <2>4
  <2>8. v5' \in [Sel!Client -> [Sel!Hero -> Sel!Seat]] /\ v5'[o] = Sel!Seats(h)
    BY <1>2, <1>8, <2>5
  <2>9. SelectorAfter(o, d, h)
    BY <1>1, <1>2, <1>3, <1>4, <2>4, <2>6, <2>7, <2>8 DEF SelectorAfter
  <2> QED BY <2>4, <2>6, <2>9, SelectorStays2 DEF SelectorKept
<1>11. CASE Sel!Recv(c)
  <2>1. c = d /\ v3 = {} /\ v5[o] = Sel!Seats(h) /\ v6[d] = <<m>>
    BY <1>11, <1>1, <1>4, <1>5, <1>6 DEF Sel!Recv
  <2>2. m[1] = "authority" /\ m[3] = Sel!Seats(h)
    BY <1>6
  <2>3. /\ Sel!Possess(d, Sel!Seats(h)) /\ v1' = [v1 EXCEPT ![d] = [v1[d] EXCEPT !.ended = TRUE]]
        /\ v6' = [v6 EXCEPT ![d] = << >>] /\ v9' = v9 /\ v2' = v2 /\ v3' = v3
    BY <1>7, <1>11, <2>1, <2>2 DEF Sel!Recv
  <2>4. v5' = [v5 EXCEPT ![d] = Sel!Seats(h)] /\ v4' = [v4 EXCEPT ![d] = Sel!Not(h)]
    BY <1>4, <1>8, <2>3 DEF Sel!Possess
  <2>5. PICK s : s = SelectorEnds(v1[d])
    OBVIOUS
  <2>6. s \in Sel!Selecting /\ s.ended
    <3>1. v1[d] \in Sel!Selecting
      BY <1>1, <1>2
    <3>2. SelectorEnds(v1[d]) \in Sel!Selecting /\ SelectorEnds(v1[d]).ended
      BY <3>1 DEF Sel!Selecting, SelectorEnds
    <3> QED BY <2>5, <3>2
  <2>7. v1' = [v1 EXCEPT ![d] = s]
    BY <2>3, <2>5 DEF SelectorEnds
  <2>8. v1' \in [Sel!Client -> Sel!Selecting] /\ v1'[d] = s /\ v1'[o] = v1[o]
    BY <1>1, <1>2, <2>6, <2>7
  <2>9. /\ v4' \in [Sel!Client -> Sel!Hero \cup {Sel!None}] /\ v4'[o] = h /\ v4'[d] = Sel!Not(h)
        /\ v5' \in [Sel!Client -> [Sel!Hero -> Sel!Seat]] /\ v5'[o] = Sel!Seats(h) /\ v5'[d] = Sel!Seats(h)
    BY <1>1, <1>2, <1>3, <1>8, <2>1, <2>4
  <2>10. v6' \in [Sel!Client -> Seq(Sel!Message)] /\ v6'[o] = << >> /\ v6'[d] = << >>
    BY <1>1, <1>2, <1>4, <2>3
  <2>11. SelectorAfter(o, d, h)
    BY <1>1, <1>2, <1>3, <1>4, <2>1, <2>3, <2>6, <2>8, <2>9, <2>10 DEF SelectorAfter
  <2>12. SelectorKept
    BY <1>1, <1>3, <1>4, <2>9 DEF SelectorKept
  <2> QED BY <2>3, <2>11, <2>12, SelectorStays2
<1> QED BY <1>9, <1>10, <1>11

\* A player that has a hero keeps it even by the choice that ends a game too early.
LEMMA SelectorMuddles ==
    ASSUME Sel!Typed, Sel!Choosing, ~v9, v9', NEW n \in {0, 1}, n = 0 => ~v1[0].ended, NEW h \in Sel!Hero, NEW ch,
           Sel!MasterSelect(0, n, h, ch)
    PROVE  SelectorKept
<1>1. v1[0].state[h] = Sel!None /\ v1[0].state[Sel!Not(h)] = Sel!Owning(n)
  BY DEF Sel!MasterSelect
<1>2. v4 \in [Sel!Client -> Sel!Hero \cup {Sel!None}] /\ Sel!Client = {0, 1} /\ Sel!Owning(n) # Sel!None
  BY SelectorHeroes DEF Sel!Typed
<1>3. v4'[1] = v4[1]
  BY <1>1, <1>2 DEF Sel!MasterSelect, Sel!EndSelect
<1>4. /\ ~v1[0].ended => v4[0] = Sel!None
      /\ v1[0].ended => v4[0] \in Sel!Hero /\ v1[0].state[v4[0]] = "master"
  BY DEF Sel!Choosing, Sel!Decided
<1>5. ~v1[0].ended
  <2> SUFFICES ASSUME v1[0].ended
               PROVE  FALSE
    OBVIOUS
  <2>1. n = 1 /\ Sel!Owning(n) = "slave"
    BY SelectorHeroes
  <2>2. v4[0] = h \/ v4[0] = Sel!Not(h)
    BY <1>4, SelectorHeroes
  <2> QED BY <1>1, <1>4, <2>1, <2>2, SelectorHeroes
<1> QED BY <1>2, <1>3, <1>4, <1>5 DEF SelectorKept

\* Whoever was muddled stays so.
LEMMA SelectorMuddled ==
    ASSUME Sel!Next, v9
    PROVE  v9'
<1>1. ASSUME NEW m, NEW n, NEW h, NEW ch, Sel!MasterSelect(m, n, h, ch)
      PROVE  v9'
  BY <1>1 DEF Sel!MasterSelect
<1>2. ASSUME NEW c \in Sel!Client, NEW h \in Sel!Hero, Sel!Select(c, h)
      PROVE  v9'
  BY <1>1, <1>2 DEF Sel!Select
<1>3. ASSUME NEW c \in Sel!Client, Sel!Lose(c)
      PROVE  v9'
  BY <1>3 DEF Sel!Lose
<1>4. ASSUME NEW c \in Sel!Client, Sel!Return(c)
      PROVE  v9'
  BY <1>4 DEF Sel!Return
<1>5. ASSUME NEW c \in Sel!Client, Sel!Recv(c)
      PROVE  v9'
  <2>1. PICK m, rest : m = Head(v6[c]) /\ rest = [v6 EXCEPT ![c] = Tail(v6[c])]
    OBVIOUS
  <2>2. CASE m[1] = "select"
    BY <1>5, <2>1, <2>2, <1>1 DEF Sel!Recv
  <2>3. CASE m[1] # "select"
    BY <1>5, <2>1, <2>3 DEF Sel!Recv
  <2> QED BY <2>2, <2>3
<1> QED BY <1>2, <1>3, <1>4, <1>5 DEF Sel!Next

\* By a loss only the one that is lost can lose its hero.
LEMMA SelectorLeaves ==
    ASSUME v4 \in [Sel!Client -> Sel!Hero \cup {Sel!None}], NEW d \in Sel!Client, Sel!Lose(d)
    PROVE  SelectorKept
  BY DEF Sel!Lose, SelectorKept

\* A step while the heroes are chosen.
LEMMA SelectorFirst ==
    ASSUME Sel!Typed, Sel!Choosing, ~v9, Sel!Next
    PROVE  SelectorKept /\ (~v9' => Sel!Typed' /\ (Sel!Choosing' \/ \E m \in Sel!Client : Sel!Staying(m)'))
<1>1. /\ v1 \in [Sel!Client -> Sel!Selecting] /\ v4 \in [Sel!Client -> Sel!Hero \cup {Sel!None}]
      /\ v6 \in [Sel!Client -> Seq(Sel!Message)] /\ Sel!Client = {0, 1} /\ Sel!Other(0) = 1 /\ Sel!Other(1) = 0
  BY SelectorHeroes DEF Sel!Typed
<1>2. /\ v3 = {} /\ v2[0] = 0 /\ v2[1] = 1 /\ Sel!Decided /\ Sel!Followed
      /\ \A i \in DOMAIN v6[0] : v6[0][i][1] = "select"
      /\ \A i \in DOMAIN v6[1] : v6[1][i][1] \in {"show", "end"}
  BY SelectorHeroes DEF Sel!Choosing
<1>3. ASSUME NEW c \in Sel!Client, NEW h \in Sel!Hero, Sel!Select(c, h) \/ Sel!Recv(c), ~v9'
      PROVE  SelectorKept /\ Sel!Typed' /\ Sel!Choosing'
  BY <1>3, SelectorChoosing
<1>4. ASSUME NEW c \in Sel!Client, NEW h \in Sel!Hero, Sel!Select(c, h), v9'
      PROVE  SelectorKept
  <2>1. c = 0 /\ Sel!MasterSelect(0, 0, h, v6) /\ ~v1[0].ended
    BY <1>2, <1>4, <1>1 DEF Sel!Select
  <2>2. 0 \in {0, 1} /\ (0 = 0 => ~v1[0].ended)
    BY <2>1
  <2> QED BY <1>4, <2>1, <2>2, SelectorMuddles
<1>5. ASSUME NEW c \in Sel!Client, Sel!Recv(c), v9'
      PROVE  SelectorKept
  <2>1. PICK m : m = Head(v6[c])
    OBVIOUS
  <2>2. v6[c] \in Seq(Sel!Message) /\ v6[c] # << >> /\ m \in Sel!Message /\ m = v6[c][1] /\ 1 \in DOMAIN v6[c]
    BY <1>1, <1>5, <2>1 DEF Sel!Recv
  <2>3. PICK rest : rest = [v6 EXCEPT ![c] = Tail(v6[c])]
    OBVIOUS
  <2>4. CASE m[1] = "select"
    <3>1. Sel!MasterSelect(c, m[3], m[2], rest)
      BY <1>5, <2>1, <2>3, <2>4 DEF Sel!Recv
    <3>2. c = 0
      BY <1>1, <1>2, <2>2, <2>4
    <3>3. m[3] = 1 /\ m[2] \in Sel!Hero
      BY <2>2, <2>4, SelectorCalls
    <3>4. PICK h \in Sel!Hero : h = m[2]
      BY <3>3
    <3>5. Sel!MasterSelect(0, 1, h, rest)
      BY <3>1, <3>2, <3>3, <3>4
    <3>6. 1 \in {0, 1} /\ (1 = 0 => ~v1[0].ended)
      OBVIOUS
    <3> QED BY <1>5, <3>5, <3>6, SelectorMuddles
  <2>5. CASE m[1] # "select"
    BY <2>2, <2>5, SelectorCalls, <1>5, <2>1 DEF Sel!Recv
  <2> QED BY <2>4, <2>5
<1>6. \A o \in Sel!Client : (\A x \in Sel!Client : v1[x].ended) =>
          v4[o] \in Sel!Hero /\ v4[Sel!Other(o)] = Sel!Not(v4[o])
  <2> SUFFICES ASSUME \A x \in Sel!Client : v1[x].ended
               PROVE  \A o \in Sel!Client : v4[o] \in Sel!Hero /\ v4[Sel!Other(o)] = Sel!Not(v4[o])
    OBVIOUS
  <2>1. v1[0].ended /\ v1[1].ended
    BY <1>1
  <2>2. v4[0] \in Sel!Hero
    BY <1>2, <2>1 DEF Sel!Decided
  <2>3. v4[1] = Sel!Not(v4[0])
    BY <1>2, <2>1 DEF Sel!Followed
  <2>4. v4[1] \in Sel!Hero /\ v4[0] = Sel!Not(v4[1])
    BY <2>2, <2>3, SelectorHeroes
  <2> QED BY <1>1, <2>2, <2>3, <2>4
<1>7. ASSUME NEW d \in Sel!Client, Sel!Lose(d), ~v9'
      PROVE  SelectorKept /\ Sel!Typed' /\ \E m \in Sel!Client : Sel!Staying(m)'
  BY <1>6, <1>7, SelectorLoses
<1>8. ASSUME NEW d \in Sel!Client, Sel!Lose(d)
      PROVE  SelectorKept
  BY <1>1, <1>8, SelectorLeaves
<1>9. ASSUME NEW c \in Sel!Client, Sel!Return(c)
      PROVE  FALSE
  BY <1>2, <1>9 DEF Sel!Return
<1> QED BY <1>3, <1>4, <1>5, <1>7, <1>8, <1>9, SelectorHeroes DEF Sel!Next

\* A step after a loss.
LEMMA SelectorLater ==
    ASSUME Sel!Typed, NEW o \in Sel!Client, Sel!Staying(o), ~v9, Sel!Next
    PROVE  SelectorKept /\ (~v9' => Sel!Typed' /\ \E m \in Sel!Client : Sel!Staying(m)')
<1>1. ASSUME NEW c \in Sel!Client, NEW g \in Sel!Hero, Sel!Select(c, g) \/ Sel!Return(c) \/ Sel!Recv(c)
      PROVE  SelectorKept /\ Sel!Typed' /\ Sel!Staying(o)'
  BY <1>1, SelectorStaying
<1>2. v4 \in [Sel!Client -> Sel!Hero \cup {Sel!None}]
  BY DEF Sel!Typed
<1>3. \A x \in Sel!Client : (\A y \in Sel!Client : v1[y].ended) =>
          v4[x] \in Sel!Hero /\ v4[Sel!Other(x)] = Sel!Not(v4[x])
  <2> SUFFICES ASSUME \A y \in Sel!Client : v1[y].ended
               PROVE  \A x \in Sel!Client : v4[x] \in Sel!Hero /\ v4[Sel!Other(x)] = Sel!Not(v4[x])
    OBVIOUS
  <2>1. /\ Sel!Other(o) \in Sel!Client /\ Sel!Client = {o, Sel!Other(o)} /\ Sel!Other(Sel!Other(o)) = o
    BY SelectorHeroes
  <2>2. v4[o] \in Sel!Hero /\ v4[Sel!Other(o)] = Sel!Not(v4[o])
    BY <2>1 DEF Sel!Staying
  <2>3. Sel!Not(v4[o]) \in Sel!Hero /\ Sel!Not(Sel!Not(v4[o])) = v4[o]
    BY <2>2, SelectorHeroes
  <2> QED BY <2>1, <2>2, <2>3
<1>4. ASSUME NEW d \in Sel!Client, Sel!Lose(d)
      PROVE  SelectorKept
  BY <1>2, <1>4, SelectorLeaves
<1>5. ASSUME NEW d \in Sel!Client, Sel!Lose(d), ~v9'
      PROVE  SelectorKept /\ Sel!Typed' /\ \E m \in Sel!Client : Sel!Staying(m)'
  BY <1>3, <1>5, SelectorLoses
<1>6. \E g : g \in Sel!Hero
  BY SelectorHeroes
<1> QED BY <1>1, <1>4, <1>5, <1>6 DEF Sel!Next

\* The part of the invariant that says which step of a game a state belongs to.
SelectorWhere == Sel!Choosing \/ \E m \in Sel!Client : Sel!Staying(m)

LEMMA SelectorMoves ==
    ASSUME Sel!SelectorInv, ~v9, Sel!Next
    PROVE  SelectorKept /\ (~v9' => Sel!Typed' /\ SelectorWhere')
  BY SelectorFirst, SelectorHeroes, SelectorLater DEF Sel!SelectorInv, SelectorWhere

LEMMA SelectorStep == SelectorInv /\ [Next]_vars => SelectorInv'
<1> SUFFICES ASSUME SelectorInv, [Next]_vars, part' = "selector", ~v9'
             PROVE  Sel!Typed' /\ SelectorWhere'
  BY SelectorHeroes DEF SelectorInv, Sel!SelectorInv, SelectorWhere
<1>1. Sel!SelectorInv /\ (Sel!Next \/ UNCHANGED vars)
  BY DEF Next, vars, SelectorInv
<1>2. CASE Sel!Next
  BY <1>2, SelectorMuddled, <1>1, SelectorMoves
<1>3. CASE UNCHANGED vars
  <2>1. /\ v1' = v1 /\ v2' = v2 /\ v3' = v3 /\ v4' = v4 /\ v5' = v5 /\ v6' = v6 /\ v9' = v9
    BY <1>3 DEF vars
  <2>2. Sel!Typed /\ (Sel!Choosing \/ \E m \in Sel!Client : Sel!Staying(m))
    BY <1>1, <2>1 DEF Sel!SelectorInv
  <2>3. CASE Sel!Choosing
    BY <2>1, <2>2, <2>3, SelectorQuiet DEF Sel!Typed, Sel!Choosing, SelectorWhere
  <2>4. CASE \E m \in Sel!Client : Sel!Staying(m)
    <3>1. PICK o \in Sel!Client : Sel!Staying(o)
      BY <2>4
    <3>2. PICK d, h : d = Sel!Other(o) /\ h = v4[o]
      OBVIOUS
    <3>3. /\ d \in Sel!Client /\ Sel!Client = {o, d} /\ o # d
      BY <3>2, SelectorHeroes
    <3>4. SelectorAfter(o, d, h)
      BY <3>1, <3>2, <2>2, <2>1, <3>3 DEF Sel!Staying, Sel!Typed, SelectorAfter
    <3>5. Sel!Typed' /\ Sel!Staying(o)'
      BY <3>4, SelectorStays2
    <3> QED BY <3>5, SelectorHeroes DEF SelectorWhere
  <2> QED BY <2>2, <2>3, <2>4
<1> QED BY <1>1, <1>2, <1>3

LEMMA SelectorInit == Sel!Init => Sel!Typed /\ Sel!Choosing
<1> SUFFICES ASSUME Sel!Init
             PROVE  Sel!Typed /\ Sel!Choosing
  OBVIOUS
<1>1. /\ v1 = [c \in {0, 1} |-> Sel!New] /\ v2 = [c \in {0, 1} |-> c] /\ v3 = {}
      /\ v4 = [c \in {0, 1} |-> "none"] /\ v5 = [c \in {0, 1} |-> Sel!New.shown]
      /\ v6 = [c \in {0, 1} |-> << >>]
  BY SelectorHeroes DEF Sel!Init
<1>2. /\ Sel!New \in Sel!Selecting /\ ~Sel!New.ended /\ Sel!New.shown \in [Sel!Hero -> Sel!Seat]
      /\ \A h \in Sel!Hero : Sel!New.state[h] = "none" /\ Sel!New.shown[h] = 2
  BY SelectorHeroes DEF Sel!New, Sel!Selecting
<1>3. << >> \in Seq(Sel!Message) /\ DOMAIN << >> = {} /\ Len(<< >>) = 0
  OBVIOUS
<1>4. Sel!Typed
  BY <1>1, <1>2, <1>3, SelectorHeroes DEF Sel!Typed
<1>5. Sel!Decided
  BY <1>1, <1>2, <1>3, SelectorHeroes DEF Sel!Decided
<1>6. Sel!Followed
  BY <1>1, SelectorHeroes, <1>3, <1>2 DEF Sel!WillShow, Sel!Followed
<1>7. Sel!Choosing
  BY <1>1, <1>3, <1>5, <1>6, SelectorHeroes DEF Sel!Choosing
<1> QED BY <1>4, <1>7

\* Each player keeps the hero he chose, and never do both clients play the same one: the master, while it
\* decides, never has both chosen from one seat, the other client will be shown the same choice before the
\* call that ends it, and after a loss the hero of the one that stays decides what the other one is told.
THEOREM HeroesKeptHolds == Spec => HeroesKept
<1>1. Init => SelectorInv
  BY SelectorInit DEF Init, SelectorInv, Sel!SelectorInv
<1>2. SelectorInv => (part = "selector" => Sel!EachPlaysOne)
  <2> SUFFICES ASSUME Sel!SelectorInv, ~v9, v3 = {}, \A c \in Sel!Client : v1[c].ended /\ v6[c] = << >>
               PROVE  \A c \in Sel!Client : v4[c] # Sel!None /\ v4[c] # v4[Sel!Other(c)] /\ v5[c][v4[c]] = v2[c]
                                            /\ v5[Sel!Other(c)] = v5[c]
    BY DEF SelectorInv, Sel!EachPlaysOne
  <2>1. Sel!Choosing \/ \E m \in Sel!Client : Sel!Staying(m)
    BY DEF Sel!SelectorInv
  <2>2. Sel!Client = {0, 1} /\ Sel!Other(0) = 1 /\ Sel!Other(1) = 0
    BY SelectorHeroes
  <2>3. ASSUME NEW o \in Sel!Client, NEW d \in Sel!Client, d = Sel!Other(o), NEW h \in Sel!Hero, v4[o] = h,
               v4[d] = Sel!Not(h), v5[o] = Sel!Seats(h), v5[d] = Sel!Seats(h), v2[o] = 0, v2[d] = 1
        PROVE  \A c \in Sel!Client : v4[c] # Sel!None /\ v4[c] # v4[Sel!Other(c)] /\ v5[c][v4[c]] = v2[c]
                                     /\ v5[Sel!Other(c)] = v5[c]
    BY <2>2, <2>3, SelectorSeats, SelectorHeroes
  <2>4. CASE Sel!Choosing
    <3>1. /\ v2[0] = 0 /\ v2[1] = 1 /\ v1[0].ended /\ v1[1].ended
      BY <2>2, <2>4 DEF Sel!Choosing
    <3>2. v4[0] \in Sel!Hero /\ v5[0] = Sel!Seats(v4[0])
      BY <2>4, <3>1 DEF Sel!Choosing, Sel!Decided
    <3>3. v4[1] = Sel!Not(v4[0]) /\ v5[1] = v5[0]
      BY <2>4, <3>1 DEF Sel!Choosing, Sel!Followed
    <3>4. PICK h \in Sel!Hero : v4[0] = h
      BY <3>2
    <3>5. v5[0] = Sel!Seats(h) /\ v5[1] = Sel!Seats(h) /\ v4[1] = Sel!Not(h) /\ 1 = Sel!Other(0)
          /\ 0 \in Sel!Client /\ 1 \in Sel!Client
      BY <2>2, <3>2, <3>3, <3>4
    <3> QED BY <2>3, <3>1, <3>4, <3>5
  <2>5. ASSUME NEW o \in Sel!Client, Sel!Staying(o)
        PROVE  \A c \in Sel!Client : v4[c] # Sel!None /\ v4[c] # v4[Sel!Other(c)] /\ v5[c][v4[c]] = v2[c]
                                     /\ v5[Sel!Other(c)] = v5[c]
    <3>1. PICK d \in Sel!Client : d = Sel!Other(o)
      BY <2>2
    <3>2. PICK h \in Sel!Hero : v4[o] = h
      BY <2>5 DEF Sel!Staying
    <3>3. v6[d] = << >> /\ v1[d].ended /\ v3 = {}
      OBVIOUS
    <3>4. v2[o] = 0 /\ v2[d] = 1 /\ v4[d] = Sel!Not(h)
      BY <2>5, <3>1, <3>2, <3>3 DEF Sel!Staying
    <3>5. << <<"authority", "crusher", Sel!Seats(h)>> >> # << >> /\ {d} # {}
      OBVIOUS
    <3>6. v5[o] = Sel!Seats(h) /\ v5[d] = Sel!Seats(h)
      BY <2>5, <3>1, <3>2, <3>3, <3>5 DEF Sel!Staying
    <3> QED BY <2>3, <3>1, <3>2, <3>4, <3>6
  <2> QED BY <2>1, <2>4, <2>5
<1>3. SelectorInv /\ [Next]_vars => [part = "selector" => Sel!HeroKept]_vars
  <2> SUFFICES ASSUME SelectorInv, Next, part = "selector"
               PROVE  Sel!HeroKept
    OBVIOUS
  <2>1. Sel!SelectorInv /\ Sel!Next
    BY DEF Next, SelectorInv
  <2>2. CASE ~v9
    BY <2>1, <2>2, SelectorMoves DEF SelectorKept, Sel!HeroKept
  <2>3. CASE v9
    BY <2>3 DEF Sel!HeroKept
  <2> QED BY <2>2, <2>3
<1>4. Spec => []SelectorInv
  BY <1>1, SelectorStep, PTL DEF Spec
<1>5. Spec => [](part = "selector" => Sel!EachPlaysOne)
  BY <1>2, <1>4, PTL
<1>6. Spec => [][part = "selector" => Sel!HeroKept]_vars
  BY <1>3, <1>4, PTL DEF Spec
<1> QED
  BY <1>5, <1>6 DEF HeroesKept

-----------------------------------------------------------------------------
(***************************************************************************)
(* What the attacks hit.  Of the variables of the Crusher v1 is anim, v2   *)
(* surge, v4 damage, v5 chan, v8 met, v9 dealt and v10 wasted, of those of *)
(* the Esper v1 is esper, v2 stack, v3 behind, v4 chan, v7 hits, v8 cut    *)
(* and v9 late.                                                            *)
(***************************************************************************)
HitsInv == (part = "swings" => Swing!SwingInv) /\ (part = "stacks" => Stack!StackInv)

\* One more call tells of more damage, ...
LEMMA HitsMore ==
    ASSUME NEW S, NEW q \in Seq(S), NEW x \in S, NEW n \in Int, Stack!Owes(q, n), Stack!Worth(x) \in Int
    PROVE  Stack!Owes(Append(q, x), n + Stack!Worth(x))
<1> DEFINE k == Len(q)
           u == Append(q, x)
<1>1. /\ k \in Nat /\ Len(u) = k + 1 /\ u[k + 1] = x /\ \A i \in 1 .. k : u[i] = q[i]
  OBVIOUS
<1>2. PICK run \in [0 .. k -> Int] :
        run[0] = 0 /\ run[k] = n /\ \A i \in 1 .. k : run[i] = run[i - 1] + Stack!Worth(q[i])
  BY DEF Stack!Owes
<1>3. PICK more : more = [i \in 0 .. k + 1 |-> IF i = k + 1 THEN n + Stack!Worth(x) ELSE run[i]]
  OBVIOUS
<1> HIDE DEF k, u
<1>4. 0 \in 0 .. k /\ k \in 0 .. k /\ k + 1 \in 0 .. k + 1 /\ 0 # k + 1 /\ k # k + 1 /\ (k + 1) - 1 = k
      /\ \A i \in 0 .. k : i \in 0 .. k + 1 /\ i # k + 1
  BY <1>1
<1>5. more \in [0 .. k + 1 -> Int] /\ more[k + 1] = n + Stack!Worth(x) /\ \A i \in 0 .. k : more[i] = run[i]
  BY <1>1, <1>2, <1>3, <1>4
<1>6. ASSUME NEW i \in 1 .. k + 1
      PROVE  more[i] = more[i - 1] + Stack!Worth(u[i])
  <2>1. CASE i = k + 1
    BY <1>1, <1>2, <1>4, <1>5, <2>1
  <2>2. CASE i # k + 1
    BY <1>1, <2>2, <1>2, <1>5
  <2> QED BY <2>1, <2>2
<1>7. more[0] = 0
  BY <1>2, <1>4, <1>5
<1>8. Stack!Owes(u, n + Stack!Worth(x))
  BY <1>1, <1>5, <1>6, <1>7 DEF Stack!Owes
<1> QED BY <1>8 DEF u

\* ... and one that has arrived of that of the others.
LEMMA HitsLess ==
    ASSUME NEW S, NEW q \in Seq(S), q # << >>, NEW n \in Int, Stack!Owes(q, n),
           \A x \in S : Stack!Worth(x) \in Int
    PROVE  Stack!Owes(Tail(q), n - Stack!Worth(q[1]))
<1> DEFINE k == Len(q)
           u == Tail(q)
           w == Stack!Worth(q[1])
<1>1. /\ k \in Nat \ {0} /\ Len(u) = k - 1
      /\ \A i \in 1 .. k - 1 : u[i] = q[i + 1] /\ u[i] \in S
  BY QueueTails
<1>2. PICK run \in [0 .. k -> Int] :
        run[0] = 0 /\ run[k] = n /\ \A i \in 1 .. k : run[i] = run[i - 1] + Stack!Worth(q[i])
  BY DEF Stack!Owes
<1> HIDE DEF k, u
<1>3. PICK less : less = [i \in 0 .. k - 1 |-> run[i + 1] - w]
  OBVIOUS
<1>4. /\ \A i \in 0 .. k - 1 : i + 1 \in 0 .. k /\ i + 1 \in 1 .. k
      /\ \A i \in 1 .. k - 1 : i \in 0 .. k - 1 /\ i - 1 \in 0 .. k - 1 /\ (i - 1) + 1 = i /\ (i + 1) - 1 = i
      /\ 0 \in 0 .. k - 1 /\ k - 1 \in 0 .. k - 1 /\ (k - 1) + 1 = k /\ 1 \in 1 .. k /\ 1 \in 0 .. k
  BY <1>1
<1>5. w \in Int
  BY QueueTails
<1> HIDE DEF w
<1>6. less \in [0 .. k - 1 -> Int] /\ \A i \in 0 .. k - 1 : less[i] = run[i + 1] - w
  BY SMTT(60), <1>2, <1>3, <1>4, <1>5
<1>7. less[k - 1] = n - w
  BY <1>2, <1>4, <1>6
<1>8. run[1] = w
  BY <1>2, <1>4, <1>5 DEF w
<1>9. less[0] = 0
  BY <1>4, <1>6, <1>5, <1>8
<1>10. ASSUME NEW i \in 1 .. k - 1
       PROVE  less[i] = less[i - 1] + Stack!Worth(u[i])
  <2>1. less[i] = run[i + 1] - w /\ less[i - 1] = run[i] - w
    BY <1>4, <1>6
  <2>2. i + 1 \in 1 .. k /\ i \in 0 .. k /\ i + 1 \in 0 .. k /\ u[i] = q[i + 1]
    BY <1>1, <1>4
  <2>3. run[i + 1] = run[i] + Stack!Worth(u[i])
    BY <1>2, <1>4, <2>2
  <2>4. run[i] \in Int /\ run[i + 1] \in Int
    BY <1>2, <2>2
  <2>5. Stack!Worth(u[i]) \in Int
    BY <1>1, <1>4
  <2> QED BY <1>5, <2>1, <2>3, <2>4, <2>5
<1>11. Stack!Owes(u, n - w)
  BY <1>1, <1>6, <1>7, <1>9, <1>10 DEF Stack!Owes
<1> QED BY <1>11 DEF u, w

LEMMA HitsNone ==
    /\ Stack!Owes(<< >>, 0) /\ Swing!Owes(<< >>, 0)
    /\ \A n : Stack!Owes(<< >>, n) => n = 0
    /\ \A q, n : Swing!Owes(q, n) <=> Stack!Owes(q, n)
<1>1. Len(<< >>) = 0
  OBVIOUS
<1>2. Stack!Owes(<< >>, 0)
  <2>1. PICK run : run = [i \in 0 .. 0 |-> 0]
    OBVIOUS
  <2>2. run \in [0 .. 0 -> Int] /\ run[0] = 0 /\ \A i \in 1 .. 0 : FALSE
    BY <2>1
  <2>3. \E x \in [0 .. 0 -> Int] : x[0] = 0 /\ \A i \in 1 .. 0 : x[i] = x[i - 1] + Stack!Worth(<< >>[i])
    BY <2>2
  <2> QED BY <1>1, <2>3 DEF Stack!Owes
<1>3. \A n : Stack!Owes(<< >>, n) => n = 0
  BY <1>1 DEF Stack!Owes
<1>4. \A q, n : Swing!Owes(q, n) <=> Stack!Owes(q, n)
  BY DEF Swing!Owes, Stack!Owes, Swing!Worth, Stack!Worth
<1> QED BY <1>2, <1>3, <1>4

LEMMA SwingClients ==
    /\ Swing!Client = {0, 1} /\ Swing!Own = 0 /\ Swing!Notify = {"start", "check", "stop"}
    /\ Swing!Idle \in Swing!Swinging /\ Swing!Numbered(Swing!Idle) /\ Swing!Traces(Swing!Idle)
    /\ Swing!Idle.play = "no" /\ Swing!Idle.number = 0
    /\ \A x \in Swing!Message : Swing!Worth(x) \in Nat
    /\ \A d \in Nat : /\ <<"hurt", d>> \in Swing!Message /\ Swing!Worth(<<"hurt", d>>) = d
    /\ \A what \in {"attack", "surge", "rush", "punish", "stop"} :
           <<what, 0>> \in Swing!Message /\ Swing!Worth(<<what, 0>>) = 0
  BY DEF Swing!Client, Swing!Own, Swing!Notify, Swing!Idle, Swing!Swinging, Swing!Numbered, Swing!Traces,
    Swing!Message, Swing!Worth

\* What is told makes up what is not counted yet.
SwingCounts == Swing!Owes(v5, v4[0] - v4[1])

LEMMA SwingTells ==
    ASSUME Swing!Typed, SwingCounts, NEW what \in {"attack", "surge", "rush", "punish", "stop"},
           Swing!Call(what, 0), v4' = v4
    PROVE  v5' \in Seq(Swing!Message) /\ SwingCounts'
<1>1. PICK x : x = <<what, 0>>
  OBVIOUS
<1>2. x \in Swing!Message /\ Stack!Worth(x) = 0
  BY <1>1, SwingClients DEF Swing!Worth, Stack!Worth
<1>3. v5 \in Seq(Swing!Message) /\ v4[0] \in Nat /\ v4[1] \in Nat /\ v5' = Append(v5, x)
  BY <1>1, SwingClients DEF Swing!Typed, Swing!Call
<1>4. PICK q, u, n : q = v5 /\ u = v5' /\ n = v4[0] - v4[1] /\ n \in Int
  BY <1>3
<1>5. Stack!Owes(q, n)
  BY <1>4, HitsNone DEF SwingCounts
<1>6. Stack!Owes(Append(q, x), n + Stack!Worth(x))
  BY <1>2, <1>3, <1>4, <1>5, HitsMore
<1>7. Swing!Owes(u, n)
  BY <1>2, <1>3, <1>4, <1>6, HitsNone
<1>8. SwingCounts'
  BY <1>4, <1>7 DEF SwingCounts, Swing!Owes, Swing!Worth
<1> QED BY <1>2, <1>3, <1>8

LEMMA SwingHurts ==
    ASSUME Swing!Typed, SwingCounts, NEW c \in Swing!Client, NEW d \in Nat, Swing!Hurt(c, d)
    PROVE  /\ v4' \in [Swing!Client -> Nat] /\ v5' \in Seq(Swing!Message) /\ SwingCounts'
<1>0. v5 \in Seq(Swing!Message) /\ v4 \in [Swing!Client -> Nat] /\ v4[0] \in Nat /\ v4[1] \in Nat
  BY SwingClients DEF Swing!Typed
<1>1. CASE c = 0
  <2>1. PICK x : x = <<"hurt", d>>
    OBVIOUS
  <2>2. x \in Swing!Message /\ Stack!Worth(x) = d
    BY <2>1, SwingClients DEF Swing!Worth, Stack!Worth
  <2>3. v5' = Append(v5, x) /\ v4' = [v4 EXCEPT ![0] = v4[0] + d]
    BY <1>1, <2>1, SwingClients DEF Swing!Hurt, Swing!Call
  <2>4. v4' \in [Swing!Client -> Nat] /\ v4'[0] = v4[0] + d /\ v4'[1] = v4[1]
    BY <1>0, <2>3, SwingClients
  <2>5. PICK q, u, n : q = v5 /\ u = v5' /\ n = v4[0] - v4[1] /\ n \in Int
    BY <1>0
  <2>6. Stack!Owes(q, n)
    BY <2>5, HitsNone DEF SwingCounts
  <2>7. Stack!Owes(Append(q, x), n + Stack!Worth(x))
    BY <1>0, <2>2, <2>5, <2>6, HitsMore
  <2>8. n + d = v4'[0] - v4'[1]
    BY <1>0, <2>4, <2>5
  <2>9. Swing!Owes(u, n + d)
    BY <2>2, <2>3, <2>5, <2>7, HitsNone
  <2>10. SwingCounts'
    BY <2>5, <2>8, <2>9 DEF SwingCounts, Swing!Owes, Swing!Worth
  <2> QED BY <1>0, <2>2, <2>3, <2>4, <2>10
<1>2. CASE c # 0
  <2>1. v4' = v4 /\ v5' = v5
    BY <1>2, SwingClients DEF Swing!Hurt
  <2> QED BY <1>0, <2>1 DEF SwingCounts, Swing!Owes, Swing!Worth
<1> QED BY <1>1, <1>2

\* What the Crusher's own client knows of the swing goes with the part it plays.
SwingOwn(w) ==
    /\ Swing!Numbered(w) /\ Swing!Traces(w) /\ (w.play = "attack" => ~v2[0])
    /\ w.play = "attack" /\ w.section < 2 /\ w.tracing /\ (v8 \/ w.hitted) => v9 > 0

LEMMA SwingHas ==
    ASSUME Swing!SwingInv
    PROVE  /\ Swing!Typed /\ SwingCounts /\ SwingOwn(v1[0]) /\ ~v10
           /\ \A c \in Swing!Client : v1[c] \in Swing!Swinging
           /\ 0 \in Swing!Client /\ 1 \in Swing!Client /\ v8 \in BOOLEAN /\ v10 \in BOOLEAN
  BY SwingClients DEF Swing!SwingInv, SwingCounts, Swing!Deals, SwingOwn, Swing!Typed

LEMMA SwingIs ==
    ASSUME Swing!Typed', SwingCounts', ~v10',
           Swing!Numbered(v1'[0]), Swing!Traces(v1'[0]), v1'[0].play = "attack" => ~v2'[0],
           v1'[0].play = "attack" /\ v1'[0].section < 2 /\ v1'[0].tracing /\ (v8' \/ v1'[0].hitted) => v9' > 0
    PROVE  Swing!SwingInv'
  BY SwingClients DEF SwingCounts, Swing!Deals, Swing!Numbered, Swing!Traces, Swing!SwingInv

\* Nothing that the own client does not play touches it.
LEMMA SwingOther ==
    ASSUME Swing!SwingInv, Swing!Typed', SwingCounts', v1'[0] = v1[0], v2'[0] => v2[0], v8' => v8, v9' = v9, ~v10'
    PROVE  Swing!SwingInv'
<1>1. SwingOwn(v1[0])
  BY SwingHas
<1>2. PICK w : w = v1[0]
  OBVIOUS
<1>3. SwingOwn(w) /\ w = v1'[0]
  BY <1>1, <1>2
<1>4. /\ Swing!Numbered(w) /\ Swing!Traces(w) /\ (w.play = "attack" => ~v2'[0])
      /\ w.play = "attack" /\ w.section < 2 /\ w.tracing /\ (v8' \/ w.hitted) => v9' > 0
  BY <1>3 DEF SwingOwn
<1> QED BY <1>3, <1>4, SwingIs

LEMMA SwingPlays ==
    ASSUME Swing!Typed, NEW c \in Swing!Client, NEW w \in Swing!Swinging, Swing!Change(c, w), v2' = v2,
           v4' \in [Swing!Client -> Nat], v5' \in Seq(Swing!Message), v9' \in Nat,
           v8' \in BOOLEAN, v10' \in BOOLEAN
    PROVE  Swing!Typed' /\ v1'[c] = w /\ (c = 1 => v1'[0] = v1[0])
<1>1. v1 \in [Swing!Client -> Swing!Swinging] /\ v1' = [v1 EXCEPT ![c] = w]
  BY DEF Swing!Typed, Swing!Change
<1>2. v1' \in [Swing!Client -> Swing!Swinging] /\ v1'[c] = w /\ (c = 1 => v1'[0] = v1[0])
  BY <1>1, SwingClients
<1> QED BY <1>2 DEF Swing!Typed, Swing!Message, Swing!Client, Swing!Swinging, Swing!Notify

LEMMA SwingQuiet ==
    ASSUME Swing!SwingInv, v2' = v2, v4' = v4, v5' = v5
    PROVE  /\ v2' \in [Swing!Client -> BOOLEAN] /\ v4' \in [Swing!Client -> Nat] /\ v5' \in Seq(Swing!Message)
           /\ SwingCounts' /\ v9 \in Nat /\ v8 \in BOOLEAN /\ v10 \in BOOLEAN
  BY SwingHas DEF SwingCounts, Swing!Owes, Swing!Worth, Swing!Typed

LEMMA SwingChecks ==
    ASSUME Swing!SwingInv, NEW c \in Swing!Client, Swing!CheckNextAttack(c)
    PROVE  Swing!SwingInv'
<1>1. /\ Swing!Typed /\ SwingOwn(v1[0]) /\ ~v10' /\ v8' = v8 /\ v9' = v9 /\ v2' = v2 /\ v4' = v4 /\ v5' = v5
      /\ v1[c] \in Swing!Swinging /\ c \in {0, 1} /\ v8' \in BOOLEAN /\ v10' \in BOOLEAN
  BY SwingHas, SwingClients DEF Swing!CheckNextAttack, Swing!Quietly, Swing!History
<1>2. PICK w, x : w = v1[c] /\ x = [w EXCEPT !.left = w.left \ {"check"}, !.may = TRUE]
  OBVIOUS
<1>3. Swing!Change(c, x) /\ w.play # "no" /\ "check" \in w.left
  BY <1>2 DEF Swing!CheckNextAttack, Swing!Notified, Swing!Left, Swing!Swings
<1>4. w \in Swing!Swinging
  BY <1>1, <1>2
<1>5. /\ x \in Swing!Swinging /\ x.left = w.left \ {"check"} /\ x.may = TRUE
      /\ x.play = w.play /\ x.section = w.section /\ x.linked = w.linked /\ x.number = w.number
      /\ x.tracing = w.tracing /\ x.hitted = w.hitted
  BY <1>2, <1>4 DEF Swing!Swinging
<1>6. Swing!Typed' /\ SwingCounts' /\ v1'[c] = x /\ (c = 1 => v1'[0] = v1[0])
  BY <1>1, <1>3, <1>5, SwingQuiet, SwingPlays
<1>7. CASE c = 1
  BY <1>1, <1>6, <1>7, SwingOther
<1>8. CASE c = 0
  BY <1>1, <1>2, <1>8, <1>3, <1>5, <1>6, SwingIs DEF SwingOwn, Swing!Numbered, Swing!Traces
<1> QED BY <1>1, <1>7, <1>8

LEMMA SwingStarts ==
    ASSUME Swing!SwingInv, NEW c \in Swing!Client, Swing!StartTrace(c)
    PROVE  Swing!SwingInv'
<1>1. /\ Swing!Typed /\ SwingOwn(v1[0]) /\ ~v10' /\ v2' = v2 /\ v4' = v4 /\ v5' = v5
      /\ v1[c] \in Swing!Swinging /\ c \in {0, 1} /\ v8 \in BOOLEAN /\ v10' \in BOOLEAN
  BY SwingHas, SwingClients DEF Swing!StartTrace, Swing!Quietly, Swing!History
<1>2. PICK w, x : w = v1[c] /\ x = [w EXCEPT !.left = w.left \ {"start"}, !.tracing = TRUE]
  OBVIOUS
<1>3. Swing!Change(c, x) /\ w.play # "no" /\ "start" \in w.left
  BY <1>2 DEF Swing!StartTrace, Swing!Notified, Swing!Left, Swing!Swings
<1>4. w \in Swing!Swinging
  BY <1>1, <1>2
<1>5. /\ x \in Swing!Swinging /\ x.left = w.left \ {"start"} /\ x.tracing = TRUE
      /\ x.play = w.play /\ x.section = w.section /\ x.linked = w.linked /\ x.number = w.number
      /\ x.may = w.may /\ x.hitted = w.hitted
  BY <1>2, <1>4 DEF Swing!Swinging
<1>10. v8' = (v8 /\ c # 0) /\ v9' = IF c = 0 THEN 0 ELSE v9
  BY SwingClients DEF Swing!StartTrace
<1>11. v8' \in BOOLEAN /\ (c = 0 => ~v8') /\ (v8' => v8)
  BY <1>1, <1>10
<1>0. /\ c = 0 => ~v8' /\ v9' = 0
      /\ c = 1 => (v8' => v8) /\ v9' = v9
  BY <1>1, <1>10, <1>11
<1>6. v9' \in Nat
  BY <1>0, <1>1, SwingQuiet
<1>9. Swing!Typed' /\ SwingCounts' /\ v1'[c] = x /\ (c = 1 => v1'[0] = v1[0])
  BY <1>1, <1>3, <1>5, <1>6, <1>11, SwingQuiet, SwingPlays
<1>7. CASE c = 1
  BY <1>0, <1>1, <1>9, <1>7, SwingOther
<1>8. CASE c = 0
  BY <1>1, <1>2, <1>8, <1>3, <1>5, <1>0, <1>9, SwingIs DEF SwingOwn, Swing!Numbered, Swing!Traces
<1> QED BY <1>1, <1>7, <1>8

LEMMA SwingStops ==
    ASSUME Swing!SwingInv, NEW c \in Swing!Client, Swing!StopShieldAttackHitTrace(c)
    PROVE  Swing!SwingInv'
<1>1. /\ Swing!Typed /\ SwingOwn(v1[0]) /\ ~v10 /\ v8' = v8 /\ v9' = v9 /\ v2' = v2 /\ v4' = v4 /\ v5' = v5
      /\ v1[c] \in Swing!Swinging /\ c \in {0, 1}
      /\ v8' \in BOOLEAN /\ v10 \in BOOLEAN
      /\ v10' = (v10 \/ (c = 0 /\ v8 /\ v9 = 0 /\ v1[c].play = "attack" /\ v1[c].section < 2))
  BY SwingHas, SwingClients DEF Swing!StopShieldAttackHitTrace, Swing!Quietly
<1>10. v10' \in BOOLEAN /\ (v10' => c = 0 /\ v8 /\ v9 = 0 /\ v1[c].play = "attack" /\ v1[c].section < 2)
  BY <1>1
<1>2. PICK w, x : w = v1[c] /\ x = [w EXCEPT !.left = w.left \ {"stop"}, !.tracing = FALSE, !.hitted = FALSE]
  OBVIOUS
<1>4. w \in Swing!Swinging
  BY <1>1, <1>2
<1>3. Swing!Change(c, x) /\ w.play # "no" /\ "stop" \in w.left /\ "start" \notin w.left
  BY <1>2, <1>4 DEF Swing!StopShieldAttackHitTrace, Swing!Left, Swing!Swings, Swing!StopTrace, Swing!Notified,
    Swing!Swinging
<1>5. /\ x \in Swing!Swinging /\ x.left = w.left \ {"stop"} /\ x.tracing = FALSE
      /\ x.play = w.play /\ x.section = w.section /\ x.linked = w.linked /\ x.number = w.number
      /\ x.may = w.may /\ x.hitted = FALSE
  BY <1>2, <1>4 DEF Swing!Swinging
<1>6. Swing!Typed' /\ SwingCounts' /\ v1'[c] = x /\ (c = 1 => v1'[0] = v1[0])
  BY <1>1, <1>3, <1>5, <1>10, SwingQuiet, SwingPlays
<1>7. CASE c = 1
  BY <1>10, <1>7, <1>1, <1>6, SwingOther
<1>8. CASE c = 0
  BY <1>1, <1>2, <1>8, <1>3, <1>5, <1>6, <1>10, SwingIs DEF SwingOwn, Swing!Numbered, Swing!Traces
<1> QED BY <1>1, <1>7, <1>8
LEMMA SwingGives ==
    ASSUME Swing!SwingInv, NEW c \in Swing!Client
    PROVE  /\ Swing!GiveDamage(c) \in Nat
           /\ c = 0 /\ v1[0].play = "attack" /\ v1[0].section < 2 => Swing!GiveDamage(c) > 0
<1>1. PICK w, b : w = v1[c] /\ b = v2[c]
  OBVIOUS
<1>2. w \in Swing!Swinging /\ b \in BOOLEAN
  BY <1>1, SwingHas DEF Swing!Typed
<1>3. w.number \in 0 .. 3 /\ w.section \in Nat /\ w.linked \in BOOLEAN
  BY <1>2 DEF Swing!Swinging
<1>4. /\ Swing!GiveDamage(c) \in Nat
      /\ ~b /\ w.number # 0 => Swing!GiveDamage(c) > 0
  BY <1>3, <1>1, <1>2 DEF Swing!GiveDamage
<1>5. ASSUME c = 0, w.play = "attack", w.section < 2
      PROVE  ~b /\ w.number # 0
  BY <1>1, <1>5, SwingHas, <1>3 DEF SwingOwn, Swing!Numbered
<1> QED BY <1>1, <1>4, <1>5

LEMMA SwingMeets ==
    ASSUME Swing!SwingInv, NEW c \in Swing!Client, Swing!LineTracing(c)
    PROVE  Swing!SwingInv'
<1>1. /\ Swing!Typed /\ SwingCounts /\ SwingOwn(v1[0]) /\ ~v10 /\ v10' = v10 /\ v2' = v2
      /\ v1[c] \in Swing!Swinging /\ c \in {0, 1} /\ v8 \in BOOLEAN /\ v10 \in BOOLEAN /\ v9 \in Nat
  BY SwingHas, SwingClients DEF Swing!LineTracing, Swing!Typed
<1>2. v8' = (v8 \/ c = 0)
  BY SwingClients DEF Swing!LineTracing
<1>3. v8' \in BOOLEAN /\ (c = 0 => v8') /\ (c = 1 => (v8' => v8))
  <2>1. CASE c = 0
    <3>1. (v8 \/ c = 0) = TRUE
      BY <2>1
    <3>2. v8' = TRUE
      BY <1>2, <3>1
    <3> QED BY <2>1, <3>2
  <2>2. CASE c = 1
    BY <2>2, <1>2, <1>1
  <2> QED BY <1>1, <2>1, <2>2
<1>4. PICK w : w = v1[c]
  OBVIOUS
<1>5. w \in Swing!Swinging /\ w.tracing
  BY <1>1, <1>4 DEF Swing!LineTracing
<1>6. CASE w.hitted
  <2>1. v1' = v1 /\ v4' = v4 /\ v5' = v5 /\ v9' = v9
    BY <1>4, <1>6 DEF Swing!LineTracing
  <2>2. Swing!Typed' /\ SwingCounts'
    BY ZenonT(60), <1>1, <1>3, <2>1 DEF Swing!Typed, SwingCounts, Swing!Owes, Swing!Worth, Swing!Message, Swing!Client,
          Swing!Swinging, Swing!Notify
  <2>3. CASE c = 1
    BY <1>1, <1>3, <2>1, <2>2, <2>3, SwingOther
  <2>4. CASE c = 0
    BY <1>1, <1>4, <2>1, <2>4, <1>6, <2>2, SwingIs DEF SwingOwn
  <2> QED BY <1>1, <2>3, <2>4
<1>7. CASE ~w.hitted
  <2>1. PICK x, d : x = [w EXCEPT !.hitted = TRUE] /\ d = Swing!GiveDamage(c)
    OBVIOUS
  <2>2. Swing!Change(c, x) /\ Swing!Hurt(c, d) /\ v9' = IF c = 0 THEN v9 + d ELSE v9
    BY <1>4, <1>7, <2>1, SwingClients DEF Swing!LineTracing
  <2>3. /\ d \in Nat
        /\ c = 0 /\ w.play = "attack" /\ w.section < 2 => d > 0
    BY <1>4, <2>1, SwingGives
  <2>4. /\ x \in Swing!Swinging /\ x.left = w.left /\ x.tracing = w.tracing
        /\ x.play = w.play /\ x.section = w.section /\ x.linked = w.linked /\ x.number = w.number
        /\ x.may = w.may /\ x.hitted = TRUE
    BY <1>5, <2>1 DEF Swing!Swinging
  <2>5. v9' \in Nat /\ (c = 0 => v9' = v9 + d) /\ (c = 1 => v9' = v9)
    BY <1>1, <2>2, <2>3
  <2>6. v4' \in [Swing!Client -> Nat] /\ v5' \in Seq(Swing!Message) /\ SwingCounts'
    BY <1>1, <2>2, <2>3, SwingHurts
  <2>7. Swing!Typed' /\ v1'[c] = x /\ (c = 1 => v1'[0] = v1[0])
    BY <1>1, <1>3, <2>2, <2>4, <2>5, <2>6, SwingPlays
  <2>8. CASE c = 1
    BY <1>1, <1>3, <2>5, <2>6, <2>7, <2>8, SwingOther
  <2>9. CASE c = 0
    <3>1. SwingOwn(w)
      BY <1>1, <1>4, <2>9
    <3>2. Swing!Numbered(x)
      BY <2>4, <3>1 DEF SwingOwn, Swing!Numbered
    <3>3. Swing!Traces(x)
      BY <1>5, <2>4, <3>1 DEF SwingOwn, Swing!Traces
    <3>4. /\ (x.play = "attack" => ~v2'[0])
          /\ x.play = "attack" /\ x.section < 2 /\ x.tracing /\ (v8' \/ x.hitted) => v9' > 0
      BY <1>1, <2>3, <2>4, <2>5, <2>9, <3>1 DEF SwingOwn
    <3>5. x = v1'[0]
      BY <2>7, <2>9
    <3> QED BY <1>1, <2>6, <2>7, <3>2, <3>3, <3>4, <3>5, SwingIs
  <2> QED BY <1>1, <2>8, <2>9
<1> QED BY <1>6, <1>7

LEMMA SwingSmashes ==
    ASSUME Swing!SwingInv, NEW c \in Swing!Client, Swing!GroundSmash(c)
    PROVE  Swing!SwingInv'
<1>1. /\ Swing!Typed /\ SwingCounts /\ SwingOwn(v1[0]) /\ ~v10' /\ v8' = v8 /\ v9' = v9 /\ v2' = v2
      /\ v1[c] \in Swing!Swinging /\ c \in {0, 1} /\ v8' \in BOOLEAN /\ v10' \in BOOLEAN /\ v9' \in Nat
  BY SwingHas, SwingClients DEF Swing!GroundSmash, Swing!History, Swing!Typed
<1>2. PICK w, x : w = v1[c] /\ x = [w EXCEPT !.smash = FALSE]
  OBVIOUS
<1>3. Swing!Change(c, x) /\ Swing!Hurt(c, 3) /\ w \in Swing!Swinging
  BY <1>1, <1>2 DEF Swing!GroundSmash
<1>4. /\ x \in Swing!Swinging /\ x.left = w.left /\ x.tracing = w.tracing /\ x.may = w.may
      /\ x.play = w.play /\ x.section = w.section /\ x.linked = w.linked /\ x.number = w.number
      /\ x.hitted = w.hitted
  BY <1>2, <1>3 DEF Swing!Swinging
<1>5. v4' \in [Swing!Client -> Nat] /\ v5' \in Seq(Swing!Message) /\ SwingCounts'
  BY <1>1, <1>3, SwingHurts
<1>6. Swing!Typed' /\ v1'[c] = x /\ (c = 1 => v1'[0] = v1[0])
  BY <1>1, <1>3, <1>4, <1>5, SwingPlays
<1>7. CASE c = 1
  BY <1>1, <1>5, <1>6, <1>7, SwingOther
<1>8. CASE c = 0
  BY <1>1, <1>2, <1>8, <1>4, <1>6, <1>5, SwingIs DEF SwingOwn, Swing!Numbered, Swing!Traces
<1> QED BY <1>1, <1>7, <1>8

LEMMA SwingParts ==
    ASSUME Swing!SwingInv, NEW c \in Swing!Client, Swing!SectionEnd(c)
    PROVE  Swing!SwingInv'
<1>1. /\ Swing!Typed /\ SwingOwn(v1[0]) /\ ~v10' /\ v8' = v8 /\ v9' = v9 /\ v2' = v2 /\ v4' = v4 /\ v5' = v5
      /\ v1[c] \in Swing!Swinging /\ c \in {0, 1} /\ v8' \in BOOLEAN /\ v10' \in BOOLEAN
  BY SwingHas, SwingClients DEF Swing!SectionEnd, Swing!Quietly, Swing!History
<1>2. PICK w, s, x : /\ w = v1[c] /\ s = (w.play = "ultimate" /\ w.section = 1)
                     /\ x = IF ~w.linked THEN Swing!Idle
                            ELSE [w EXCEPT !.section = w.section + 1, !.linked = FALSE, !.left = Swing!Notify, !.smash = s]
  OBVIOUS
<1>3. Swing!Change(c, x) /\ w.play # "no" /\ w.left = {} /\ w \in Swing!Swinging /\ s \in BOOLEAN
  BY <1>2, <1>1 DEF Swing!SectionEnd, Swing!Swings
<1>4. CASE ~w.linked
  <2>1. x = Swing!Idle
    BY <1>2, <1>4
  <2>2. Swing!Typed' /\ SwingCounts' /\ v1'[c] = x /\ (c = 1 => v1'[0] = v1[0])
    BY <1>1, <1>3, <2>1, SwingClients, SwingQuiet, SwingPlays
  <2>3. CASE c = 1
    BY <1>1, <2>2, <2>3, SwingOther
  <2>4. CASE c = 0
    BY <2>1, <2>2, <2>4, SwingClients, <1>1, SwingIs
  <2> QED BY <1>1, <2>3, <2>4
<1>5. CASE w.linked
  <2>1. /\ x \in Swing!Swinging /\ x.left = {"start", "check", "stop"} /\ x.tracing = w.tracing
        /\ x.play = w.play /\ x.section = w.section + 1 /\ x.linked = FALSE /\ x.number = w.number
        /\ x.may = w.may /\ x.hitted = w.hitted
    <3>1. x = [w EXCEPT !.section = w.section + 1, !.linked = FALSE, !.left = Swing!Notify, !.smash = s]
      BY <1>2, <1>5
    <3>2. w.section + 1 \in Nat
      BY <1>3 DEF Swing!Swinging
    <3>3. PICK n, k : n = Swing!Notify /\ k = w.section + 1
      OBVIOUS
    <3>4. n \in SUBSET Swing!Notify /\ n = {"start", "check", "stop"}
      BY <3>3, SwingClients
    <3>5. /\ x \in Swing!Swinging /\ x.left = n /\ x.tracing = w.tracing
          /\ x.play = w.play /\ x.section = k /\ x.linked = FALSE /\ x.number = w.number
          /\ x.may = w.may /\ x.hitted = w.hitted
      BY <1>3, <3>1, <3>2, <3>3, <3>4 DEF Swing!Swinging
    <3> QED BY <3>3, <3>4, <3>5
  <2>2. Swing!Typed' /\ SwingCounts' /\ v1'[c] = x /\ (c = 1 => v1'[0] = v1[0])
    BY <1>1, <1>3, <2>1, SwingQuiet, SwingPlays
  <2>3. CASE c = 1
    BY <1>1, <2>2, <2>3, SwingOther
  <2>4. CASE c = 0
    <3>1. SwingOwn(w) /\ x = v1'[0]
      BY <1>1, <1>2, <2>2, <2>4
    <3>2. w.section \in Nat
      BY <1>3 DEF Swing!Swinging
    <3>3. Swing!Numbered(x)
      BY <1>3, <1>5, <2>1, <3>1, <3>2 DEF SwingOwn, Swing!Numbered
    <3>4. Swing!Traces(x) /\ ~x.tracing
      BY <1>3, <2>1, <3>1 DEF SwingOwn, Swing!Traces
    <3>5. x.play = "attack" => ~v2'[0]
      BY <1>1, <2>1, <3>1 DEF SwingOwn
    <3> QED BY <1>1, <2>2, <3>1, <3>3, <3>4, <3>5, SwingIs
  <2> QED BY <1>1, <2>3, <2>4
<1> QED BY <1>4, <1>5
SwingFresh(w) ==
    /\ w.play # "no" /\ w.section = 0 /\ w.number = 0 /\ w.left = {"start", "check", "stop"} /\ w.may
    /\ w.linked = FALSE /\ w.tracing = FALSE /\ w.hitted = FALSE /\ (w.play = "attack" => ~v2[0])

\* A press begins the combo, or goes on with it.
LEMMA SwingCombo ==
    ASSUME Swing!SwingInv, NEW c \in Swing!Client, Swing!Attack(c), v2' = v2, v4' = v4, v8' = v8, v9' = v9, v10' = v10,
           v5' \in Seq(Swing!Message), SwingCounts'
    PROVE  Swing!SwingInv'
<1>1. /\ Swing!Typed /\ SwingOwn(v1[0]) /\ ~v10' /\ v1[c] \in Swing!Swinging /\ c \in {0, 1}
      /\ v8' \in BOOLEAN /\ v10' \in BOOLEAN /\ v4' \in [Swing!Client -> Nat] /\ v9' \in Nat /\ v2[c] \in BOOLEAN
  BY SwingHas, SwingClients DEF Swing!Typed
<1>2. PICK u, w, x : u = v1[c] /\ w = Swing!PlayAttackMontage(c, u) /\ x = Swing!DoNextAttack(c, w)
  OBVIOUS
<1>3. Swing!Change(c, x) /\ u \in Swing!Swinging
  BY <1>1, <1>2 DEF Swing!Attack, Swing!Change
<1>4. /\ w \in Swing!Swinging
      /\ c = 0 => SwingOwn(w) \/ SwingFresh(w)
  <2>1. CASE u.play # "no"
    BY <1>2, <2>1, <1>1, <1>3 DEF Swing!PlayAttackMontage
  <2>2. CASE u.play = "no"
    <3>1. PICK p, n : p = (IF v2[c] THEN "ultimate" ELSE "attack") /\ n = Swing!Notify
      OBVIOUS
    <3>2. w = [Swing!Idle EXCEPT !.play = p, !.left = n, !.may = TRUE]
      BY <1>2, <2>2, <3>1 DEF Swing!PlayAttackMontage
    <3>3. p \in {"no", "attack", "ultimate"} /\ n \in SUBSET Swing!Notify /\ p # "no" /\ (p = "attack" => ~v2[c])
      BY <3>1
    <3>4. w = [play |-> p, section |-> 0, linked |-> FALSE, left |-> n, number |-> 0, may |-> TRUE,
               tracing |-> FALSE, hitted |-> FALSE, smash |-> FALSE]
      BY <3>2 DEF Swing!Idle
    <3>6. /\ w.play = p /\ w.left = n /\ w.may = TRUE /\ w.section = 0 /\ w.linked = FALSE
          /\ w.number = 0 /\ w.tracing = FALSE /\ w.hitted = FALSE
      BY <3>4
    <3>7. w \in Swing!Swinging
      BY <3>3, <3>4 DEF Swing!Swinging
    <3>5. c = 0 => SwingFresh(w)
      BY <3>1, <3>3, <3>6, SwingClients DEF SwingFresh
    <3> QED BY <3>5, <3>7
  <2> QED BY <2>1, <2>2
<1>5. CASE ~w.may
  BY <1>2, <1>5, <1>1, <1>3, <1>4, SwingPlays, SwingOther, SwingIs DEF Swing!DoNextAttack, SwingFresh, SwingOwn
<1>6. CASE w.may
  <2>1. PICK n, l : /\ n = (IF w.number = 3 THEN 0 ELSE w.number + 1)
                    /\ l = (w.linked \/ (w.number \in {1, 2} /\ w.section = w.number - 1
                                         /\ (w.play = "ultimate") = v2[c]))
    OBVIOUS
  <2>2. x = [w EXCEPT !.may = FALSE, !.number = n, !.linked = l]
    BY <1>2, <1>6, <2>1 DEF Swing!DoNextAttack
  <2>3. w.number \in 0 .. 3 /\ w.section \in Nat /\ w.linked \in BOOLEAN /\ w.may = TRUE
    BY <1>4, <1>6 DEF Swing!Swinging
  <2>4. n \in 0 .. 3 /\ l \in BOOLEAN
    BY <2>1, <2>3
  <2>5. /\ x \in Swing!Swinging /\ x.left = w.left /\ x.tracing = w.tracing
        /\ x.play = w.play /\ x.section = w.section /\ x.linked = l /\ x.number = n
        /\ x.may = FALSE /\ x.hitted = w.hitted
    BY <1>4, <2>2, <2>4 DEF Swing!Swinging
  <2>6. Swing!Typed' /\ v1'[c] = x /\ (c = 1 => v1'[0] = v1[0])
    BY <1>1, <1>3, <2>5, SwingPlays
  <2>7. CASE c = 1
    BY <1>1, <2>6, <2>7, SwingOther
  <2>8. CASE c = 0
    <3>0. x = v1'[0]
      BY <2>6, <2>8
    <3>9. CASE SwingOwn(w)
      <4>2. Swing!Numbered(x)
        <5> SUFFICES ASSUME w.play = "attack", w.section < 2
                     PROVE  n = (IF l THEN w.section + 2 ELSE w.section + 1) /\ "check" \notin w.left
          BY <2>5 DEF Swing!Numbered
        <5>1. /\ w.number = (IF w.linked THEN w.section + 2 ELSE w.section + 1)
              /\ "check" \notin w.left /\ ~w.linked
          BY <1>6, <3>9 DEF SwingOwn, Swing!Numbered
        <5>2. w.number = w.section + 1 /\ w.number \in {1, 2}
          BY <2>3, <5>1
        <5>3. v2[0] = FALSE /\ (w.play = "ultimate") = FALSE
          BY <1>1, <2>8, <3>9 DEF SwingOwn
        <5>5. w.section = w.number - 1
          BY <2>3, <5>2
        <5>6. (w.play = "ultimate") = v2[c]
          BY <2>8, <5>3
        <5>4. l
          BY <2>1, <5>2, <5>5, <5>6
        <5> QED BY <2>1, <2>3, <5>1, <5>2, <5>4
      <4>3. Swing!Traces(x)
        BY <2>5, <3>9 DEF SwingOwn, Swing!Traces
      <4>4. /\ (x.play = "attack" => ~v2'[0])
            /\ x.play = "attack" /\ x.section < 2 /\ x.tracing /\ (v8' \/ x.hitted) => v9' > 0
        BY <2>5, <3>9 DEF SwingOwn
      <4> QED BY <1>1, <2>6, <3>0,  <4>2, <4>3, <4>4, SwingIs
    <3>1. CASE SwingFresh(w)
      <4>1. n = 1 /\ l = FALSE
        <5>1. w.number = 0 /\ w.linked = FALSE
          BY <3>1 DEF SwingFresh
        <5>2. n = 1
          BY <2>1, <5>1
        <5>3. w.number \notin {1, 2}
          BY <5>1
        <5>4. l = FALSE
          BY <2>1, <5>1, <5>3
        <5> QED BY <5>2, <5>4
      <4>2. Swing!Numbered(x)
        BY <2>5, <3>1, <4>1 DEF SwingFresh, Swing!Numbered
      <4>3. Swing!Traces(x)
        BY <2>5, <3>1 DEF SwingFresh, Swing!Traces
      <4>4. (x.play = "attack" => ~v2'[0]) /\ ~x.tracing
        BY <2>5, <3>1 DEF SwingFresh
      <4> QED BY <1>1, <2>6, <3>0, <4>2, <4>3, <4>4, SwingIs
    <3> QED BY <1>4, <2>8, <3>1, <3>9
  <2> QED BY <1>1, <2>7, <2>8
<1> QED BY <1>5, <1>6

LEMMA SwingPressed ==
    ASSUME Swing!SwingInv, Swing!PressAttack
    PROVE  Swing!SwingInv'
  BY SwingHas, SwingClients, SwingTells, SwingCombo DEF Swing!PressAttack, Swing!History

\* The skills, and the ultimate, do not touch the swings.
LEMMA SwingStill ==
    ASSUME Swing!SwingInv, v1' = v1, v8' = v8, v9' = v9, v10' = v10, v2' \in [Swing!Client -> BOOLEAN],
           v2'[0] => v2[0] \/ v1[0].play = "no",
           v4' \in [Swing!Client -> Nat], v5' \in Seq(Swing!Message), SwingCounts'
    PROVE  Swing!SwingInv'
<1>1. Swing!Typed /\ SwingOwn(v1[0]) /\ ~v10'
  BY SwingHas
<1>2. Swing!Typed'
  BY <1>1 DEF Swing!Typed, Swing!Message, Swing!Client, Swing!Swinging, Swing!Notify
<1>3. PICK w : w = v1[0]
  OBVIOUS
<1>4. w = v1'[0] /\ SwingOwn(w)
  BY <1>1, <1>3
<1>5. /\ Swing!Numbered(w) /\ Swing!Traces(w) /\ (w.play = "attack" => ~v2'[0])
      /\ w.play = "attack" /\ w.section < 2 /\ w.tracing /\ (v8' \/ w.hitted) => v9' > 0
  BY <1>3, <1>4 DEF SwingOwn
<1> QED BY <1>1, <1>2, <1>4, <1>5, SwingIs

LEMMA SwingSkills ==
    ASSUME Swing!SwingInv,
           \/ Swing!AdrenalSurge
           \/ \E s \in {"rush", "punish"} : Swing!Press(s) \/ \E c \in Swing!Client : Swing!SkillHit(c, s)
           \/ \E c \in Swing!Client : Swing!SkillEnd(c) \/ Swing!AdrenalSurgeEnd(c)
    PROVE  Swing!SwingInv'
<1>1. /\ Swing!Typed /\ SwingCounts /\ v2 \in [Swing!Client -> BOOLEAN] /\ v4 \in [Swing!Client -> Nat]
      /\ v5 \in Seq(Swing!Message)
  BY SwingHas DEF Swing!Typed
<1>2. CASE Swing!AdrenalSurge
  BY <1>2, SwingClients, <1>1, SwingTells, SwingStill DEF Swing!AdrenalSurge, Swing!Swings, Swing!History
<1>3. ASSUME NEW s \in {"rush", "punish"}, Swing!Press(s)
      PROVE  Swing!SwingInv'
  BY <1>3, SwingClients, <1>1, SwingTells, SwingStill DEF Swing!Press, Swing!Skills, Swing!History
<1>4. ASSUME NEW s \in {"rush", "punish"}, NEW c \in Swing!Client, Swing!SkillHit(c, s)
      PROVE  Swing!SwingInv'
  <2>1. PICK d : d = IF s = "rush" THEN 2 ELSE 1
    OBVIOUS
  <2>2. /\ Swing!Hurt(c, d) /\ d \in Nat /\ v1' = v1 /\ v2' = v2 /\ v8' = v8 /\ v9' = v9 /\ v10' = v10
    BY <1>4, <2>1 DEF Swing!SkillHit, Swing!History
  <2>3. v4' \in [Swing!Client -> Nat] /\ v5' \in Seq(Swing!Message) /\ SwingCounts'
    BY <1>1, <2>2, SwingHurts
  <2> QED BY <1>1, <2>2, <2>3, SwingStill
<1>5. ASSUME NEW c \in Swing!Client, Swing!SkillEnd(c)
      PROVE  Swing!SwingInv'
  BY <1>5, <1>1, SwingTells, SwingQuiet, SwingStill DEF Swing!SkillEnd, Swing!Skills, Swing!History
<1>6. ASSUME NEW c \in Swing!Client, Swing!AdrenalSurgeEnd(c)
      PROVE  Swing!SwingInv'
  <2>1. /\ v1' = v1 /\ v5' = v5 /\ v4' = v4 /\ v8' = v8 /\ v9' = v9 /\ v10' = v10
        /\ v2' = [v2 EXCEPT ![c] = FALSE]
    BY <1>6 DEF Swing!AdrenalSurgeEnd, Swing!History
  <2>2. v2' \in [Swing!Client -> BOOLEAN] /\ (v2'[0] => v2[0])
    BY <1>1, <2>1, SwingHas
  <2>3. SwingCounts'
    BY <1>1, <2>1 DEF SwingCounts, Swing!Owes, Swing!Worth
  <2> QED BY <1>1, <2>1, <2>2, <2>3, SwingStill
<1> QED BY <1>2, <1>3, <1>4, <1>5, <1>6

\* What has arrived counts for the other client.
LEMMA SwingHears ==
    ASSUME Swing!SwingInv, Swing!Recv
    PROVE  v4' \in [Swing!Client -> Nat] /\ v5' \in Seq(Swing!Message) /\ SwingCounts'
<1>1. /\ Swing!Typed /\ SwingCounts /\ v4 \in [Swing!Client -> Nat] /\ v5 \in Seq(Swing!Message)
      /\ v4[0] \in Nat /\ v4[1] \in Nat
  BY SwingHas DEF Swing!Typed
<1>2. PICK x, q, n : x = v5[1] /\ q = v5 /\ n = v4[0] - v4[1]
  OBVIOUS
<1>3. v5 # << >> /\ v5' = Tail(q) /\ v4' = IF x[1] = "hurt" THEN [v4 EXCEPT ![1] = v4[1] + x[2]] ELSE v4
  <2>1. /\ v5 # << >> /\ v5' = Tail(v5)
        /\ v4' = (IF Head(v5)[1] = "hurt" THEN [v4 EXCEPT ![1] = v4[1] + Head(v5)[2]] ELSE v4)
    BY Zenon DEF Swing!Recv
  <2>2. Head(v5) = x
    BY <1>1, <1>2, <2>1
  <2> QED BY <1>2, <2>1, <2>2
<1>4. x \in Swing!Message /\ v5' \in Seq(Swing!Message)
  BY <1>1, <1>2, <1>3, QueueTails
<1>5. x[2] \in Nat /\ Stack!Worth(x) = IF x[1] = "hurt" THEN x[2] ELSE 0
  BY <1>4 DEF Swing!Message, Stack!Worth
<1>6. v4' \in [Swing!Client -> Nat] /\ v4'[0] = v4[0] /\ v4'[1] = v4[1] + Stack!Worth(x)
  BY <1>1, <1>3, <1>5, SwingClients
<1>7. n - Stack!Worth(x) = v4'[0] - v4'[1]
  BY <1>1, <1>2, <1>5, <1>6
<1>8. Stack!Owes(q, n) /\ n \in Int /\ q \in Seq(Swing!Message) /\ q # << >>
  BY <1>1, <1>2, <1>3, HitsNone DEF SwingCounts
<1>9. \A y \in Swing!Message : Stack!Worth(y) \in Int
  BY DEF Swing!Message, Stack!Worth
<1>10. Stack!Owes(Tail(q), n - Stack!Worth(q[1]))
  BY <1>8, <1>9, HitsLess
<1>11. PICK u, m : u = v5' /\ m = v4'[0] - v4'[1]
  OBVIOUS
<1>12. Swing!Owes(u, m)
  BY <1>2, <1>3, <1>7, <1>10, <1>11, HitsNone
<1>13. SwingCounts'
  BY <1>11, <1>12 DEF SwingCounts, Swing!Owes, Swing!Worth
<1> QED BY <1>4, <1>6, <1>13

LEMMA SwingRecv ==
    ASSUME Swing!SwingInv, Swing!Recv
    PROVE  Swing!SwingInv'
  BY SwingHears, SwingHas, SwingCombo, SwingClients, SwingStill DEF Swing!Recv, Swing!History, Swing!Typed

LEMMA SwingInit == Swing!Init => Swing!SwingInv
<1> SUFFICES ASSUME Swing!Init PROVE Swing!SwingInv
  OBVIOUS
<1>1. /\ v1 = [c \in Swing!Client |-> Swing!Idle] /\ v2 = [c \in Swing!Client |-> FALSE]
      /\ v4 = [c \in Swing!Client |-> 0] /\ v5 = << >> /\ v8 = FALSE /\ v9 = 0 /\ v10 = FALSE
  BY DEF Swing!Init
<1>2. /\ v1 \in [Swing!Client -> Swing!Swinging] /\ v2 \in [Swing!Client -> BOOLEAN] /\ v4 \in [Swing!Client -> Nat]
      /\ v5 \in Seq(Swing!Message) /\ v1[0] = Swing!Idle /\ v4[0] - v4[1] = 0
  BY <1>1, SwingClients
<1>3. Swing!Typed
  BY <1>1, <1>2 DEF Swing!Typed
<1>4. Swing!Owes(v5, v4[0] - v4[1])
  <2>1. PICK n : n = v4[0] - v4[1]
    OBVIOUS
  <2>2. Swing!Owes(v5, n)
    BY <1>1, <1>2, <2>1, HitsNone
  <2> QED BY <2>1, <2>2
<1>5. Swing!Deals
  BY <1>2, SwingClients DEF Swing!Deals
<1> QED BY <1>1, <1>3, <1>4, <1>5 DEF Swing!SwingInv

LEMMA SwingNext == Swing!SwingInv /\ [Swing!Next]_(Swing!vars) => Swing!SwingInv'
<1> SUFFICES ASSUME Swing!SwingInv, [Swing!Next]_(Swing!vars) PROVE Swing!SwingInv'
  OBVIOUS
<1>1. CASE Swing!PressAttack
  BY <1>1, SwingPressed
<1>2. CASE Swing!Recv
  BY <1>2, SwingRecv
<1>3. CASE \/ Swing!AdrenalSurge
           \/ \E s \in {"rush", "punish"} : Swing!Press(s) \/ \E c \in Swing!Client : Swing!SkillHit(c, s)
           \/ \E c \in Swing!Client : Swing!SkillEnd(c) \/ Swing!AdrenalSurgeEnd(c)
  BY <1>3, SwingSkills
<1>4. ASSUME NEW c \in Swing!Client,
             \/ Swing!CheckNextAttack(c) \/ Swing!StartTrace(c) \/ Swing!StopShieldAttackHitTrace(c)
             \/ Swing!LineTracing(c) \/ Swing!GroundSmash(c) \/ Swing!SectionEnd(c)
      PROVE  Swing!SwingInv'
  BY <1>4, SwingChecks, SwingStarts, SwingStops, SwingMeets, SwingSmashes, SwingParts
<1>5. CASE UNCHANGED Swing!vars
  BY <1>5, SwingQuiet, SwingStill DEF Swing!vars
<1> QED BY <1>1, <1>2, <1>3, <1>4, <1>5 DEF Swing!Next

LEMMA SwingHolds == Swing!SwingInv => Swing!SwingsCount
<1> SUFFICES ASSUME Swing!SwingInv PROVE Swing!SwingsCount
  OBVIOUS
<1>1. SwingCounts /\ ~v10 /\ v4[0] \in Nat /\ v4[1] \in Nat
  BY SwingHas DEF Swing!Typed
<1>2. ASSUME v5 = << >>
      PROVE  v4[0] = v4[1]
  <2>1. PICK n : n = v4[0] - v4[1]
    OBVIOUS
  <2>2. Swing!Owes(<< >>, n)
    BY <1>1, <1>2, <2>1 DEF SwingCounts
  <2>3. n = 0
    BY <2>2, HitsNone
  <2> QED BY <1>1, <2>1, <2>3
<1> QED BY <1>1, <1>2 DEF Swing!SwingsCount

\* What the drop's calls are heard in time for: l, that the drop the other client plays is still to be
\* created, and all, that hers is.
StackMarks(x) == x[1] \in {"skill", "create"}
StackDue(q, l, n) ==
    \/ \E i \in 1 .. n - 1 : q[i] = <<"skill", "drop">> /\ \A j \in i + 1 .. n - 1 : ~StackMarks(q[j])
    \/ (\A j \in 1 .. n - 1 : ~StackMarks(q[j])) /\ l
StackOrders(q, l, all) ==
    /\ \A i \in 1 .. Len(q) : q[i][1] = "create" => StackDue(q, l, i)
    /\ all => StackDue(q, l, Len(q) + 1)

LEMMA StackDues ==
    ASSUME NEW q, NEW u, NEW l, NEW m, NEW n \in Nat, StackDue(q, l, n), l => m,
           \A i \in 1 .. n - 1 : u[i] = q[i]
    PROVE  StackDue(u, m, n)
<1>1. ASSUME NEW i \in 1 .. n - 1, q[i] = <<"skill", "drop">>, \A j \in i + 1 .. n - 1 : ~StackMarks(q[j])
      PROVE  StackDue(u, m, n)
  BY <1>1 DEF StackDue
<1>2. ASSUME \A j \in 1 .. n - 1 : ~StackMarks(q[j]), l
      PROVE  StackDue(u, m, n)
  BY <1>2 DEF StackDue
<1> QED BY <1>1, <1>2 DEF StackDue

LEMMA StackOrdersMore ==
    ASSUME NEW S, NEW q \in Seq(S), NEW x \in S, NEW l, NEW a, NEW b, StackOrders(q, l, a),
           x[1] = "create" => a, b => x = <<"skill", "drop">> \/ (a /\ ~StackMarks(x))
    PROVE  StackOrders(Append(q, x), l, b)
<1> DEFINE k == Len(q)
           u == Append(q, x)
<1>1. /\ k \in Nat /\ Len(u) = k + 1 /\ u[k + 1] = x /\ \A i \in 1 .. k : u[i] = q[i]
  OBVIOUS
<1>2. /\ \A i \in 1 .. k : q[i][1] = "create" => StackDue(q, l, i)
      /\ a => StackDue(q, l, k + 1)
  BY DEF StackOrders
<1> HIDE DEF k, u
<1>3. ASSUME NEW n \in 1 .. k + 1, StackDue(q, l, n)
      PROVE  StackDue(u, l, n)
  BY <1>1, <1>3, StackDues
<1>4. ASSUME NEW i \in 1 .. k + 1, u[i][1] = "create"
      PROVE  StackDue(u, l, i)
  BY <1>1, <1>2, <1>3, <1>4
<1>5. ASSUME b
      PROVE  StackDue(u, l, k + 2)
  <2>1. k + 1 \in 1 .. k + 1 /\ (k + 2) - 1 = k + 1 /\ (k + 1) - 1 = k /\ k + 1 \in 1 .. (k + 2) - 1
    BY <1>1
  <2>2. CASE x = <<"skill", "drop">>
    BY <1>1, <2>1, <2>2 DEF StackDue
  <2>3. CASE a /\ ~StackMarks(x)
    <3>1. StackDue(u, l, k + 1)
      BY <1>2, <1>3, <2>1, <2>3
    <3>2. ASSUME NEW i \in 1 .. k, u[i] = <<"skill", "drop">>, \A j \in i + 1 .. k : ~StackMarks(u[j])
          PROVE  StackDue(u, l, k + 2)
      BY <1>1, <2>3, <3>2, <2>1 DEF StackDue
    <3>3. ASSUME \A j \in 1 .. k : ~StackMarks(u[j]), l
          PROVE  StackDue(u, l, k + 2)
      BY <1>1, <2>3, <3>3, <2>1 DEF StackDue
    <3> QED BY <2>1, <3>1, <3>2, <3>3 DEF StackDue
  <2> QED BY <1>5, <2>2, <2>3
<1>6. StackOrders(u, l, b)
  BY <1>1, <1>4, <1>5 DEF StackOrders
<1> QED BY <1>6 DEF u

LEMMA StackOrdersLess ==
    ASSUME NEW S, NEW q \in Seq(S), q # << >>, NEW l, NEW m, NEW a, StackOrders(q, l, a),
           ~StackMarks(q[1]) => (l => m), q[1] = <<"skill", "drop">> => m
    PROVE  StackOrders(Tail(q), m, a)
<1> DEFINE k == Len(q)
           u == Tail(q)
<1>1. /\ k \in Nat \ {0} /\ Len(u) = k - 1
      /\ \A i \in 1 .. k - 1 : u[i] = q[i + 1]
  BY QueueTails
<1>2. /\ \A i \in 1 .. k : q[i][1] = "create" => StackDue(q, l, i)
      /\ a => StackDue(q, l, k + 1)
  BY DEF StackOrders
<1> HIDE DEF k, u
<1>3. ASSUME NEW n \in 1 .. k, StackDue(q, l, n + 1)
      PROVE  StackDue(u, m, n)
  <2>1. /\ (n + 1) - 1 = n /\ 1 \in 1 .. n
        /\ \A j \in 1 .. n - 1 : j + 1 \in 1 .. n /\ u[j] = q[j + 1]
    BY <1>1
  <2>2. ASSUME NEW i \in 1 .. n, q[i] = <<"skill", "drop">>, \A j \in i + 1 .. n : ~StackMarks(q[j])
        PROVE  StackDue(u, m, n)
    <3>1. CASE i = 1
      BY <2>2, <3>1, <2>1 DEF StackDue
    <3>2. CASE i # 1
      <4>1. i - 1 \in 1 .. n - 1 /\ (i - 1) + 1 = i
        BY <3>2
      <4>2. u[i - 1] = <<"skill", "drop">>
        BY <2>1, <2>2, <4>1
      <4>3. \A j \in (i - 1) + 1 .. n - 1 : j \in 1 .. n - 1 /\ j + 1 \in i + 1 .. n
        BY <4>1
      <4>4. \A j \in (i - 1) + 1 .. n - 1 : ~StackMarks(u[j])
        BY <2>1, <2>2, <4>3
      <4> QED BY <4>1, <4>2, <4>4 DEF StackDue
    <3> QED BY <3>1, <3>2
  <2>3. ASSUME \A j \in 1 .. n : ~StackMarks(q[j]), l
        PROVE  StackDue(u, m, n)
    BY <2>1, <2>3 DEF StackDue
  <2> QED BY <1>3, <2>1, <2>2, <2>3 DEF StackDue
<1>4. ASSUME NEW i \in 1 .. k - 1, u[i][1] = "create"
      PROVE  StackDue(u, m, i)
  BY <1>1, <1>2, <1>3, <1>4
<1>5. ASSUME a
      PROVE  StackDue(u, m, k)
  BY <1>1, <1>2, <1>3, <1>5
<1>6. StackOrders(u, m, a)
  BY <1>1, <1>4, <1>5 DEF StackOrders
<1> QED BY <1>6 DEF u

LEMMA StackOrdersKeep ==
    ASSUME NEW S, NEW q \in Seq(S), NEW l, NEW m, NEW a, NEW b, StackOrders(q, l, a), l => m, b => a
    PROVE  StackOrders(q, m, b)
<1>1. Len(q) \in Nat
  OBVIOUS
<1>2. ASSUME NEW n \in Nat, StackDue(q, l, n)
      PROVE  StackDue(q, m, n)
  BY <1>2, StackDues
<1>3. \A i \in 1 .. Len(q) : i \in Nat
  OBVIOUS
<1> QED BY <1>1, <1>2, <1>3 DEF StackOrders

\* Round and round.
LEMMA HitsRound ==
    ASSUME NEW S \in Nat \ {0}, NEW n \in Nat
    PROVE  /\ n % S \in 0 .. S - 1 /\ n \div S \in Nat /\ 0 % S = 0
           /\ (n + 1) % S = IF (n % S) + 1 = S THEN 0 ELSE (n % S) + 1
<1>1. n % S \in 0 .. S - 1 /\ S > 0 /\ 0 % S = 0
  OBVIOUS
<1>2. n \div S \in Nat
  OBVIOUS
<1>3. n - (n % S) = (n \div S) * S
  BY <1>1
<1>4. PICK a \in Nat, r \in 0 .. S - 1 : a = n \div S /\ r = n % S /\ n = a * S + r
  BY <1>1, <1>2, <1>3
<1>5. \A m \in Nat, b \in Nat, t \in 0 .. S - 1 : m = b * S + t => m % S = t
  BY <1>1
<1>6. CASE r + 1 = S
  BY <1>4, <1>6, <1>5, <1>1, <1>2
<1>7. CASE r + 1 # S
  BY <1>4, <1>7, <1>5, <1>1, <1>2
<1> QED BY <1>6, <1>7

LEMMA StackClients ==
    /\ Stack!Client = {0, 1} /\ Stack!Own = 0 /\ Steps \in Nat \ {0} /\ Ticks \in Nat
    /\ \A x \in Stack!Message : Stack!Worth(x) \in Int
    /\ \A d \in Nat : <<"hurt", d>> \in Stack!Message /\ Stack!Worth(<<"hurt", d>>) = d
    /\ \A b \in BOOLEAN : /\ <<"fire", b>> \in Stack!Message /\ Stack!Worth(<<"fire", b>>) = 0
                          /\ <<"fall", b>> \in Stack!Message /\ Stack!Worth(<<"fall", b>>) = 0
    /\ \A s \in Stack!Skill : <<"skill", s>> \in Stack!Message /\ Stack!Worth(<<"skill", s>>) = 0
    /\ <<"create", "drop">> \in Stack!Message /\ Stack!Worth(<<"create", "drop">>) = 0
  BY GameAssumption DEF Stack!Client, Stack!Own, Stack!EsperAttacksAssumption, Stack!Message, Stack!Worth

\* The notifies of her animations, one after the other.
LEMMA StackLefts ==
    /\ Stack!All # Stack!Floating /\ Stack!All # << >> /\ Stack!Floating # << >>
    /\ \A s \in Stack!Skill : /\ Stack!Notifies[s] \in Stack!Left /\ Stack!Notifies[s] # << >>
                              /\ Stack!Notifies[s] # Stack!Floating /\ (Stack!Notifies[s] = Stack!All <=> s = "drop")
    /\ << >> \in Stack!Left /\ "no" \notin Stack!Skill
    /\ \A l \in Stack!Left : l # << >> =>
           /\ Tail(l) \in Stack!Left /\ Tail(l) # Stack!All
           /\ Head(l) = "spawn" => l = Stack!All /\ Tail(l) = Stack!Floating
           /\ Head(l) = "explode" => l = Stack!Floating /\ Tail(l) # << >> /\ Tail(l) # Stack!Floating
           /\ Head(l) \in {"push", "start", "end"} =>
                  l # Stack!All /\ l # Stack!Floating /\ Tail(l) # Stack!Floating
           /\ Head(l) \in {"push", "start"} => Tail(l) # << >>
           /\ Head(l) = "end" => Tail(l) = << >>
<1>1. Stack!All = <<"spawn", "explode", "end">> /\ Stack!Floating = <<"explode", "end">>
  BY DEF Stack!All, Stack!Notifies, Stack!Floating
<1>2. /\ Len(<<"spawn", "explode", "end">>) = 3 /\ Len(<<"explode", "end">>) = 2 /\ Len(<<"push", "end">>) = 2
      /\ Len(<<"start", "end">>) = 2 /\ Len(<<"end">>) = 1 /\ Len(<< >>) = 0
  OBVIOUS
<1>3. /\ Stack!All # Stack!Floating /\ Stack!All # << >> /\ Stack!Floating # << >>
  BY <1>1, <1>2
<1>4. ASSUME NEW s \in Stack!Skill
      PROVE  /\ Stack!Notifies[s] \in Stack!Left /\ Stack!Notifies[s] # << >>
             /\ Stack!Notifies[s] # Stack!Floating /\ (Stack!Notifies[s] = Stack!All <=> s = "drop")
  BY <1>3, <1>2, <1>1 DEF Stack!All, Stack!Left, Stack!Notifies, Stack!Skill
<1>5. << >> \in Stack!Left /\ "no" \notin Stack!Skill
  BY DEF Stack!Left, Stack!Skill
<1>6. ASSUME NEW l \in Stack!Left, l # << >>
      PROVE  /\ Tail(l) \in Stack!Left /\ Tail(l) # Stack!All
             /\ Head(l) = "spawn" => l = Stack!All /\ Tail(l) = Stack!Floating
             /\ Head(l) = "explode" => l = Stack!Floating /\ Tail(l) # << >> /\ Tail(l) # Stack!Floating
             /\ Head(l) \in {"push", "start", "end"} =>
                    l # Stack!All /\ l # Stack!Floating /\ Tail(l) # Stack!Floating
             /\ Head(l) \in {"push", "start"} => Tail(l) # << >>
             /\ Head(l) = "end" => Tail(l) = << >>
  <2>1. CASE l = Stack!All
    BY <1>1, <2>1, <1>3 DEF Stack!Left
  <2>2. CASE l = Stack!Floating
    BY <1>1, <2>2, <1>2 DEF Stack!Left
  <2>3. CASE l = <<"push", "end">>
    BY <2>3, <1>1, <1>2 DEF Stack!Left
  <2>4. CASE l = <<"start", "end">>
    BY <2>4, <1>1, <1>2 DEF Stack!Left
  <2>5. CASE l = <<"end">>
    BY <2>5, <1>1, <1>2, <1>3 DEF Stack!Left
  <2> QED BY <1>6, <2>1, <2>2, <2>3, <2>4, <2>5 DEF Stack!Left
<1> QED BY <1>3, <1>4, <1>5, <1>6

\* The two clients' drops, and what the calls tell of them.
StackFits(w) ==
    /\ w \in Stack!Played /\ (w.skill = "no" <=> w.left = << >>)
    /\ w.left \in {Stack!All, Stack!Floating} => w.skill = "drop"
StackFloats(w) == (w.last <=> w.left = Stack!Floating) /\ w.drops = IF w.last THEN 1 ELSE 0
StackPlays(w) == (w.last => w.left \in {Stack!All, Stack!Floating}) /\ w.drops = IF w.last THEN 1 ELSE 0
StackAwaits(w) == w.left \in {Stack!All, Stack!Floating} /\ ~w.last
StackFollows == StackPlays(v1[1]) /\ StackOrders(v4, StackAwaits(v1[1]), v1[0].left = Stack!All)
StackOwes == Stack!Owes(v4, v3)

LEMMA StackHas ==
    ASSUME Stack!StackInv
    PROVE  /\ Stack!Typed /\ Stack!Round /\ StackOwes /\ \A c \in Stack!Client : StackFits(v1[c])
           /\ v1 \in [Stack!Client -> Stack!Played] /\ v4 \in Seq(Stack!Message) /\ v3 \in Int /\ v7 \in Nat
           /\ v8 \in BOOLEAN /\ v9 \in BOOLEAN /\ 0 \in Stack!Client /\ 1 \in Stack!Client
           /\ ~v8 => StackFloats(v1[0])
           /\ ~v8 /\ ~v9 => StackFollows
<1>1. Stack!Typed /\ Stack!Round /\ StackOwes
  BY DEF Stack!StackInv, StackOwes
<1>2. \A c \in Stack!Client : StackFits(v1[c])
  BY <1>1 DEF Stack!Typed, StackFits, Stack!Dropping
<1>3. ~v8 => StackFloats(v1[0])
  BY StackClients DEF Stack!StackInv, Stack!Floats, StackFloats
<1>4. ASSUME ~v8, ~v9
      PROVE  StackFollows
  <2>1. Stack!Follows
    BY <1>4 DEF Stack!StackInv
  <2>2. DOMAIN v4 = 1 .. Len(v4) /\ Len(v4) \in Nat
    BY <1>1 DEF Stack!Typed
  <2>3. ASSUME NEW n, Stack!Due(n)
        PROVE  StackDue(v4, StackAwaits(v1[1]), n)
    BY <2>3 DEF Stack!Due, StackDue, Stack!Marks, StackMarks, StackAwaits
  <2>4. StackPlays(v1[1])
    BY <2>1 DEF Stack!Follows, StackPlays
  <2>5. StackOrders(v4, StackAwaits(v1[1]), v1[0].left = Stack!All)
    BY <2>1, <2>2, <2>3, StackClients DEF Stack!Follows, StackOrders
  <2> QED BY <2>4, <2>5 DEF StackFollows
<1> QED BY <1>1, <1>2, <1>3, <1>4, StackClients DEF Stack!Typed

LEMMA StackIs ==
    ASSUME Stack!Typed', Stack!Round', StackOwes', ~v8' => StackFloats(v1'[0]), ~v8' /\ ~v9' => StackFollows'
    PROVE  Stack!StackInv'
<1>1. Stack!Owes(v4, v3)'
  BY DEF StackOwes
<1>2. ~v8' => Stack!Floats'
  BY StackClients DEF Stack!Floats, StackFloats
<1>3. ASSUME ~v8', ~v9'
      PROVE  Stack!Follows'
  <2>1. StackPlays(v1'[1]) /\ StackOrders(v4', StackAwaits(v1'[1]), v1'[0].left = Stack!All)
    BY <1>3 DEF StackFollows
  <2>2. DOMAIN v4' = 1 .. Len(v4') /\ Len(v4') \in Nat
    BY DEF Stack!Typed, Stack!Message, Stack!Skill
  <2>3. ASSUME NEW n, StackDue(v4', StackAwaits(v1'[1]), n)
        PROVE  Stack!Due(n)'
    BY <2>3 DEF Stack!Due, StackDue, Stack!Marks, StackMarks, StackAwaits, Stack!All, Stack!Floating, Stack!Notifies
  <2>4. (v1'[1].last => v1'[1].left \in {Stack!All, Stack!Floating}) /\ v1'[1].drops = IF v1'[1].last THEN 1 ELSE 0
    BY <2>1 DEF StackPlays
  <2>5. /\ \A i \in DOMAIN v4' : v4'[i][1] = "create" => StackDue(v4', StackAwaits(v1'[1]), i)
        /\ v1'[0].left = Stack!All => StackDue(v4', StackAwaits(v1'[1]), Len(v4') + 1)
    BY <2>1, <2>2 DEF StackOrders
  <2> QED BY <2>3, <2>4, <2>5, StackClients DEF Stack!Follows
<1> QED BY <1>1, <1>2, <1>3 DEF Stack!StackInv

LEMMA StackTells ==
    ASSUME Stack!StackInv, NEW x \in Stack!Message, v4' = Append(v4, x), v3' = v3 + Stack!Worth(x)
    PROVE  v3' \in Int /\ v4' \in Seq(Stack!Message) /\ StackOwes'
<1>1. v3 \in Int /\ v4 \in Seq(Stack!Message) /\ StackOwes /\ Stack!Worth(x) \in Int
  BY StackHas, StackClients
<1>2. PICK q, n, u, m : q = v4 /\ n = v3 /\ u = v4' /\ m = v3'
  OBVIOUS
<1>3. Stack!Owes(q, n) /\ q \in Seq(Stack!Message) /\ n \in Int
  BY <1>1, <1>2 DEF StackOwes
<1>4. Stack!Owes(Append(q, x), n + Stack!Worth(x))
  BY <1>1, <1>3, HitsMore
<1>5. Stack!Owes(u, m)
  BY <1>2, <1>4
<1>6. StackOwes'
  BY <1>2, <1>5 DEF StackOwes, Stack!Owes, Stack!Worth
<1> QED BY <1>1, <1>6

LEMMA StackSilent ==
    ASSUME Stack!StackInv, v2' = v2, v3' = v3, v4' = v4, v7' = v7
    PROVE  v3' \in Int /\ v4' \in Seq(Stack!Message) /\ v7' \in Nat /\ Stack!Round' /\ StackOwes'
  BY StackHas DEF Stack!Round, StackOwes, Stack!Owes, Stack!Worth

\* The stack of one hit more, or of none.
LEMMA StackRound ==
    ASSUME Stack!StackInv, v7' = v7 + 1, v2' = Stack!Stacked(v2)[2]
    PROVE  Stack!Round' /\ v2 \in Nat
<1>1. v7 \in Nat /\ Stack!Round /\ Steps \in Nat \ {0}
  BY StackHas, StackClients
<1>2. PICK S, n, s, t : S = Steps /\ n = v7 /\ s = v2 /\ t = v2' /\ S \in Nat \ {0} /\ n \in Nat
  BY <1>1
<1>3. s = IF n < 4 * S THEN n ELSE 3 * S + ((n - 4 * S) % S)
  BY <1>1, <1>2 DEF Stack!Round
<1>4. t = IF s + 1 >= 4 * S THEN 3 * S ELSE s + 1
  BY <1>2 DEF Stack!Stacked
<1>5. CASE n < 4 * S
  <2>1. s = n /\ s \in Nat
    BY <1>2, <1>3, <1>5
  <2>2. CASE n + 1 < 4 * S
    BY <1>2, <1>4, <2>1, <2>2 DEF Stack!Round
  <2>3. CASE n + 1 = 4 * S
    BY <1>2, <1>4, <2>1, <2>3, HitsRound DEF Stack!Round
  <2> QED BY <1>2, <1>5, <2>2, <2>3
<1>6. CASE ~(n < 4 * S)
  <2>1. PICK k \in Nat : k = n - 4 * S
    BY <1>2, <1>6
  <2>2. /\ k % S \in 0 .. S - 1
        /\ (k + 1) % S = IF (k % S) + 1 = S THEN 0 ELSE (k % S) + 1
    BY <1>2, HitsRound
  <2>3. PICK r \in 0 .. S - 1 : r = k % S
    BY <1>2, <2>2
  <2>4. s = 3 * S + r
    BY <1>2, <1>3, <1>6, <2>1, <2>3
  <2>5. t = 3 * S + ((k + 1) % S)
    BY <1>2, <1>4, <2>4, <2>2, <2>3
  <2>6. (n + 1) - 4 * S = k + 1 /\ ~(n + 1 < 4 * S) /\ s \in Nat
    BY <1>2, <1>6, <2>1, <2>4
  <2> QED BY <1>2, <2>5, <2>6 DEF Stack!Round
<1> QED BY <1>2, <1>5, <1>6

LEMMA StackSize == Stack!StackInv => v2 \in Nat
<1> SUFFICES ASSUME Stack!StackInv PROVE v2 \in Nat
  OBVIOUS
<1>1. v7 \in Nat /\ Stack!Round /\ Steps \in Nat \ {0}
  BY StackHas, StackClients
<1>2. CASE v7 < 4 * Steps
  BY <1>1, <1>2 DEF Stack!Round
<1>3. CASE ~(v7 < 4 * Steps)
  <2>1. PICK k \in Nat : k = v7 - 4 * Steps
    BY <1>1, <1>3
  <2>2. k % Steps \in Nat
    BY <1>1, HitsRound
  <2>3. v2 = 3 * Steps + (k % Steps)
    BY <1>1, <1>3, <2>1 DEF Stack!Round
  <2> QED BY <1>1, <2>2, <2>3
<1> QED BY <1>2, <1>3

\* Whatever she hits with: what it counts for is told.
LEMMA StackHurts ==
    ASSUME Stack!StackInv, NEW c \in Stack!Client, NEW e \in BOOLEAN, Stack!MayHurt(c, e)
    PROVE  /\ v3' \in Int /\ v4' \in Seq(Stack!Message) /\ v7' \in Nat /\ Stack!Round' /\ StackOwes'
           /\ c = 1 => v4' = v4
           /\ v4' = v4 \/ \E x \in Stack!Message : ~StackMarks(x) /\ v4' = Append(v4, x)
<1>1. CASE v2' = v2 /\ v3' = v3 /\ v4' = v4 /\ v7' = v7
  BY <1>1, StackSilent
<1>2. CASE c = 0 /\ Stack!TakeDamage(e)
  <2>1. v2 \in Nat /\ v3 \in Int /\ v7 \in Nat /\ Steps \in Nat \ {0}
    BY StackSize, StackHas, StackClients
  <2>2. PICK p : p = IF e THEN Stack!Explosion(v2) ELSE Stack!Stacked(v2)
    OBVIOUS
  <2>3. /\ v2' = p[2] /\ v3' = v3 + 1 + p[1] /\ v4' = Append(v4, <<"hurt", 1 + p[1]>>)
        /\ v7' = IF e THEN 0 ELSE v7 + 1
    BY <1>2, <2>2 DEF Stack!TakeDamage, Stack!Tell
  <2>4. p[1] \in Nat
    BY <2>1, HitsRound, <2>2 DEF Stack!Explosion, Stack!Stacked
  <2>5. PICK x : x = <<"hurt", 1 + p[1]>>
    OBVIOUS
  <2>6. x \in Stack!Message /\ Stack!Worth(x) = 1 + p[1] /\ x[1] = "hurt"
    BY <2>4, <2>5, StackClients
  <2>7. v4' = Append(v4, x) /\ v3' = v3 + Stack!Worth(x) /\ ~StackMarks(x)
    BY <2>1, <2>3, <2>4, <2>5, <2>6 DEF StackMarks
  <2>8. v3' \in Int /\ v4' \in Seq(Stack!Message) /\ StackOwes'
    BY <2>6, <2>7, StackTells
  <2>9. Stack!Round' /\ v7' \in Nat
    BY <2>2, <2>3, <2>1, StackRound DEF Stack!Explosion, Stack!Round
  <2> QED BY <1>2, <2>6, <2>7, <2>8, <2>9
<1> QED BY <1>1, <1>2, StackClients DEF Stack!MayHurt, Stack!Hurt, Stack!Misses

\* What a step counts and tells, and how it leaves the animation of one client.
StackCounts == v3' \in Int /\ v4' \in Seq(Stack!Message) /\ v7' \in Nat /\ Stack!Round' /\ StackOwes'
StackApart(w) == w.left \notin {Stack!All, Stack!Floating}
StackCuts == v8' \in BOOLEAN /\ v9' \in BOOLEAN /\ (v8 => v8') /\ (v9 => v9')

LEMMA StackTyped ==
    ASSUME Stack!StackInv, NEW c \in Stack!Client, NEW w, StackFits(w), Stack!Change(c, w), StackCounts, StackCuts
    PROVE  /\ Stack!Typed' /\ v1'[c] = w /\ \A k \in {0, 1} \ {c} : v1'[k] = v1[k]
<1>1. v1 \in [Stack!Client -> Stack!Played] /\ v1' = [v1 EXCEPT ![c] = w] /\ w \in Stack!Played
  BY StackHas DEF Stack!Change, StackFits
<1>2. v1' \in [Stack!Client -> Stack!Played] /\ v1'[c] = w /\ \A k \in {0, 1} \ {c} : v1'[k] = v1[k]
  BY <1>1, StackClients
<1>3. ASSUME NEW k \in Stack!Client
      PROVE  StackFits(v1'[k])
  BY <1>2, <1>3, StackHas, StackClients
<1>4. \A k \in Stack!Client : /\ v1'[k].skill = "no" <=> v1'[k].left = << >>
                              /\ v1'[k].left \in {Stack!All, Stack!Floating} => v1'[k].skill = "drop"
  BY <1>3 DEF StackFits
<1>5. v3' \in Int /\ v4' \in Seq(Stack!Message) /\ v7' \in Nat /\ v8' \in BOOLEAN /\ v9' \in BOOLEAN
  BY DEF StackCounts, StackCuts
<1> QED
  BY <1>2, <1>4, <1>5
  DEF Stack!Typed, Stack!Dropping, Stack!Client, Stack!Played, Stack!Message, Stack!Skill, Stack!Left, Stack!All,
      Stack!Floating, Stack!Notifies

\* Most steps leave the drops alone.
LEMMA StackOther ==
    ASSUME Stack!StackInv, NEW c \in Stack!Client, NEW u, NEW w, u = v1[c], StackFits(w), Stack!Change(c, w),
           StackCounts, StackCuts, w.last = u.last, w.drops = u.drops,
           ~v8' => w.left = u.left \/ (StackApart(u) /\ StackApart(w)),
           v4' = v4 \/ (c = 0 /\ \E x \in Stack!Message : ~StackMarks(x) /\ v4' = Append(v4, x))
    PROVE  Stack!StackInv'
<1>1. /\ Stack!Typed' /\ v1'[c] = w /\ \A k \in {0, 1} \ {c} : v1'[k] = v1[k]
  BY StackTyped
<1>2. Stack!Round' /\ StackOwes' /\ c \in {0, 1}
  BY StackClients DEF StackCounts
<1>3. ASSUME ~v8'
      PROVE  StackFloats(v1'[0])
  BY <1>3, StackHas, <1>1, <1>2 DEF StackCuts, StackFloats, StackApart
<1>4. ASSUME ~v8', ~v9'
      PROVE  StackFollows'
  <2>1. StackFollows /\ v4 \in Seq(Stack!Message)
    BY <1>4, StackHas DEF StackCuts
  <2>2. StackPlays(v1[1]) /\ StackOrders(v4, StackAwaits(v1[1]), v1[0].left = Stack!All)
    BY <2>1 DEF StackFollows
  <2>3. PICK l \in BOOLEAN, m \in BOOLEAN, a \in BOOLEAN, b \in BOOLEAN :
          /\ l = StackAwaits(v1[1]) /\ m = StackAwaits(v1'[1])
          /\ a = (v1[0].left = Stack!All) /\ b = (v1'[0].left = Stack!All)
    BY DEF StackAwaits
  <2>4. StackPlays(v1'[1]) /\ (l => m) /\ (b => a)
    BY <1>1, <1>4, <2>2, <2>3, <1>2 DEF StackPlays, StackAwaits, StackApart
  <2>5. PICK q, p : q = v4 /\ p = v4'
    OBVIOUS
  <2>6. StackOrders(q, l, a) /\ q \in Seq(Stack!Message)
    BY <2>1, <2>2, <2>3, <2>5
  <2>7. StackOrders(p, m, b)
    <3>1. CASE v4' = v4
      BY <2>4, <2>6, StackOrdersKeep, <2>5, <3>1
    <3>2. CASE c = 0 /\ \E x \in Stack!Message : ~StackMarks(x) /\ v4' = Append(v4, x)
      <4>1. PICK x \in Stack!Message : ~StackMarks(x) /\ v4' = Append(v4, x)
        BY <3>2
      <4>2. x[1] # "create"
        BY <4>1 DEF StackMarks
      <4>3. StackOrders(Append(q, x), l, b)
        BY <2>4, <2>6, <4>1, <4>2, StackOrdersMore
      <4>4. p = Append(q, x) /\ p \in Seq(Stack!Message)
        BY <2>5, <2>6, <4>1
      <4> QED BY <2>4, <4>3, <4>4, StackOrdersKeep
    <3> QED BY <3>1, <3>2
  <2>8. StackOrders(v4', StackAwaits(v1'[1]), v1'[0].left = Stack!All)
    BY <2>3, <2>5, <2>7
  <2> QED BY <2>4, <2>8 DEF StackFollows, StackPlays, StackAwaits, StackOrders, StackDue, StackMarks,
          Stack!All, Stack!Floating, Stack!Notifies
<1> QED BY <1>1, <1>2, <1>3, <1>4, StackIs

StackTouch(u, w, b, n) ==
    \/ w = [u EXCEPT !.firing = b] \/ w = [u EXCEPT !.ball = b] \/ w = [u EXCEPT !.stun = b]
    \/ w = [u EXCEPT !.down = b] \/ w = [u EXCEPT !.beam = n]

LEMMA StackTouched ==
    ASSUME NEW u, StackFits(u), NEW b \in BOOLEAN, NEW n \in Nat, NEW w, StackTouch(u, w, b, n)
    PROVE  StackFits(w) /\ w.last = u.last /\ w.drops = u.drops /\ w.left = u.left /\ w.skill = u.skill
  BY DEF StackFits, Stack!Played, StackTouch

\* She has something to tell that hurts nobody.
LEMMA StackSays ==
    ASSUME Stack!StackInv, NEW x \in Stack!Message, Stack!Tell(x), Stack!Worth(x) = 0, v2' = v2, v3' = v3, v7' = v7
    PROVE  StackCounts /\ v4' = Append(v4, x)
  BY StackHas, StackTells DEF Stack!Tell, Stack!Round, StackCounts

LEMMA StackFires ==
    ASSUME Stack!StackInv, NEW on \in BOOLEAN, Stack!Esper_Attack(on)
    PROVE  Stack!StackInv'
<1>1. PICK u, w, x, b : /\ u = v1[0] /\ b = (IF on THEN u.firing \/ ~u.down ELSE FALSE)
                        /\ w = [u EXCEPT !.firing = b] /\ x = <<"fire", on>>
  OBVIOUS
<1>2. StackFits(u) /\ 0 \in Stack!Client /\ v8 \in BOOLEAN /\ v9 \in BOOLEAN
  BY <1>1, StackHas
<1>3. b \in BOOLEAN
  BY <1>1
<1>4. Stack!Change(0, w) /\ Stack!Tell(x) /\ v2' = v2 /\ v3' = v3 /\ v7' = v7 /\ v8' = v8 /\ v9' = v9
  BY <1>1, StackClients DEF Stack!Esper_Attack, Stack!Fires
<1>5. StackFits(w) /\ w.last = u.last /\ w.drops = u.drops /\ w.left = u.left
  <2>1. 0 \in Nat /\ StackTouch(u, w, b, 0)
    BY <1>1 DEF StackTouch
  <2> QED BY <1>2, <1>3, <2>1, StackTouched
<1>6. x \in Stack!Message /\ Stack!Worth(x) = 0 /\ ~StackMarks(x)
  BY <1>1, StackClients DEF StackMarks
<1>7. StackCounts /\ v4' = Append(v4, x)
  BY <1>4, <1>6, StackSays
<1>8. StackCuts
  BY <1>2, <1>4 DEF StackCuts
<1> QED BY <1>1, <1>2, <1>4, <1>5, <1>6, <1>7, <1>8, StackOther

\* One of the clients does something that is not heard, and the enemy is hurt or not.
LEMMA StackActs ==
    ASSUME Stack!StackInv, NEW c \in Stack!Client, NEW u, u = v1[c], NEW w, StackFits(w), Stack!Change(c, w),
           NEW e \in BOOLEAN, Stack!MayHurt(c, e), v8' = v8, v9' = v9,
           w.last = u.last, w.drops = u.drops, w.left = u.left \/ (StackApart(u) /\ StackApart(w))
    PROVE  Stack!StackInv'
  BY StackHurts, StackHas, StackClients, StackOther DEF StackCounts, StackCuts

LEMMA StackSmall ==
    ASSUME Stack!StackInv, NEW c \in Stack!Client,
           \/ Stack!OnAttackCheck(c) \/ Stack!OnComponentHit(c) \/ Stack!SelfHealingAnimEnd(c)
           \/ Stack!PsychicForceStun(c) \/ Stack!ShockWaveDamaging(c)
    PROVE  Stack!StackInv'
<1>1. PICK u : u = v1[c]
  OBVIOUS
<1>2. StackFits(u) /\ u.beam \in Nat /\ 0 \in Nat /\ TRUE \in BOOLEAN /\ FALSE \in BOOLEAN
  BY <1>1, StackHas DEF StackFits, Stack!Played
<1>3. CASE Stack!OnAttackCheck(c)
  <2>1. PICK w : w = [u EXCEPT !.ball = TRUE]
    OBVIOUS
  <2>4. StackTouch(u, w, TRUE, 0)
    BY <2>1 DEF StackTouch
  <2>2. StackFits(w) /\ w.last = u.last /\ w.drops = u.drops /\ w.left = u.left
    BY <1>2, <2>4, StackTouched
  <2>3. Stack!Change(c, w) /\ Stack!MayHurt(c, FALSE) /\ v8' = v8 /\ v9' = v9
    BY <1>1, <1>3, <2>1 DEF Stack!OnAttackCheck, Stack!MayHurt, Stack!Misses
  <2> QED BY <1>1, <1>2, <2>2, <2>3, StackActs
<1>4. CASE Stack!OnComponentHit(c)
  <2>1. PICK w : w = [u EXCEPT !.ball = FALSE]
    OBVIOUS
  <2>4. StackTouch(u, w, FALSE, 0)
    BY <2>1 DEF StackTouch
  <2>2. StackFits(w) /\ w.last = u.last /\ w.drops = u.drops /\ w.left = u.left
    BY <1>2, <2>4, StackTouched
  <2>3. Stack!Change(c, w) /\ Stack!MayHurt(c, FALSE) /\ v8' = v8 /\ v9' = v9
    BY <1>1, <1>4, <2>1 DEF Stack!OnComponentHit
  <2> QED BY <1>1, <1>2, <2>2, <2>3, StackActs
<1>5. CASE Stack!SelfHealingAnimEnd(c)
  <2>1. PICK w : w = [u EXCEPT !.down = FALSE]
    OBVIOUS
  <2>4. StackTouch(u, w, FALSE, 0)
    BY <2>1 DEF StackTouch
  <2>2. StackFits(w) /\ w.last = u.last /\ w.drops = u.drops /\ w.left = u.left
    BY <1>2, <2>4, StackTouched
  <2>3. Stack!Change(c, w) /\ Stack!MayHurt(c, FALSE) /\ v8' = v8 /\ v9' = v9
    BY <1>1, <1>5, <2>1 DEF Stack!SelfHealingAnimEnd, Stack!MayHurt
  <2> QED BY <1>1, <1>2, <2>2, <2>3, StackActs
<1>6. CASE Stack!PsychicForceStun(c)
  <2>1. PICK w : w = [u EXCEPT !.stun = FALSE]
    OBVIOUS
  <2>4. StackTouch(u, w, FALSE, 0)
    BY <2>1 DEF StackTouch
  <2>2. StackFits(w) /\ w.last = u.last /\ w.drops = u.drops /\ w.left = u.left
    BY <1>2, <2>4, StackTouched
  <2>3. Stack!Change(c, w) /\ Stack!MayHurt(c, FALSE) /\ v8' = v8 /\ v9' = v9
    BY <1>1, <1>6, <2>1 DEF Stack!PsychicForceStun, Stack!MayHurt
  <2> QED BY <1>1, <1>2, <2>2, <2>3, StackActs
<1>7. CASE Stack!ShockWaveDamaging(c)
  <2>1. PICK w, n : w = [u EXCEPT !.beam = n] /\ n = u.beam - 1
    OBVIOUS
  <2>4. n \in Nat
    BY <1>1, <1>2, <1>7, <2>1 DEF Stack!ShockWaveDamaging
  <2>2. StackFits(w) /\ w.last = u.last /\ w.drops = u.drops /\ w.left = u.left
    <3>1. PICK b \in BOOLEAN : StackTouch(u, w, b, n)
      BY <2>1 DEF StackTouch
    <3> QED BY <1>2, <2>4, <3>1, StackTouched
  <2>3. Stack!Change(c, w) /\ Stack!MayHurt(c, FALSE) /\ v8' = v8 /\ v9' = v9
    BY <1>1, <1>7, <2>1 DEF Stack!ShockWaveDamaging
  <2> QED BY <1>1, <1>2, <2>2, <2>3, StackActs
<1> QED BY <1>3, <1>4, <1>5, <1>6, <1>7

\* An animation goes on with its next notify.
StackGoesOn(u, y, w) ==
    /\ y \in Stack!Played /\ y.left = u.left /\ w = [y EXCEPT !.left = Tail(y.left)]
    /\ y.skill = IF Tail(u.left) = << >> THEN "no" ELSE u.skill

LEMMA StackNotified ==
    ASSUME NEW u, StackFits(u), u.left # << >>, NEW y, NEW w, StackGoesOn(u, y, w)
    PROVE  /\ StackFits(w) /\ w.left = Tail(u.left) /\ w.last = y.last /\ w.drops = y.drops
           /\ Head(u.left) \in {"push", "start", "end"} => StackApart(u) /\ StackApart(w)
<1>0. /\ y \in Stack!Played /\ y.left = u.left /\ w = [y EXCEPT !.left = Tail(y.left)]
      /\ y.skill = IF Tail(u.left) = << >> THEN "no" ELSE u.skill
  BY DEF StackGoesOn
<1>1. PICK l : l = u.left
  OBVIOUS
<1>2. l \in Stack!Left /\ l # << >>
  BY <1>1 DEF StackFits, Stack!Played
<1>3. Tail(l) \in Stack!Left /\ Tail(l) # Stack!All
  BY <1>2, StackLefts
<1>4. w \in Stack!Played /\ w.left = Tail(l) /\ w.last = y.last /\ w.drops = y.drops /\ w.skill = y.skill
  BY <1>0, <1>1, <1>3 DEF Stack!Played
<1>5. u.skill # "no" /\ (l \in {Stack!All, Stack!Floating} => u.skill = "drop")
  BY <1>1, <1>2 DEF StackFits
<1>6. Tail(l) = Stack!Floating => l = Stack!All
  <2>1. Head(l) \in {"spawn", "explode", "push", "start", "end"}
    BY <1>2 DEF Stack!All, Stack!Notifies, Stack!Left, Stack!Floating
  <2> QED BY <1>2, <2>1, StackLefts
<1>7. StackFits(w)
  BY <1>0, <1>1, <1>4, <1>5, <1>3, <1>6, StackLefts DEF StackFits
<1>8. Head(l) \in {"push", "start", "end"} => StackApart(u) /\ StackApart(w)
  BY <1>1, <1>2, <1>3, <1>4, StackLefts DEF StackApart
<1> QED BY <1>1, <1>4, <1>7, <1>8

LEMMA StackPlainly ==
    ASSUME Stack!StackInv, NEW c \in Stack!Client,
           Stack!PsychicForceDamaging(c) \/ Stack!ShockWaveDamagingStart(c) \/ Stack!SkillEnd(c)
    PROVE  Stack!StackInv'
<1>1. PICK u : u = v1[c]
  OBVIOUS
<1>2. StackFits(u) /\ u \in Stack!Played /\ Ticks \in Nat
  BY <1>1, StackHas, StackClients DEF StackFits
<1>3. CASE Stack!PsychicForceDamaging(c)
  <2>1. PICK y, w : y = [u EXCEPT !.stun = TRUE] /\ w = [y EXCEPT !.left = Tail(y.left)]
    OBVIOUS
  <2>2. y \in Stack!Played /\ y.left = u.left /\ y.last = u.last /\ y.drops = u.drops /\ y.skill = u.skill
    BY <1>2, <2>1 DEF Stack!Played
  <2>3. u.left # << >> /\ Head(u.left) = "push" /\ Stack!Change(c, w) /\ Stack!MayHurt(c, TRUE) /\ v8' = v8 /\ v9' = v9
    BY <1>1, <1>3, <2>1 DEF Stack!PsychicForceDamaging, Stack!Notified
  <2>4. Tail(u.left) # << >>
    BY <1>2, <2>3, StackLefts DEF Stack!Played
  <2>5. StackFits(w) /\ w.last = u.last /\ w.drops = u.drops /\ StackApart(u) /\ StackApart(w)
    <3>1. StackGoesOn(u, y, w)
      BY <2>1, <2>2, <2>4 DEF StackGoesOn
    <3> QED BY <1>2, <2>2, <2>3, <3>1, StackNotified
  <2> QED BY <1>1, <2>3, <2>5, StackActs
<1>4. CASE Stack!ShockWaveDamagingStart(c)
  <2>1. PICK y, w : y = [u EXCEPT !.beam = Ticks] /\ w = [y EXCEPT !.left = Tail(y.left)]
    OBVIOUS
  <2>2. y \in Stack!Played /\ y.left = u.left /\ y.last = u.last /\ y.drops = u.drops /\ y.skill = u.skill
    BY <1>2, <2>1 DEF Stack!Played
  <2>3. u.left # << >> /\ Head(u.left) = "start" /\ Stack!Change(c, w) /\ Stack!MayHurt(c, FALSE) /\ v8' = v8 /\ v9' = v9
    BY <1>1, <1>4, <2>1 DEF Stack!ShockWaveDamagingStart, Stack!Notified, Stack!MayHurt
  <2>4. Tail(u.left) # << >>
    BY <1>2, <2>3, StackLefts DEF Stack!Played
  <2>5. StackFits(w) /\ w.last = u.last /\ w.drops = u.drops /\ StackApart(u) /\ StackApart(w)
    <3>1. StackGoesOn(u, y, w)
      BY <2>1, <2>2, <2>4 DEF StackGoesOn
    <3> QED BY <1>2, <2>2, <2>3, <3>1, StackNotified
  <2> QED BY <1>1, <2>3, <2>5, StackActs
<1>5. CASE Stack!SkillEnd(c)
  <2>1. PICK y, w : y = [u EXCEPT !.skill = "no"] /\ w = [y EXCEPT !.left = Tail(y.left)]
    OBVIOUS
  <2>2. y \in Stack!Played /\ y.left = u.left /\ y.last = u.last /\ y.drops = u.drops /\ y.skill = "no"
    BY <1>2, <2>1 DEF Stack!Played
  <2>3. u.left # << >> /\ Head(u.left) = "end" /\ Stack!Change(c, w) /\ Stack!MayHurt(c, FALSE) /\ v8' = v8 /\ v9' = v9
    BY <1>1, <1>5, <2>1 DEF Stack!SkillEnd, Stack!Notified, Stack!MayHurt
  <2>4. Tail(u.left) = << >>
    BY <1>2, <2>3, StackLefts DEF Stack!Played
  <2>5. StackFits(w) /\ w.last = u.last /\ w.drops = u.drops /\ StackApart(u) /\ StackApart(w)
    <3>1. StackGoesOn(u, y, w)
      BY <2>1, <2>2, <2>4 DEF StackGoesOn
    <3> QED BY <1>2, <2>2, <2>3, <3>1, StackNotified
  <2> QED BY <1>1, <2>3, <2>5, StackActs
<1> QED BY <1>3, <1>4, <1>5

\* She falls.
LEMMA StackFallen ==
    ASSUME NEW u, StackFits(u), NEW short, NEW w, w = Stack!Falls(u, short)
    PROVE  /\ StackFits(w) /\ w.last = u.last /\ w.drops = u.drops
           /\ w.left = u.left \/ (short /\ w.left = << >> /\ StackApart(w))
           /\ u.skill # "drop" => StackApart(u)
  BY StackLefts DEF StackFits, Stack!Falls, Stack!Played, StackApart

LEMMA StackFalls ==
    ASSUME Stack!StackInv, NEW short \in BOOLEAN, Stack!RPCSelfHealing(short)
    PROVE  Stack!StackInv'
<1>1. PICK u, w, x : u = v1[0] /\ w = Stack!Falls(u, short) /\ x = <<"fall", short>>
  OBVIOUS
<1>2. StackFits(u) /\ 0 \in Stack!Client /\ v8 \in BOOLEAN /\ v9 \in BOOLEAN
  BY <1>1, StackHas
<1>3. /\ Stack!Change(0, w) /\ Stack!Tell(x) /\ v2' = v2 /\ v3' = v3 /\ v7' = v7 /\ v9' = v9
      /\ v8' = (v8 \/ (short /\ u.skill = "drop"))
  BY <1>1, StackClients DEF Stack!RPCSelfHealing, Stack!Dropping
<1>4. v8' \in BOOLEAN /\ (v8 => v8') /\ (~v8' => ~short \/ u.skill # "drop")
  BY <1>3, <1>2
<1>5. /\ StackFits(w) /\ w.last = u.last /\ w.drops = u.drops
      /\ ~v8' => w.left = u.left \/ (StackApart(u) /\ StackApart(w))
  BY <1>1, <1>2, <1>4, StackFallen
<1>6. x \in Stack!Message /\ Stack!Worth(x) = 0 /\ ~StackMarks(x)
  BY <1>1, StackClients DEF StackMarks
<1>7. StackCounts /\ v4' = Append(v4, x)
  BY <1>3, <1>6, StackSays
<1>8. StackCuts
  BY <1>2, <1>3, <1>4 DEF StackCuts
<1> QED BY <1>1, <1>2, <1>3, <1>5, <1>6, <1>7, <1>8, StackOther

LEMMA StackFollowing ==
    ASSUME StackPlays(v1'[1]), StackOrders(v4', StackAwaits(v1'[1]), v1'[0].left = Stack!All)
    PROVE  StackFollows'
BY DEF StackFollows, StackPlays, StackAwaits, StackOrders, StackDue, StackMarks, Stack!All, Stack!Floating, Stack!Notifies

\* Her client presses for a skill while no other one goes on.
LEMMA StackPressed ==
    ASSUME Stack!StackInv, NEW s \in Stack!Skill, Stack!Press(s)
    PROVE  Stack!StackInv'
<1>1. PICK u, w, x : u = v1[0] /\ w = Stack!Begins(u, s) /\ x = <<"skill", s>>
  OBVIOUS
<1>2. StackFits(u) /\ 0 \in Stack!Client /\ v8 \in BOOLEAN /\ v9 \in BOOLEAN
  BY <1>1, StackHas
<1>3. /\ Stack!Change(0, w) /\ Stack!Tell(x) /\ v2' = v2 /\ v3' = v3 /\ v7' = v7 /\ v8' = v8 /\ v9' = v9
      /\ u.skill = "no"
  BY <1>1, StackClients DEF Stack!Press
<1>4. u \in Stack!Played /\ u.left = << >>
  BY <1>2, <1>3 DEF StackFits
<1>5. PICK n : n = Stack!Notifies[s]
  OBVIOUS
<1>6. n \in Stack!Left /\ n # << >> /\ n # Stack!Floating /\ (n = Stack!All <=> s = "drop") /\ s # "no"
  BY <1>5, StackLefts
<1>7. w \in Stack!Played /\ w.left = n /\ w.skill = s /\ w.last = u.last /\ w.drops = u.drops
  BY <1>1, <1>4, <1>5, <1>6 DEF Stack!Begins, Stack!Played
<1>8. StackFits(w)
  BY <1>6, <1>7 DEF StackFits
<1>9. x \in Stack!Message /\ Stack!Worth(x) = 0 /\ x[1] = "skill" /\ (s = "drop" => x = <<"skill", "drop">>)
  BY <1>1, StackClients
<1>10. StackCounts /\ v4' = Append(v4, x)
  BY <1>3, <1>9, StackSays
<1>11. StackCuts
  BY <1>2, <1>3 DEF StackCuts
<1>12. Stack!Typed' /\ v1'[0] = w /\ v1'[1] = v1[1]
  BY <1>2, <1>3, <1>8, <1>10, <1>11, StackTyped
<1>13. ASSUME ~v8'
       PROVE  StackFloats(v1'[0])
  <2>1. StackFloats(u)
    BY <1>1, <1>3, <1>13, StackHas
  <2>2. ~u.last /\ u.drops = 0
    BY <1>4, <2>1, StackLefts DEF StackFloats
  <2> QED BY <1>6, <1>7, <1>12, <2>2 DEF StackFloats
<1>14. ASSUME ~v8', ~v9'
       PROVE  StackFollows'
  <2>1. StackFollows /\ v4 \in Seq(Stack!Message)
    BY <1>3, <1>14, StackHas
  <2>2. StackPlays(v1[1]) /\ StackOrders(v4, StackAwaits(v1[1]), v1[0].left = Stack!All)
    BY <2>1 DEF StackFollows
  <2>3. PICK l \in BOOLEAN, a \in BOOLEAN, b \in BOOLEAN :
          l = StackAwaits(v1[1]) /\ a = (v1[0].left = Stack!All) /\ b = (v1'[0].left = Stack!All)
    BY DEF StackAwaits
  <2>4. PICK q : q = v4
    OBVIOUS
  <2>5. StackOrders(q, l, a) /\ q \in Seq(Stack!Message)
    BY <2>1, <2>2, <2>3, <2>4
  <2>6. b => x = <<"skill", "drop">>
    BY <1>6, <1>7, <1>9, <1>12, <2>3
  <2>7. StackOrders(Append(q, x), l, b)
    BY <1>9, <2>5, <2>6, StackOrdersMore
  <2>8. StackOrders(v4', StackAwaits(v1'[1]), v1'[0].left = Stack!All) /\ StackPlays(v1'[1])
    BY <1>10, <1>12, <2>2, <2>3, <2>4, <2>7
  <2> QED BY <2>8, StackFollowing
<1>15. Stack!Round' /\ StackOwes'
  BY <1>10 DEF StackCounts
<1> QED BY <1>12, <1>13, <1>14, <1>15, StackIs

\* The drop floats: her client creates it and tells the other one to.
LEMMA StackSpawns ==
    ASSUME Stack!StackInv, NEW c \in Stack!Client, Stack!PsychicDropSpawnEmitter(c)
    PROVE  Stack!StackInv'
<1>1. PICK u, y, w : /\ u = v1[c] /\ y = (IF c = 0 THEN Stack!WithDrop(u) ELSE u)
                     /\ w = [y EXCEPT !.left = Tail(y.left)]
  OBVIOUS
<1>2. StackFits(u) /\ u \in Stack!Played /\ v8 \in BOOLEAN /\ v9 \in BOOLEAN /\ c \in {0, 1}
  BY <1>1, StackHas, StackClients DEF StackFits
<1>3. /\ Stack!Change(c, w) /\ v2' = v2 /\ v3' = v3 /\ v7' = v7 /\ v8' = v8 /\ v9' = v9
      /\ u.left # << >> /\ Head(u.left) = "spawn"
      /\ c = 0 => Stack!Tell(<<"create", "drop">>)
      /\ c # 0 => v4' = v4
  BY <1>1, StackClients DEF Stack!PsychicDropSpawnEmitter, Stack!Notified
<1>4. u.left = Stack!All /\ Tail(u.left) = Stack!Floating
  BY <1>2, <1>3, StackLefts DEF Stack!Played
<1>5. /\ y \in Stack!Played /\ y.left = u.left /\ y.skill = u.skill
      /\ c = 0 => y.last = TRUE /\ y.drops = u.drops + 1
      /\ c # 0 => y.last = u.last /\ y.drops = u.drops
  <2>1. CASE c = 0
    <3>1. y = [u EXCEPT !.drops = u.drops + 1, !.last = TRUE] /\ u.drops + 1 \in Int
      BY <1>1, <1>2, <2>1 DEF Stack!WithDrop, Stack!Played
    <3> QED BY <1>2, <2>1, <3>1 DEF Stack!Played
  <2>2. CASE c # 0
    BY <1>1, <1>2, <2>2
  <2> QED BY <2>1, <2>2
<1>6. StackFits(w) /\ w.left = Stack!Floating /\ w.last = y.last /\ w.drops = y.drops
  <2>1. StackGoesOn(u, y, w)
    BY <1>1, <1>4, <1>5, StackLefts DEF StackGoesOn
  <2> QED BY <1>2, <1>3, <1>4, <2>1, StackNotified
<1>7. StackCounts
  <2>1. CASE c = 0
    <3>1. PICK x : x = <<"create", "drop">>
      OBVIOUS
    <3>2. Stack!Tell(x) /\ x \in Stack!Message /\ Stack!Worth(x) = 0
      BY <1>3, <2>1, <3>1, StackClients
    <3> QED BY <1>3, <3>2, StackSays
  <2>2. CASE c # 0
    BY <1>3, <2>2, StackSilent DEF StackCounts
  <2> QED BY <2>1, <2>2
<1>8. StackCuts
  BY <1>2, <1>3 DEF StackCuts
<1>9. /\ Stack!Typed' /\ v1'[c] = w /\ \A k \in {0, 1} \ {c} : v1'[k] = v1[k]
  BY <1>3, <1>6, <1>7, <1>8, StackTyped
<1>10. Stack!Round' /\ StackOwes'
  BY <1>7 DEF StackCounts
<1>11. ASSUME ~v8'
       PROVE  StackFloats(v1'[0])
  <2>1. StackFloats(v1[0])
    BY <1>3, <1>11, StackHas
  <2>2. CASE c = 1
    BY <1>9, <2>1, <2>2
  <2>3. CASE c = 0
    <3>1. StackFloats(u) /\ w = v1'[0]
      BY <1>1, <1>9, <2>1, <2>3
    <3>2. ~u.last /\ u.drops = 0
      BY <1>4, <3>1, StackLefts DEF StackFloats
    <3> QED BY <1>5, <1>6, <2>3, <3>1, <3>2 DEF StackFloats
  <2> QED BY <1>2, <2>2, <2>3
<1>12. ASSUME ~v8', ~v9'
       PROVE  StackFollows'
  <2>1. StackFollows /\ v4 \in Seq(Stack!Message)
    BY <1>3, <1>12, StackHas
  <2>2. StackPlays(v1[1]) /\ StackOrders(v4, StackAwaits(v1[1]), v1[0].left = Stack!All)
    BY <2>1 DEF StackFollows
  <2>3. PICK l \in BOOLEAN, m \in BOOLEAN, a \in BOOLEAN, b \in BOOLEAN :
          /\ l = StackAwaits(v1[1]) /\ m = StackAwaits(v1'[1])
          /\ a = (v1[0].left = Stack!All) /\ b = (v1'[0].left = Stack!All)
    BY DEF StackAwaits
  <2>4. PICK q : q = v4
    OBVIOUS
  <2>5. StackOrders(q, l, a) /\ q \in Seq(Stack!Message)
    BY <2>1, <2>2, <2>3, <2>4
  <2>6. CASE c = 0
    <3>1. v1'[1] = v1[1] /\ a = TRUE /\ b = FALSE
      <4>1. v1'[1] = v1[1]
        BY <1>9, <2>6
      <4>2. v1[0].left = Stack!All
        BY <1>1, <1>4, <2>6
      <4>3. v1'[0].left # Stack!All
        BY <1>6, <1>9, <2>6, StackLefts
      <4> QED BY <2>3, <4>1, <4>2, <4>3
    <3>2. PICK x : x = <<"create", "drop">>
      OBVIOUS
    <3>3. x \in Stack!Message /\ x[1] = "create" /\ v4' = Append(q, x)
      BY <1>3, <2>4, <2>6, <3>2, StackClients DEF Stack!Tell
    <3>4. StackOrders(Append(q, x), l, b)
      BY <2>5, <3>1, <3>3, StackOrdersMore
    <3>5. StackOrders(v4', StackAwaits(v1'[1]), v1'[0].left = Stack!All) /\ StackPlays(v1'[1])
      BY <2>2, <2>3, <3>1, <3>3, <3>4
    <3> QED BY <3>5, StackFollowing
  <2>7. CASE c = 1
    <3>1. v1'[0] = v1[0] /\ v1'[1] = w /\ u = v1[1] /\ v4' = q
      BY <1>1, <1>3, <1>9, <2>4, <2>7
    <3>2. StackPlays(w) /\ (StackAwaits(u) => StackAwaits(w))
      BY <1>5, <1>6, <2>2, <2>7, <3>1 DEF StackPlays, StackAwaits
    <3>3. (l => m) /\ (b => a)
      BY <2>3, <3>1, <3>2
    <3>4. StackOrders(q, m, b)
      BY <2>5, <3>3, StackOrdersKeep
    <3>5. StackOrders(v4', StackAwaits(v1'[1]), v1'[0].left = Stack!All) /\ StackPlays(v1'[1])
      BY <2>3, <3>1, <3>2, <3>4
    <3> QED BY <3>5, StackFollowing
  <2> QED BY <1>2, <2>6, <2>7
<1> QED BY <1>9, <1>10, <1>11, <1>12, StackIs

\* It explodes where it floats, or is late.
LEMMA StackExplodes ==
    ASSUME Stack!StackInv, NEW c \in Stack!Client, Stack!OnPsychicDropDamaging(c)
    PROVE  Stack!StackInv'
<1>1. PICK u, y, w : /\ u = v1[c] /\ y = (IF u.last THEN Stack!Gone(u) ELSE u)
                     /\ w = [y EXCEPT !.left = Tail(y.left)]
  OBVIOUS
<1>2. StackFits(u) /\ u \in Stack!Played /\ v8 \in BOOLEAN /\ v9 \in BOOLEAN /\ c \in {0, 1} /\ u.last \in BOOLEAN
  BY <1>1, StackHas, StackClients DEF StackFits, Stack!Played
<1>3. /\ Stack!Change(c, w) /\ v8' = v8 /\ v9' = (v9 \/ ~u.last)
      /\ u.left # << >> /\ Head(u.left) = "explode" /\ Stack!MayHurt(c, TRUE)
  BY <1>1 DEF Stack!OnPsychicDropDamaging, Stack!MayHurt, Stack!Notified
<1>4. u.left = Stack!Floating /\ Tail(u.left) # << >> /\ Tail(u.left) # Stack!Floating /\ Tail(u.left) # Stack!All
  BY <1>2, <1>3, StackLefts DEF Stack!Played
<1>5. /\ y \in Stack!Played /\ y.left = u.left /\ y.skill = u.skill
      /\ y.last = FALSE /\ y.drops = IF u.last THEN u.drops - 1 ELSE u.drops
  <2>1. CASE u.last
    <3>1. y = [u EXCEPT !.drops = u.drops - 1, !.last = FALSE] /\ u.drops - 1 \in Int
      BY <1>1, <1>2, <2>1 DEF Stack!Gone, Stack!Played
    <3> QED BY <1>2, <2>1, <3>1 DEF Stack!Played
  <2>2. CASE ~u.last
    BY <1>1, <1>2, <2>2
  <2> QED BY <2>1, <2>2
<1>6. StackFits(w) /\ w.left = Tail(u.left) /\ w.last = FALSE /\ w.drops = y.drops
  <2>1. StackGoesOn(u, y, w)
    BY <1>1, <1>4, <1>5 DEF StackGoesOn
  <2> QED BY <1>2, <1>3, <1>5, <2>1, StackNotified
<1>7. /\ v3' \in Int /\ v4' \in Seq(Stack!Message) /\ v7' \in Nat /\ Stack!Round' /\ StackOwes'
      /\ c = 1 => v4' = v4
      /\ v4' = v4 \/ \E x \in Stack!Message : ~StackMarks(x) /\ v4' = Append(v4, x)
  <2>1. PICK e \in BOOLEAN : Stack!MayHurt(c, e)
    BY <1>3
  <2> QED BY <2>1, StackHurts
<1>8. v9' \in BOOLEAN /\ (v9 => v9') /\ (~v9' => u.last)
  BY <1>2, <1>3
<1>9. StackCounts /\ StackCuts
  BY <1>2, <1>3, <1>7, <1>8 DEF StackCounts, StackCuts
<1>10. /\ Stack!Typed' /\ v1'[c] = w /\ \A k \in {0, 1} \ {c} : v1'[k] = v1[k]
  BY <1>3, <1>6, <1>9, StackTyped
<1>11. ASSUME ~v8'
       PROVE  StackFloats(v1'[0])
  <2>1. StackFloats(v1[0])
    BY <1>3, <1>11, StackHas
  <2>2. CASE c = 1
    BY <1>10, <2>1, <2>2
  <2>3. CASE c = 0
    <3>1. StackFloats(u) /\ w = v1'[0]
      BY <1>1, <1>10, <2>1, <2>3
    <3>2. u.last /\ u.drops = 1
      BY <1>4, <3>1 DEF StackFloats
    <3> QED BY <1>4, <1>5, <1>6, <3>1, <3>2 DEF StackFloats
  <2> QED BY <1>2, <2>2, <2>3
<1>12. ASSUME ~v8', ~v9'
       PROVE  StackFollows'
  <2>1. StackFollows /\ v4 \in Seq(Stack!Message)
    BY <1>3, <1>8, <1>12, StackHas
  <2>2. StackPlays(v1[1]) /\ StackOrders(v4, StackAwaits(v1[1]), v1[0].left = Stack!All)
    BY <2>1 DEF StackFollows
  <2>3. PICK l \in BOOLEAN, m \in BOOLEAN, a \in BOOLEAN, b \in BOOLEAN :
          /\ l = StackAwaits(v1[1]) /\ m = StackAwaits(v1'[1])
          /\ a = (v1[0].left = Stack!All) /\ b = (v1'[0].left = Stack!All)
    BY DEF StackAwaits
  <2>4. PICK q : q = v4
    OBVIOUS
  <2>5. StackOrders(q, l, a) /\ q \in Seq(Stack!Message)
    BY <2>1, <2>2, <2>3, <2>4
  <2>6. (l => m) /\ ~(c = 0 /\ b) /\ (c = 1 => (b => a)) /\ StackPlays(v1'[1])
    <3>1. CASE c = 0
      <4>1. v1'[1] = v1[1] /\ v1'[0].left # Stack!All
        BY <1>4, <1>6, <1>10, <3>1
      <4> QED BY <2>2, <2>3, <3>1, <4>1
    <3>2. CASE c = 1
      <4>1. v1'[0] = v1[0] /\ v1'[1] = w /\ u = v1[1]
        BY <1>1, <1>10, <3>2
      <4>2. u.last /\ u.drops = 1
        BY <1>8, <1>12, <2>2, <4>1 DEF StackPlays
      <4>3. StackPlays(w)
        BY <1>5, <1>6, <4>2 DEF StackPlays
      <4>4. ~l
        BY <2>3, <4>1, <4>2 DEF StackAwaits
      <4> QED BY <2>3, <3>2, <4>1, <4>3, <4>4
    <3> QED BY <1>2, <3>1, <3>2
  <2>7. PICK p : p = v4'
    OBVIOUS
  <2>8. StackOrders(p, m, b)
    <3>1. CASE v4' = v4
      BY <1>2, <2>6, <2>5, StackOrdersKeep, <2>4, <2>7, <3>1
    <3>2. CASE v4' # v4
      <4>1. PICK x \in Stack!Message : ~StackMarks(x) /\ v4' = Append(v4, x)
        BY <1>7, <3>2
      <4>2. x[1] # "create" /\ ~b
        BY <1>2, <1>7, <2>6, <3>2, <4>1 DEF StackMarks
      <4>3. StackOrders(Append(q, x), l, b)
        BY <2>5, <4>1, <4>2, StackOrdersMore
      <4>4. p = Append(q, x) /\ p \in Seq(Stack!Message)
        BY <2>4, <2>5, <2>7, <4>1
      <4> QED BY <2>6, <4>3, <4>4, StackOrdersKeep
    <3> QED BY <3>1, <3>2
  <2>9. StackOrders(v4', StackAwaits(v1'[1]), v1'[0].left = Stack!All)
    BY <2>3, <2>7, <2>8
  <2> QED BY <2>6, <2>9, StackFollowing
<1> QED BY <1>7, <1>10, <1>11, <1>12, StackIs

\* The other client hears of it.
LEMMA StackHears ==
    ASSUME Stack!StackInv, NEW x, x = v4[1], Stack!Recv
    PROVE  StackCounts /\ v4' = Tail(v4) /\ x \in Stack!Message /\ v4 # << >>
<1>1. v4 \in Seq(Stack!Message) /\ v3 \in Int /\ v7 \in Nat /\ Stack!Round /\ StackOwes
  BY StackHas
<1>2. v4 # << >> /\ v4' = Tail(v4) /\ v2' = v2 /\ v7' = v7
  BY DEF Stack!Recv
<1>3. x \in Stack!Message /\ v4' \in Seq(Stack!Message)
  BY <1>1, <1>2, QueueTails
<1>4. v3' = v3 - Stack!Worth(x)
  BY <1>1, <1>2 DEF Stack!Recv, Stack!Worth
<1>5. Stack!Worth(x) \in Int
  BY <1>3, StackClients
<1>6. PICK q, n, u, m : q = v4 /\ n = v3 /\ u = v4' /\ m = v3'
  OBVIOUS
<1>7. q \in Seq(Stack!Message) /\ q # << >> /\ n \in Int /\ Stack!Owes(q, n)
  BY <1>1, <1>2, <1>6 DEF StackOwes
<1>8. Stack!Owes(Tail(q), n - Stack!Worth(q[1]))
  BY <1>7, HitsLess, StackClients
<1>9. Stack!Owes(u, m)
  BY <1>2, <1>4, <1>6, <1>8
<1>10. StackOwes'
  BY <1>6, <1>9 DEF StackOwes, Stack!Owes, Stack!Worth
<1>11. Stack!Round'
  BY <1>1, <1>2 DEF Stack!Round
<1> QED BY <1>1, <1>2, <1>3, <1>4, <1>5, <1>10, <1>11 DEF StackCounts

\* What the other client makes of the call x: a fall or another skill cuts the drop short.
StackTakes(u, x, w) ==
    /\ StackFits(w)
    /\ x[1] = "create" => w.last = TRUE /\ w.drops = u.drops + 1 /\ w.left = u.left
    /\ x[1] # "create" => w.last = u.last /\ w.drops = u.drops
    /\ x[1] = "skill" => w.left # << >> /\ (w.left = Stack!All <=> x = <<"skill", "drop">>)
    /\ x[1] = "fall" /\ StackApart(u) => StackApart(w)
    /\ x[1] \notin {"fall", "skill"} => w.left = u.left
    /\ u.skill # "drop" => StackApart(u)

\* What it makes of it: a fall or another skill cuts the drop short, and a drop is created in time.
LEMMA StackHeard ==
    ASSUME NEW u, StackFits(u), NEW x \in Stack!Message
    PROVE  StackTakes(u, x, Stack!Heard(u, x))
<1>9. PICK w : w = Stack!Heard(u, x)
  OBVIOUS
<1>1. u \in Stack!Played /\ u.left \in Stack!Left
  BY DEF StackFits, Stack!Played
<1>2. u.skill # "drop" => StackApart(u)
  BY DEF StackFits, StackApart
<1>3. ASSUME x[1] = "fire" PROVE StackTakes(u, x, w)
  <2>1. PICK b : b = IF x[2] THEN u.firing \/ ~u.down ELSE FALSE
    OBVIOUS
  <2>2. b \in BOOLEAN /\ 0 \in Nat
    BY <2>1
  <2>3. w = [u EXCEPT !.firing = b]
    BY <1>9, <1>3, <2>1 DEF Stack!Heard, Stack!Fires
  <2>4. StackTouch(u, w, b, 0)
    BY <2>3 DEF StackTouch
  <2>5. StackFits(w) /\ w.last = u.last /\ w.drops = u.drops /\ w.left = u.left
    BY <2>2, <2>4, StackTouched
  <2> QED BY <1>2, <1>3, <2>5 DEF StackTakes
<1>4. ASSUME x[1] = "skill" PROVE StackTakes(u, x, w)
  <2>1. x[2] \in Stack!Skill /\ x = <<"skill", x[2]>>
    BY <1>4 DEF Stack!Message
  <2>2. PICK s, n : s = x[2] /\ n = Stack!Notifies[s]
    OBVIOUS
  <2>3. s \in Stack!Skill /\ n \in Stack!Left /\ n # << >> /\ n # Stack!Floating /\ (n = Stack!All <=> s = "drop") /\ s # "no"
    BY <2>1, <2>2, StackLefts
  <2>4. w = [u EXCEPT !.skill = s, !.left = n]
    BY <1>9, <1>4, <2>2 DEF Stack!Heard, Stack!Begins
  <2>5. w \in Stack!Played /\ w.left = n /\ w.skill = s /\ w.last = u.last /\ w.drops = u.drops
    BY <1>1, <2>3, <2>4 DEF Stack!Played
  <2>6. StackFits(w)
    BY <2>3, <2>5 DEF StackFits
  <2>7. s = "drop" <=> x = <<"skill", "drop">>
    BY <2>1, <2>2
  <2> QED BY <1>2, <1>4, <2>3, <2>5, <2>6, <2>7 DEF StackTakes
<1>5. ASSUME x[1] = "create" PROVE StackTakes(u, x, w)
  <2>1. w = [u EXCEPT !.drops = u.drops + 1, !.last = TRUE] /\ u.drops + 1 \in Int
    BY <1>9, <1>1, <1>5 DEF Stack!Heard, Stack!WithDrop, Stack!Played
  <2>2. w \in Stack!Played /\ w.left = u.left /\ w.skill = u.skill /\ w.last = TRUE /\ w.drops = u.drops + 1
    BY <1>1, <2>1 DEF Stack!Played
  <2>3. StackFits(w)
    BY <2>2 DEF StackFits
  <2> QED BY <1>2, <1>5, <2>2, <2>3 DEF StackTakes
<1>6. ASSUME x[1] = "fall" PROVE StackTakes(u, x, w)
  <2>1. PICK short : short = x[2]
    OBVIOUS
  <2>2. w = Stack!Falls(u, short)
    BY <1>9, <1>6, <2>1 DEF Stack!Heard
  <2>3. /\ StackFits(w) /\ w.last = u.last /\ w.drops = u.drops
        /\ w.left = u.left \/ (short /\ w.left = << >> /\ StackApart(w))
    BY <2>2, StackFallen
  <2> QED BY <1>2, <1>6, <2>3 DEF StackTakes, StackApart
<1>7. ASSUME x[1] = "hurt" PROVE StackTakes(u, x, w)
  BY <1>9, <1>7, <1>2 DEF Stack!Heard, StackTakes
<1>8. x[1] \in {"hurt", "fire", "fall", "skill", "create"}
  BY DEF Stack!Message
<1>10. StackTakes(u, x, w)
  BY <1>3, <1>4, <1>5, <1>6, <1>7, <1>8
<1> QED BY <1>9, <1>10

LEMMA StackRecv ==
    ASSUME Stack!StackInv, Stack!Recv
    PROVE  Stack!StackInv'
<1>1. PICK u, w, x : u = v1[1] /\ x = v4[1] /\ w = Stack!Heard(u, x)
  OBVIOUS
<1>2. StackFits(u) /\ 1 \in Stack!Client /\ v8 \in BOOLEAN /\ v9 \in BOOLEAN /\ v4 \in Seq(Stack!Message)
  BY <1>1, StackHas
<1>3. StackCounts /\ v4' = Tail(v4) /\ x \in Stack!Message /\ v4 # << >>
  BY <1>1, StackHears
<1>4. /\ Stack!Change(1, w) /\ v9' = v9
      /\ v8' = (v8 \/ (x[1] \in {"fall", "skill"} /\ u.skill = "drop"))
  BY <1>1, <1>2, <1>3 DEF Stack!Recv, Stack!Dropping
<1>5. v8' \in BOOLEAN /\ (v8 => v8') /\ (~v8' => x[1] \notin {"fall", "skill"} \/ u.skill # "drop")
  BY <1>4, <1>2
<1>6. StackCuts
  BY <1>2, <1>4, <1>5 DEF StackCuts
<1>7. /\ StackFits(w)
      /\ x[1] = "create" => w.last = TRUE /\ w.drops = u.drops + 1 /\ w.left = u.left
      /\ x[1] # "create" => w.last = u.last /\ w.drops = u.drops
      /\ x[1] = "skill" => w.left # << >> /\ (w.left = Stack!All <=> x = <<"skill", "drop">>)
      /\ x[1] = "fall" /\ StackApart(u) => StackApart(w)
      /\ x[1] \notin {"fall", "skill"} => w.left = u.left
      /\ u.skill # "drop" => StackApart(u)
  <2>1. StackTakes(u, x, Stack!Heard(u, x))
    BY <1>2, <1>3, StackHeard
  <2>2. StackTakes(u, x, w)
    BY <1>1, <2>1
  <2> QED BY <2>2 DEF StackTakes
<1>8. Stack!Typed' /\ v1'[1] = w /\ v1'[0] = v1[0]
  BY <1>2, <1>3, <1>4, <1>6, <1>7, StackTyped
<1>9. ~v8' => StackFloats(v1'[0])
  BY <1>5, <1>8, StackHas
<1>10. ASSUME ~v8', ~v9'
       PROVE  StackFollows'
  <2>1. StackFollows /\ v4 \in Seq(Stack!Message)
    BY <1>4, <1>5, <1>10, StackHas
  <2>2. StackPlays(u) /\ StackOrders(v4, StackAwaits(u), v1[0].left = Stack!All)
    BY <1>1, <2>1 DEF StackFollows
  <2>3. PICK l \in BOOLEAN, m \in BOOLEAN, a \in BOOLEAN :
          l = StackAwaits(u) /\ m = StackAwaits(w) /\ a = (v1[0].left = Stack!All)
    BY DEF StackAwaits
  <2>4. PICK q : q = v4
    OBVIOUS
  <2>5. StackOrders(q, l, a) /\ q \in Seq(Stack!Message) /\ q # << >> /\ q[1] = x
    BY <1>1, <1>3, <2>1, <2>2, <2>3, <2>4
  <2>6. StackPlays(w) /\ (~StackMarks(x) => (l => m)) /\ (x = <<"skill", "drop">> => m)
    <3>1. CASE x[1] \notin {"fall", "skill", "create"}
      BY <1>7, <3>1, <2>2, <2>3 DEF StackPlays, StackAwaits
    <3>2. CASE x[1] \in {"fall", "skill"}
      <4>1. StackApart(u) /\ w.last = u.last /\ w.drops = u.drops
        BY <1>5, <1>7, <1>10, <3>2
      <4>2. ~u.last /\ u.drops = 0 /\ ~StackAwaits(u)
        BY <2>2, <4>1 DEF StackPlays, StackAwaits, StackApart
      <4>3. StackPlays(w)
        BY <4>1, <4>2 DEF StackPlays
      <4>4. x = <<"skill", "drop">> => StackAwaits(w)
        BY <1>7, <4>1, <4>2 DEF StackAwaits
      <4> QED BY <2>3, <4>2, <4>3, <4>4
    <3>3. CASE x[1] = "create"
      <4>1. StackDue(q, l, 1)
        BY <2>5, <3>3 DEF StackOrders
      <4>2. l
        BY <4>1 DEF StackDue
      <4>3. u.left \in {Stack!All, Stack!Floating} /\ ~u.last
        BY <2>3, <4>2 DEF StackAwaits
      <4>4. u.drops = 0
        BY <2>2, <4>3 DEF StackPlays
      <4>5. StackPlays(w)
        BY <1>7, <3>3, <4>3, <4>4 DEF StackPlays
      <4> QED BY <3>3, <4>5 DEF StackMarks
    <3> QED BY <3>1, <3>2, <3>3
  <2>7. StackOrders(Tail(q), m, a)
    BY <2>5, <2>6, StackOrdersLess
  <2>8. StackOrders(v4', StackAwaits(v1'[1]), v1'[0].left = Stack!All) /\ StackPlays(v1'[1])
    BY <1>3, <1>8, <2>3, <2>4, <2>6, <2>7
  <2> QED BY <2>8, StackFollowing
<1>11. Stack!Round' /\ StackOwes'
  BY <1>3 DEF StackCounts
<1> QED BY <1>8, <1>9, <1>10, <1>11, StackIs

LEMMA StackInit == Stack!Init => Stack!StackInv
<1> SUFFICES ASSUME Stack!Init PROVE Stack!StackInv
  OBVIOUS
<1>1. /\ v1 = [c \in Stack!Client |-> Stack!New] /\ v2 = 0 /\ v3 = 0 /\ v4 = << >> /\ v7 = 0
      /\ v8 = FALSE /\ v9 = FALSE
  BY DEF Stack!Init
<1>2. /\ Stack!New \in Stack!Played /\ Stack!New.skill = "no" /\ Stack!New.left = << >> /\ Stack!New.drops = 0
      /\ Stack!New.last = FALSE
  BY StackLefts DEF Stack!New, Stack!Played
<1>3. v1 \in [Stack!Client -> Stack!Played] /\ v1[0] = Stack!New /\ v1[1] = Stack!New
      /\ \A c \in Stack!Client : v1[c] = Stack!New
  BY <1>1, <1>2, StackClients
<1>4. Stack!Typed
  <2>1. v4 \in Seq(Stack!Message)
    BY <1>1
  <2>2. v3 \in Int /\ v7 \in Nat
    BY <1>1
  <2>5. v8 \in BOOLEAN /\ v9 \in BOOLEAN
    BY <1>1, Zenon
  <2>3. << >> \notin {Stack!All, Stack!Floating}
    BY StackLefts
  <2>4. \A c \in Stack!Client : /\ v1[c].skill = "no" <=> v1[c].left = << >>
                                /\ v1[c].left \in {Stack!All, Stack!Floating} => Stack!Dropping(v1[c])
    BY <1>2, <1>3, <2>3
  <2> QED BY <1>3, <2>1, <2>2, <2>4, <2>5 DEF Stack!Typed
<1>5. Stack!Round
  BY <1>1, StackClients DEF Stack!Round
<1>6. Stack!Owes(v4, v3)
  BY <1>1, HitsNone
<1>7. Stack!Floats
  BY <1>2, <1>3, StackClients, StackLefts DEF Stack!Floats
<1>8. Stack!Follows
  BY <1>1, <1>2, <1>3, StackClients, StackLefts DEF Stack!Follows
<1> QED BY <1>4, <1>5, <1>6, <1>7, <1>8 DEF Stack!StackInv

LEMMA StackNext == Stack!StackInv /\ [Stack!Next]_(Stack!vars) => Stack!StackInv'
<1> SUFFICES ASSUME Stack!StackInv, [Stack!Next]_(Stack!vars) PROVE Stack!StackInv'
  OBVIOUS
<1>1. CASE Stack!Recv
  BY <1>1, StackRecv
<1>2. ASSUME NEW on \in BOOLEAN, Stack!Esper_Attack(on) \/ Stack!RPCSelfHealing(on)
      PROVE  Stack!StackInv'
  BY <1>2, StackFires, StackFalls
<1>3. ASSUME NEW s \in Stack!Skill, Stack!Press(s)
      PROVE  Stack!StackInv'
  BY <1>3, StackPressed
<1>4. ASSUME NEW c \in Stack!Client,
             \/ Stack!OnAttackCheck(c) \/ Stack!OnComponentHit(c) \/ Stack!SelfHealingAnimEnd(c)
             \/ Stack!PsychicDropSpawnEmitter(c) \/ Stack!OnPsychicDropDamaging(c) \/ Stack!PsychicForceDamaging(c)
             \/ Stack!PsychicForceStun(c) \/ Stack!ShockWaveDamagingStart(c) \/ Stack!ShockWaveDamaging(c)
             \/ Stack!SkillEnd(c)
      PROVE  Stack!StackInv'
  BY <1>4, StackSmall, StackSpawns, StackExplodes, StackPlainly
<1>5. CASE UNCHANGED Stack!vars
  <2>1. v1' = v1 /\ v2' = v2 /\ v3' = v3 /\ v4' = v4 /\ v7' = v7 /\ v8' = v8 /\ v9' = v9
    BY <1>5 DEF Stack!vars
  <2>2. PICK u : u = v1[0]
    OBVIOUS
  <2>3. StackFits(u) /\ 0 \in Stack!Client /\ FALSE \in BOOLEAN
    BY <2>2, StackHas
  <2>4. Stack!Change(0, u)
    BY <2>1, <2>2, StackHas, StackClients DEF Stack!Change
  <2>5. Stack!MayHurt(0, FALSE)
    BY <2>1 DEF Stack!MayHurt, Stack!Misses
  <2> QED BY <2>1, <2>2, <2>3, <2>4, <2>5, StackActs
<1> QED BY <1>1, <1>2, <1>3, <1>4, <1>5 DEF Stack!Next

LEMMA StackHolds == Stack!StackInv => Stack!StacksPay
<1> SUFFICES ASSUME Stack!StackInv PROVE Stack!StacksPay
  OBVIOUS
<1>1. v2 = IF v7 < 4 * Steps THEN v7 ELSE 3 * Steps + ((v7 - 4 * Steps) % Steps)
  BY StackHas DEF Stack!Round
<1>2. v4 = << >> => v3 = 0
  BY StackHas, HitsNone DEF StackOwes
<1>3. ASSUME NEW c \in Stack!Client, ~v8, ~v9
      PROVE  v1[c].drops = IF v1[c].last THEN 1 ELSE 0
  BY <1>3, StackHas, StackClients DEF StackFollows, StackFloats, StackPlays
<1>4. ASSUME v1[0].drops > 0, ~v8
      PROVE  v1[0].last /\ v1[0].skill = "drop"
  BY <1>4, StackHas DEF StackFloats, StackFits
<1> QED BY <1>1, <1>2, <1>3, <1>4, StackClients DEF Stack!StacksPay

LEMMA HitsBegin == Init => HitsInv
BY SwingInit, StackInit DEF Init, HitsInv

\* A part never becomes another one, and a step of it is a step of its module.
LEMMA HitsStep == HitsInv /\ [Next]_vars => HitsInv'
<1> SUFFICES ASSUME HitsInv, [Next]_vars PROVE HitsInv'
  OBVIOUS
<1>1. ASSUME part' = "swings"
      PROVE  Swing!SwingInv'
  BY <1>1, SwingNext DEF Next, vars, Swing!vars, HitsInv
<1>2. ASSUME part' = "stacks"
      PROVE  Stack!StackInv'
  BY <1>2, StackNext DEF Next, vars, Stack!vars, HitsInv
<1> QED BY <1>1, <1>2 DEF HitsInv

\* However the two clients play the attacks, and whatever cuts them short: both count the same damage
\* when all calls have arrived, a swing that meets an enemy hurts it, the stack is what the hits since
\* the last explosion make, and the drop that floats explodes (TakeDamage, OnPsychicDropDamaging).
THEOREM HitsCountHolds == Spec => []HitsCount
<1>1. HitsInv => HitsCount
  BY SwingHolds, StackHolds DEF HitsInv, HitsCount
<1> QED BY <1>1, HitsBegin, HitsStep, PTL DEF Spec

\* The tutorial with the variables this module gives it: what TutorialProofs proves is used here.
TP == INSTANCE TutorialProofs WITH
    Solo <- TutoLessons, Spawns <- TutoSpawns, tuto <- v1, enemies <- v2, named <- v3, hero <- v4,
    chan <- v5, skips <- v6, early <- v7

TutoInv == part = "tutorial" => TP!TutorialInv

LEMMA TutoAssumed == TP!TutorialAssumption
BY GameAssumption, Zenon DEF Tuto!TutorialAssumption, TP!TutorialAssumption, Tuto!Hero, TP!Hero, Tuto!Lessons, TP!Lessons

\* Both instances of the module are the same: its first states, its steps and what is asked of it.
LEMMA TutoInit == Tuto!Init => TP!Init
BY Zenon DEF Tuto!Init, TP!Init, Tuto!Hero, TP!Hero, Tuto!Client, TP!Client, Tuto!Fresh, TP!Fresh

LEMMA TutoStep == Tuto!Next => TP!Next
BY Zenon DEF Tuto!Lessons, TP!Lessons, Tuto!Hero, TP!Hero, Tuto!Client, TP!Client, Tuto!Other, TP!Other, Tuto!All, TP!All,
       Tuto!AllSkills, TP!AllSkills, Tuto!Send, TP!Send, Tuto!Own, TP!Own, Tuto!Lesson, TP!Lesson,
       Tuto!TutorialSpawner, TP!TutorialSpawner, Tuto!ZoneEmpty, TP!ZoneEmpty, Tuto!Done, TP!Done, Tuto!Seen,
       TP!Seen, Tuto!Settled, TP!Settled, Tuto!Ready, TP!Ready, Tuto!TutorialSequence, TP!TutorialSequence,
       Tuto!Allowed, TP!Allowed, Tuto!Brings, TP!Brings, Tuto!Quest, TP!Quest, Tuto!Learnt, TP!Learnt,
       Tuto!QuestClear, TP!QuestClear, Tuto!SpawnTimer, TP!SpawnTimer, Tuto!EndSolo, TP!EndSolo, Tuto!ClearTimer,
       TP!ClearTimer, Tuto!GaugeFull, TP!GaugeFull, Tuto!Asked, TP!Asked, Tuto!CoopSkills, TP!CoopSkills,
       Tuto!CooperationQuest, TP!CooperationQuest, Tuto!CooperationLearnt, TP!CooperationLearnt,
       Tuto!CooperationQuestClear, TP!CooperationQuestClear, Tuto!TutorialSkip, TP!TutorialSkip, Tuto!Clean,
       TP!Clean, Tuto!Skipped, TP!Skipped, Tuto!CooperationEnd, TP!CooperationEnd, Tuto!Command, TP!Command,
       Tuto!Has, TP!Has, Tuto!CanFight, TP!CanFight, Tuto!CanUltimate, TP!CanUltimate, Tuto!CanDash, TP!CanDash,
       Tuto!Dash, TP!Dash, Tuto!Kill, TP!Kill, Tuto!Blocked, TP!Blocked, Tuto!CanBlock, TP!CanBlock, Tuto!Block,
       TP!Block, Tuto!Do, TP!Do, Tuto!CanSurge, TP!CanSurge, Tuto!CanShield, TP!CanShield, Tuto!Surge, TP!Surge,
       Tuto!Vital, TP!Vital, Tuto!Shield, TP!Shield, Tuto!KillNamed, TP!KillNamed, Tuto!Recv, TP!Recv, Tuto!Next,
       TP!Next

LEMMA TutoGoes == (Tuto!CanGoOn <=> TP!CanGoOn) /\ (Tuto!FreeAfterSkip <=> TP!FreeAfterSkip)
BY Zenon DEF Tuto!Lessons, TP!Lessons, Tuto!Hero, TP!Hero, Tuto!Client, TP!Client, Tuto!All, TP!All,
       Tuto!AllSkills, TP!AllSkills, Tuto!Lesson, TP!Lesson, Tuto!ZoneEmpty, TP!ZoneEmpty, Tuto!Has, TP!Has,
       Tuto!CanFight, TP!CanFight, Tuto!CanUltimate, TP!CanUltimate, Tuto!CanDash, TP!CanDash,
       Tuto!CanBlock, TP!CanBlock, Tuto!CanSurge, TP!CanSurge, Tuto!CanShield, TP!CanShield,
       Tuto!Asked, TP!Asked, Tuto!LessonPossible, TP!LessonPossible, Tuto!SharedPossible, TP!SharedPossible,
       Tuto!PlayerCan, TP!PlayerCan, Tuto!CanGoOn, TP!CanGoOn, Tuto!FreeAfterSkip, TP!FreeAfterSkip

LEMMA TutoVars == Tuto!vars = TP!vars
BY DEF Tuto!vars, TP!vars

LEMMA TutoBegins == Init => TutoInv
BY TutoAssumed, TutoInit, TP!InitInv DEF Init, TutoInv

LEMMA TutoNext == TutoInv /\ [Next]_vars => TutoInv'
<1> SUFFICES ASSUME TutoInv, [Next]_vars, part' = "tutorial"
             PROVE  TP!TutorialInv'
  BY DEF TutoInv
<1>1. part = "tutorial" /\ [Tuto!Next]_(Tuto!vars)
  BY DEF Next, vars, Tuto!vars
<1>2. [TP!Next]_(TP!vars)
  BY <1>1, TutoStep, TutoVars DEF Tuto!vars, TP!vars
<1> QED BY <1>1, <1>2, TutoAssumed, TP!NextInv DEF TutoInv

\* In the tutorial a player can always do what his lesson or the cooperation asks of him, but in the two
\* states that are named (the Esper's ultimate did not kill all, Tutorial.cpp:823; the Crusher's gauge is
\* not full and nobody is left to fill it, :918), and after it, or a skip, the heroes are free.
THEOREM TutorialHolds == Spec => []TutorialOK
<1>1. TutoInv => TutorialOK
  BY TutoAssumed, TutoGoes, TP!InvGoesOn, TP!InvFree DEF TutoInv, TutorialOK
<1> QED BY <1>1, TutoBegins, TutoNext, PTL DEF Spec
=============================================================================
