----------------------------- MODULE GameProofs -----------------------------
(***************************************************************************)
(* The parts of the game (MCGame): what the run checks on a small instance *)
(* of the stages, the minds of the enemies, the attacks of the boss and    *)
(* his health, and the laboratory holds for all values of the constants.   *)
(* Of each part the invariant that is proved stands in its own module,     *)
(* next to what it explains.  (The heroes: HeroesProofs.)                  *)
(***************************************************************************)
EXTENDS MCGame, QueueProofs

(***************************************************************************)
(* The way to the boss.  Of the variables v1 is stage, v2 place, v3 view,  *)
(* v4 chan and v6 starts.                                                  *)
(***************************************************************************)
StageInv == part = "stages" => Stage!BossInv

\* A step of client c to stages s that leaves the film and the heroes as they are.
LEMMA StageStays ==
    ASSUME Stage!BossInv, NEW c \in Stage!Client, NEW s,
           v1' = [v1 EXCEPT ![c] = s], DOMAIN s = Stage!Fields,
           UNCHANGED <<v2, v3, v6>>, v4' \in [Stage!Client -> Seq(Stage!Call)],
           Stage!Called("start")' => Stage!Called("start"), Stage!Called("film")' => Stage!Called("film"),
           s.film = v1[c].film, v1[c].bossDead => s.bossDead,
           v1[c].bossRunning => s.bossRunning \/ s.bossDead,
           s.end \/ s.over => v1[c].end \/ v1[c].over \/ s.bossDead
    PROVE  Stage!BossInv'
<1> USE DEF Stage!BossInv
<1>1. \A d \in Stage!Client : v1'[d] = IF d = c THEN s ELSE v1[d]
  BY DEF Stage!Typed
<1>2. Stage!Typed'
  BY <1>1 DEF Stage!Typed
<1>3. \A d \in Stage!Client : v1'[d].film = v1[d].film
  BY <1>1
<1>4. Stage!Before => Stage!Before'
  BY <1>3 DEF Stage!Before
<1>5. Stage!Gathered => Stage!Gathered'
  BY DEF Stage!Gathered
<1>6. Stage!Filming => Stage!Filming'
  BY <1>5 DEF Stage!Filming
<1>7. Stage!Fighting => Stage!Fighting'
  BY <1>3, <1>5 DEF Stage!Fighting
<1>8. Stage!AtTheDoor'
  BY DEF Stage!AtTheDoor
<1>9. Stage!Fought'
  BY <1>1 DEF Stage!Fought
<1> QED
  BY <1>2, <1>4, <1>6, <1>7, <1>8, <1>9

\* What is called is called to the other client, and what is taken was called.
LEMMA StageSends ==
    ASSUME Stage!Typed, NEW c \in Stage!Client, NEW m \in Stage!Call, Stage!Send(c, m)
    PROVE  /\ v4' \in [Stage!Client -> Seq(Stage!Call)]
           /\ \A call : call # m => (Stage!Called(call)' => Stage!Called(call))
<1>1. Stage!Other(c) \in Stage!Client
  BY DEF Stage!Other, Stage!Client
<1>2. PICK d \in Stage!Client : d = Stage!Other(c)
  BY <1>1
<1>3. v4' = [v4 EXCEPT ![d] = Append(v4[d], m)]
  BY <1>2 DEF Stage!Send
<1>4. v4[d] \in Seq(Stage!Call) /\ Append(v4[d], m) \in Seq(Stage!Call)
  BY DEF Stage!Typed
<1>5. \A i \in DOMAIN Append(v4[d], m) : Append(v4[d], m)[i] = m \/ (i \in DOMAIN v4[d] /\ Append(v4[d], m)[i] = v4[d][i])
  BY <1>4
<1>6. \A e \in Stage!Client : v4'[e] = IF e = d THEN Append(v4[d], m) ELSE v4[e]
  BY <1>3 DEF Stage!Typed
<1> QED
  BY <1>3, <1>4, <1>5, <1>6 DEF Stage!Typed, Stage!Called

LEMMA StageTakes ==
    ASSUME Stage!Typed, NEW c \in Stage!Client, v4[c] # << >>, v4' = [v4 EXCEPT ![c] = Tail(@)]
    PROVE  /\ v4' \in [Stage!Client -> Seq(Stage!Call)]
           /\ Head(v4[c]) \in Stage!Call /\ Stage!Called(Head(v4[c]))
           /\ \A call : Stage!Called(call)' => Stage!Called(call)
  BY DEF Stage!Typed, Stage!Called

\* The ticks that have nothing to do with the boss.
LEMMA StageQuiet ==
    ASSUME Stage!BossInv, NEW c \in Stage!Client,
           \/ Stage!RunningSector1(c) \/ Stage!RunningSector2(c) \/ Stage!EndSector2(c)
           \/ Stage!StartSector3(c) \/ Stage!RunningSector3(c) \/ Stage!StartPhase2(c)
           \/ Stage!RunningPhase2(c) \/ Stage!EndPhase2(c) \/ Stage!OnFinished(c)
    PROVE  Stage!BossInv'
<1>0. DOMAIN v1 = Stage!Client /\ DOMAIN v1[c] = Stage!Fields
  BY DEF Stage!BossInv, Stage!Typed
<1> DEFINE s == v1'[c]
           Same == /\ DOMAIN s = Stage!Fields /\ s.film = v1[c].film /\ s.bossDead = v1[c].bossDead
                   /\ s.bossRunning = v1[c].bossRunning /\ s.end = v1[c].end /\ s.over = v1[c].over
           Goes == v1' = [v1 EXCEPT ![c] = s] /\ Same
<1>1. Goes
  <2>1. CASE Stage!RunningSector1(c)
    BY <1>0, <2>1 DEF Stage!RunningSector1, Stage!Becomes, Stage!Fields
  <2>2. CASE Stage!RunningSector2(c)
    BY <1>0, <2>2 DEF Stage!RunningSector2, Stage!Becomes, Stage!Fields
  <2>3. CASE Stage!EndSector2(c)
    BY <1>0, <2>3 DEF Stage!EndSector2, Stage!Becomes, Stage!Fields
  <2>4. CASE Stage!StartSector3(c)
    BY <1>0, <2>4 DEF Stage!StartSector3, Stage!Becomes, Stage!Fields
  <2>5. CASE Stage!RunningSector3(c)
    BY <1>0, <2>5 DEF Stage!RunningSector3, Stage!Becomes, Stage!Fields
  <2>6. CASE Stage!StartPhase2(c)
    BY <1>0, <2>6 DEF Stage!StartPhase2, Stage!Becomes, Stage!Fields
  <2>7. CASE Stage!RunningPhase2(c)
    BY <1>0, <2>7 DEF Stage!RunningPhase2, Stage!Becomes, Stage!Fields
  <2>8. CASE Stage!EndPhase2(c)
    BY <1>0, <2>8 DEF Stage!EndPhase2, Stage!Becomes, Stage!Fields
  <2>9. CASE Stage!OnFinished(c)
    BY <1>0, <2>9 DEF Stage!OnFinished, Stage!Becomes, Stage!Fields
  <2> QED
    BY <2>1, <2>2, <2>3, <2>4, <2>5, <2>6, <2>7, <2>8, <2>9
<1>2. UNCHANGED <<v2, v3, v4, v6>>
  BY DEF Stage!RunningSector1, Stage!RunningSector2, Stage!EndSector2, Stage!StartSector3,
         Stage!RunningSector3, Stage!StartPhase2, Stage!RunningPhase2, Stage!EndPhase2,
         Stage!OnFinished
<1>3. /\ v4' \in [Stage!Client -> Seq(Stage!Call)]
      /\ \A call : Stage!Called(call)' => Stage!Called(call)
  BY <1>2 DEF Stage!BossInv, Stage!Typed, Stage!Called
<1> QED
  BY <1>1, <1>2, <1>3, StageStays

\* A hero at the place of the film means that it has not begun.
LEMMA StageNotYet ==
    ASSUME Stage!BossInv, NEW c \in Stage!Client, Stage!IsAnyEntered(c, Stage!Phase3StartCP)
    PROVE  Stage!Before
  BY DEF Stage!IsAnyEntered, Stage!Phase3StartCP, Stage!Gathered, Stage!BossRoom, Stage!BossInv, Stage!Typed,
    Stage!Filming, Stage!Fighting

\* The film may be called as long as it has not begun.
LEMMA StageFades ==
    ASSUME Stage!BossInv, Stage!Before, NEW c \in Stage!Client, NEW s,
           v1' = [v1 EXCEPT ![c] = s], DOMAIN s = Stage!Fields, UNCHANGED <<v2, v3, v6>>,
           v4' \in [Stage!Client -> Seq(Stage!Call)], Stage!Called("film")' => Stage!Called("film"),
           s.film = "fade", s.bossDead = v1[c].bossDead, s.bossRunning = v1[c].bossRunning,
           s.end \/ s.over => v1[c].end \/ v1[c].over \/ s.bossDead
    PROVE  Stage!BossInv'
<1> USE DEF Stage!BossInv
<1>1. \A d \in Stage!Client : v1'[d] = IF d = c THEN s ELSE v1[d]
  BY DEF Stage!Typed
<1>2. Stage!Typed'
  BY <1>1 DEF Stage!Typed
<1>3. Stage!Before'
  BY <1>1 DEF Stage!Before
<1>4. Stage!AtTheDoor'
  BY DEF Stage!AtTheDoor
<1>5. Stage!Fought'
  BY <1>1 DEF Stage!Fought
<1> QED
  BY <1>2, <1>3, <1>4, <1>5

LEMMA StagePhase3 ==
    ASSUME Stage!BossInv, NEW c \in Stage!Client, Stage!RunningPhase3(c)
    PROVE  Stage!BossInv'
<1>0. DOMAIN v1 = Stage!Client /\ DOMAIN v1[c] = Stage!Fields
  BY DEF Stage!BossInv, Stage!Typed
<1> DEFINE s == v1'[c]
           starting == Stage!IsAnyEntered(c, Stage!Phase3StartCP) /\ ~v1[c].start
<1>1. /\ v1' = [v1 EXCEPT ![c] = s] /\ DOMAIN s = DOMAIN v1[c]
      /\ s.film = (IF starting THEN "fade" ELSE v1[c].film)
      /\ s.bossDead = v1[c].bossDead /\ s.bossRunning = v1[c].bossRunning
      /\ s.end => v1[c].end \/ Stage!AtTheEnd(c, v1[c])
      /\ s.over => v1[c].over \/ s.end
  <2> DEFINE Like(r) == /\ DOMAIN r = Stage!Fields /\ r.bossDead = v1[c].bossDead
                        /\ r.bossRunning = v1[c].bossRunning /\ r.over = v1[c].over
             fallen == IF v1[c].explosive = "exploded" THEN [v1[c] EXCEPT !.fence = FALSE] ELSE v1[c]
             entered == IF Stage!IsBothEntered(c, Stage!Phase3EnterCP) THEN [fallen EXCEPT !.behind = "closed"] ELSE fallen
             started == IF starting THEN Stage!Fade([entered EXCEPT !.start = TRUE]) ELSE entered
             done == IF Stage!AtTheEnd(c, v1[c]) THEN [started EXCEPT !.start = TRUE, !.end = TRUE] ELSE started
             last == [done EXCEPT !.over = @ \/ (done.start /\ done.end)]
  <2>1. Like(fallen) /\ fallen.film = v1[c].film /\ fallen.end = v1[c].end
    BY <1>0 DEF Stage!Fields
  <2>2. v1' = [v1 EXCEPT ![c] = last]
    BY DEF Stage!RunningPhase3, Stage!Becomes
  <2> HIDE DEF fallen
  <2>3. Like(entered) /\ entered.film = v1[c].film /\ entered.end = v1[c].end
    BY <2>1 DEF Stage!Fields
  <2> HIDE DEF entered
  <2>4. Like(started) /\ started.film = (IF starting THEN "fade" ELSE v1[c].film) /\ started.end = v1[c].end
    BY <2>3 DEF Stage!Fields, Stage!Fade
  <2> HIDE DEF started
  <2>5. /\ Like(done) /\ done.film = started.film
        /\ done.end => v1[c].end \/ Stage!AtTheEnd(c, v1[c])
    BY <2>4 DEF Stage!Fields
  <2> HIDE DEF done
  <2>6. /\ DOMAIN last = Stage!Fields /\ last.film = done.film /\ last.bossDead = done.bossDead
        /\ last.bossRunning = done.bossRunning /\ last.end = done.end
        /\ last.over => v1[c].over \/ done.end
    BY <2>5 DEF Stage!Fields
  <2> HIDE DEF last
  <2> QED
    BY <1>0, <2>2, <2>4, <2>5, <2>6
<1>2. UNCHANGED <<v2, v3, v6>> /\ (IF starting THEN Stage!Send(c, "start") ELSE v4' = v4)
  BY DEF Stage!RunningPhase3
<1>3. DOMAIN s = Stage!Fields
  BY <1>1 DEF Stage!BossInv, Stage!Typed
<1>4. Stage!AtTheEnd(c, v1[c]) => s.bossDead
  BY <1>1 DEF Stage!AtTheEnd, Stage!IsAnyEntered, Stage!BossInv, Stage!AtTheDoor, Stage!Fought
<1> HIDE DEF starting
<1>5. CASE starting
  BY <1>5, StageNotYet, <1>2, StageSends, <1>1, <1>3, <1>4, StageFades DEF starting, Stage!BossInv, Stage!Call
<1>6. CASE ~starting
  <2>1. /\ v4' \in [Stage!Client -> Seq(Stage!Call)]
        /\ \A call : Stage!Called(call)' => Stage!Called(call)
    BY <1>2, <1>6 DEF Stage!BossInv, Stage!Typed, Stage!Called
  <2> QED
    BY <1>1, <1>2, <1>3, <1>4, <1>6, <2>1, StageStays
<1> QED
  BY <1>5, <1>6

\* The heroes are taken to the boss.
LEMMA StageMoved ==
    ASSUME Stage!BossInv, v2' = Stage!Moved, v3' = [d \in Stage!Client |-> Stage!Moved]
    PROVE  /\ v2' \in [Stage!Client -> Stage!Place] /\ v3' \in [Stage!Client -> [Stage!Client -> Stage!Place]]
           /\ \A h \in Stage!Client : v2'[h] >= Stage!BossRoom /\ \A d \in Stage!Client : v3'[d][h] >= Stage!BossRoom
           /\ v6' = v6 => Stage!AtTheDoor'
<1>1. \A h \in Stage!Client : v2[h] \in Stage!Place
  BY DEF Stage!BossInv, Stage!Typed
<1>2. /\ Stage!Moved \in [Stage!Client -> Stage!Place]
      /\ \A h \in Stage!Client : /\ Stage!Moved[h] >= Stage!BossRoom
                                 /\ Stage!Moved[h] = Stage!Phase3EndCP => v2[h] = Stage!Phase3EndCP
  BY <1>1 DEF Stage!Moved, Stage!Place, Stage!Shelter, Stage!BossRoom, Stage!Phase3EndCP
<1> QED
  BY <1>2 DEF Stage!BossInv, Stage!AtTheDoor

LEMMA StageProduction ==
    ASSUME Stage!BossInv, NEW c \in Stage!Client, Stage!BossProduction(c)
    PROVE  Stage!BossInv'
<1>0. DOMAIN v1 = Stage!Client /\ \A d \in Stage!Client : DOMAIN v1[d] = Stage!Fields
  BY DEF Stage!BossInv, Stage!Typed
<1>1. /\ v1' = [v1 EXCEPT ![c] = v1'[c]] /\ v1'[c].film = "show" /\ DOMAIN v1'[c] = Stage!Fields
      /\ v1'[c].bossDead = v1[c].bossDead /\ v1'[c].bossRunning = v1[c].bossRunning
      /\ v1'[c].end = v1[c].end /\ v1'[c].over = v1[c].over
  BY <1>0 DEF Stage!BossProduction, Stage!Becomes, Stage!Film, Stage!Fields
<1>2. v2' = Stage!Moved /\ v3' = [d \in Stage!Client |-> Stage!Moved] /\ v6' = v6 /\ Stage!Send(c, "film")
  BY DEF Stage!BossProduction
<1>3. v4' \in [Stage!Client -> Seq(Stage!Call)] /\ (Stage!Called("start")' => Stage!Called("start"))
  BY <1>2, StageSends DEF Stage!BossInv, Stage!Call
<1>4. ~Stage!Called("start")
  BY DEF Stage!BossProduction, Stage!Settled, Stage!Called
<1>5. Stage!Gathered'
  BY <1>2, <1>3, <1>4, StageMoved DEF Stage!Gathered
<1>6. \A d \in Stage!Client : v6[d] = 0
  BY DEF Stage!BossProduction, Stage!BossInv, Stage!Before, Stage!Filming, Stage!Fighting
<1>7. Stage!Filming'
  BY <1>2, <1>5, <1>6 DEF Stage!Filming
<1>8. Stage!AtTheDoor'
  BY <1>2, StageMoved
<1>9. \A d \in Stage!Client : v1'[d] = IF d = c THEN v1'[c] ELSE v1[d]
  BY <1>0, <1>1
<1>10. Stage!Typed'
  BY <1>0, <1>1, <1>2, <1>3, <1>9, StageMoved DEF Stage!BossInv, Stage!Typed
<1>11. Stage!Fought'
  BY <1>1, <1>2, <1>9 DEF Stage!BossInv, Stage!Fought
<1> QED
  BY <1>7, <1>8, <1>10, <1>11 DEF Stage!BossInv

\* The film ends on client c: nobody will call it again.
LEMMA StageProductionEnd ==
    ASSUME Stage!BossInv, NEW c \in Stage!Client, Stage!BossProductionEnd(c)
    PROVE  Stage!BossInv'
<1>0. DOMAIN v1 = Stage!Client /\ \A d \in Stage!Client : DOMAIN v1[d] = Stage!Fields
  BY DEF Stage!BossInv, Stage!Typed
<1>1. /\ v1' = [v1 EXCEPT ![c] = v1'[c]] /\ v1'[c].film = "none" /\ DOMAIN v1'[c] = Stage!Fields
      /\ v1'[c].bossDead = v1[c].bossDead /\ v1'[c].bossRunning = TRUE
      /\ v1'[c].end = v1[c].end /\ v1'[c].over = v1[c].over
  BY <1>0 DEF Stage!BossProductionEnd, Stage!Becomes, Stage!Fields
<1>2. UNCHANGED <<v2, v3, v4>> /\ v6' = [v6 EXCEPT ![c] = @ + 1]
  BY DEF Stage!BossProductionEnd
<1>3. v1[c].film = "show" /\ ~Stage!Called("film") /\ \A d \in Stage!Client : v1[d].film # "fade"
  BY DEF Stage!BossProductionEnd, Stage!Called
<1>4. v6 \in [Stage!Client -> Nat] /\ v6' \in [Stage!Client -> Nat]
  BY <1>2 DEF Stage!BossInv, Stage!Typed
<1>5. Stage!Gathered /\ v6[c] = 0 /\ \A d \in Stage!Client : v6[d] <= (IF v1[d].film = "show" THEN 0 ELSE 1)
  BY <1>3, <1>4 DEF Stage!BossInv, Stage!Before, Stage!Filming, Stage!Fighting
<1>6. \A d \in Stage!Client : /\ v1'[d] = IF d = c THEN v1'[c] ELSE v1[d]
                              /\ v6'[d] = IF d = c THEN 1 ELSE v6[d]
  BY <1>0, <1>1, <1>2, <1>4, <1>5
<1>7. Stage!Gathered' /\ ~Stage!Called("film")'
  BY <1>2, <1>3, <1>5 DEF Stage!Gathered, Stage!Called
<1>8. Stage!Fighting'
  BY <1>1, <1>3, <1>4, <1>5, <1>6, <1>7 DEF Stage!Fighting
<1>9. Stage!AtTheDoor'
  BY <1>2, <1>4, <1>6 DEF Stage!BossInv, Stage!AtTheDoor
<1>10. Stage!Typed'
  BY <1>0, <1>1, <1>2, <1>4, <1>6 DEF Stage!BossInv, Stage!Typed
<1>11. Stage!Fought'
  BY <1>1, <1>4, <1>6 DEF Stage!BossInv, Stage!Fought
<1> QED
  BY <1>8, <1>9, <1>10, <1>11 DEF Stage!BossInv

LEMMA StageSent ==
    ASSUME Stage!BossInv, NEW c \in Stage!Client,
           Stage!Explode(c) \/ Stage!BossDies(c) \/ Stage!RunningBossPhase(c) \/ Stage!Press(c)
    PROVE  Stage!BossInv'
<1>0. DOMAIN v1 = Stage!Client /\ DOMAIN v1[c] = Stage!Fields
  BY DEF Stage!BossInv, Stage!Typed
<1> DEFINE s == v1'[c]
           Goes == /\ v1' = [v1 EXCEPT ![c] = s] /\ DOMAIN s = Stage!Fields /\ s.film = v1[c].film
                   /\ v1[c].bossDead => s.bossDead
                   /\ v1[c].bossRunning => s.bossRunning \/ s.bossDead
                   /\ s.end = v1[c].end /\ s.over = v1[c].over
           Told == \/ v4' = v4
                   \/ \E m \in Stage!Call \ {"start", "film"} : Stage!Send(c, m)
<1>1. Goes
  <2>1. CASE Stage!Explode(c)
    BY <1>0, <2>1 DEF Stage!Explode, Stage!Becomes, Stage!Fields
  <2>2. CASE Stage!BossDies(c)
    BY <1>0, <2>2 DEF Stage!BossDies, Stage!Becomes, Stage!Fields
  <2>3. CASE Stage!RunningBossPhase(c)
    BY <1>0, <2>3 DEF Stage!RunningBossPhase, Stage!Becomes, Stage!Fields
  <2>4. CASE Stage!Press(c)
    BY <1>0, <2>4 DEF Stage!Press, Stage!StartHacking, Stage!Fields
  <2> QED
    BY <2>1, <2>2, <2>3, <2>4
<1>2. UNCHANGED <<v2, v3, v6>> /\ Told
  BY DEF Stage!Explode, Stage!BossDies, Stage!RunningBossPhase, Stage!Press, Stage!Call
<1>3. /\ v4' \in [Stage!Client -> Seq(Stage!Call)]
      /\ \A call \in {"start", "film"} : Stage!Called(call)' => Stage!Called(call)
  <2>1. CASE v4' = v4
    BY <2>1 DEF Stage!BossInv, Stage!Typed, Stage!Called
  <2> QED
    BY <1>2, <2>1, StageSends DEF Stage!BossInv
<1> HIDE DEF s
<1> QED
  BY <1>1, <1>2, <1>3, StageStays

LEMMA StageRecv ==
    ASSUME Stage!BossInv, NEW c \in Stage!Client, Stage!RecvRPC(c)
    PROVE  Stage!BossInv'
<1>0. DOMAIN v1 = Stage!Client /\ \A d \in Stage!Client : DOMAIN v1[d] = Stage!Fields
  BY DEF Stage!BossInv, Stage!Typed
<1>1. PICK m \in Stage!Call : m = Head(v4[c]) /\ Stage!Called(m)
  BY StageTakes DEF Stage!RecvRPC, Stage!BossInv
<1>2. /\ v4' \in [Stage!Client -> Seq(Stage!Call)]
      /\ \A call : Stage!Called(call)' => Stage!Called(call)
  BY StageTakes DEF Stage!RecvRPC, Stage!BossInv
<1>3. /\ v2' = (IF m = "film" THEN Stage!Moved ELSE v2)
      /\ v3' = (IF m = "film" THEN [d \in Stage!Client |-> Stage!Moved] ELSE v3)
      /\ v6' = v6
  BY <1>1 DEF Stage!RecvRPC
<1> DEFINE s == v1'[c]
<1>4. CASE m \in {"press", "explode", "dies"}
  <2>1. /\ v1' = [v1 EXCEPT ![c] = s] /\ DOMAIN s = Stage!Fields /\ s.film = v1[c].film
        /\ v1[c].bossDead => s.bossDead
        /\ s.bossRunning = v1[c].bossRunning /\ s.end = v1[c].end /\ s.over = v1[c].over
    <3>1. CASE m = "press"
      <4>1. PICK near \in BOOLEAN : v1' = [v1 EXCEPT ![c] = Stage!StartHacking(v1[c], near)]
        BY <1>1, <3>1 DEF Stage!RecvRPC
      <4>2. s = Stage!StartHacking(v1[c], near)
        BY <1>0, <4>1
      <4> QED
        BY <1>0, <4>1, <4>2 DEF Stage!StartHacking, Stage!Fields
    <3>2. CASE m = "explode"
      BY ZenonT(60), <1>0, <1>1, <3>2 DEF Stage!RecvRPC, Stage!Fields
    <3>3. CASE m = "dies"
      BY ZenonT(60), <1>0, <1>1, <3>3 DEF Stage!RecvRPC, Stage!Fields
    <3> QED
      BY <1>4, <3>1, <3>2, <3>3
  <2>2. UNCHANGED <<v2, v3, v6>>
    BY <1>3, <1>4
  <2> HIDE DEF s
  <2> QED
    BY <1>2, <2>1, <2>2, StageStays
<1>5. CASE m = "start"
  <2>1. /\ v1' = [v1 EXCEPT ![c] = s] /\ DOMAIN s = Stage!Fields /\ s.film = "fade"
        /\ s.bossDead = v1[c].bossDead
        /\ s.bossRunning = v1[c].bossRunning /\ s.end = v1[c].end /\ s.over = v1[c].over
    BY <1>0, <1>1, <1>5 DEF Stage!RecvRPC, Stage!Fade, Stage!Fields
  <2>2. Stage!Before
    BY <1>1, <1>5 DEF Stage!BossInv, Stage!Filming, Stage!Fighting, Stage!Gathered
  <2>3. UNCHANGED <<v2, v3, v6>>
    BY <1>3, <1>5
  <2> HIDE DEF s
  <2> QED
    BY <1>2, <2>1, <2>2, <2>3, StageFades
<1>6. CASE m = "film"
  <2>1. /\ v1' = [v1 EXCEPT ![c] = s] /\ DOMAIN s = Stage!Fields /\ s.film = "show"
        /\ s.bossDead = v1[c].bossDead
        /\ s.bossRunning = v1[c].bossRunning /\ s.end = v1[c].end /\ s.over = v1[c].over
    BY ZenonT(60), <1>0, <1>1, <1>6 DEF Stage!RecvRPC, Stage!Film, Stage!Fields
  <2> HIDE DEF s
  <2>2. Stage!Filming
    BY <1>1, <1>6 DEF Stage!BossInv, Stage!Before, Stage!Fighting
  <2>3. Stage!Filming' /\ Stage!AtTheDoor'
    BY <1>2, <1>3, <1>6, <2>2, StageMoved DEF Stage!Filming, Stage!Gathered
  <2>4. \A d \in Stage!Client : v1'[d] = IF d = c THEN s ELSE v1[d]
    BY <1>0, <2>1
  <2>5. Stage!Typed'
    BY <1>0, <1>2, <1>3, <1>6, <2>1, <2>4, StageMoved DEF Stage!BossInv, Stage!Typed
  <2>6. Stage!Fought'
    BY <1>3, <2>1, <2>4 DEF Stage!BossInv, Stage!Fought
  <2> QED
    BY <2>3, <2>5, <2>6 DEF Stage!BossInv
<1> QED
  BY <1>4, <1>5, <1>6 DEF Stage!Call

\* A hero walks, and the other client sees it.
LEMMA StageWalks ==
    ASSUME Stage!BossInv, NEW c \in Stage!Client, Stage!Move(c) \/ Stage!See(c)
    PROVE  Stage!BossInv'
<1>1. UNCHANGED <<v1, v4, v6>>
  BY DEF Stage!Move, Stage!See
<1>2. v2 \in [Stage!Client -> Stage!Place] /\ v3 \in [Stage!Client -> [Stage!Client -> Stage!Place]]
  BY DEF Stage!BossInv, Stage!Typed
<1> DEFINE Further(now, before) == now = before \/ (now > before /\ now = Stage!Phase3EndCP
                                                    /\ \A d \in Stage!Client : v6[d] > 0)
                                   \/ (now > before /\ now < Stage!Phase3EndCP)
<1>3. /\ v2' \in [Stage!Client -> Stage!Place] /\ v3' \in [Stage!Client -> [Stage!Client -> Stage!Place]]
      /\ \A h \in Stage!Client : Further(v2'[h], v2[h])
      /\ \A d, h \in Stage!Client : v3'[d][h] = v3[d][h] \/ v3'[d][h] = v2[h] \/ v3'[d][h] = v2'[h]
  <2>1. CASE Stage!Move(c)
    BY <1>2, <2>1 DEF Stage!Move, Stage!Place, Stage!Shelter, Stage!Phase3EndCP
  <2>2. CASE Stage!See(c)
    BY <1>2, <2>2 DEF Stage!See
  <2> QED
    BY <2>1, <2>2
<1>4. ASSUME Stage!Gathered
      PROVE  Stage!Gathered'
  <2>1. ~Stage!Called("start")'
    BY <1>1, <1>4 DEF Stage!Gathered, Stage!Called
  <2>2. ASSUME NEW h \in Stage!Client
        PROVE  v2[h] >= Stage!BossRoom /\ v2'[h] >= Stage!BossRoom
    <3>1. v2[h] \in Nat /\ v2'[h] \in Nat /\ v2'[h] >= v2[h]
      BY <1>2, <1>3 DEF Stage!Place, Stage!Shelter, Stage!Phase3EndCP
    <3> QED
      BY <1>4, <3>1 DEF Stage!Gathered, Stage!BossRoom
  <2>3. ASSUME NEW h \in Stage!Client, NEW d \in Stage!Client
        PROVE  v3'[d][h] >= Stage!BossRoom
    BY <1>3, <1>4, <2>2 DEF Stage!Gathered
  <2> QED
    BY <2>1, <2>2, <2>3 DEF Stage!Gathered
<1>5. Stage!AtTheDoor'
  BY <1>1, <1>2, <1>3 DEF Stage!BossInv, Stage!AtTheDoor, Stage!Place, Stage!Shelter, Stage!Phase3EndCP
<1>6. Stage!Typed' /\ Stage!Fought'
  BY <1>1, <1>3 DEF Stage!BossInv, Stage!Typed, Stage!Fought
<1>7. (Stage!Before => Stage!Before') /\ (Stage!Filming => Stage!Filming') /\ (Stage!Fighting => Stage!Fighting')
  BY <1>1, <1>4 DEF Stage!Before, Stage!Filming, Stage!Fighting, Stage!Called
<1> QED
  BY <1>5, <1>6, <1>7 DEF Stage!BossInv

LEMMA StageKeeps ==
    ASSUME Stage!BossInv, Stage!Next
    PROVE  Stage!BossInv'
<1> SUFFICES ASSUME NEW c \in Stage!Client,
                    \/ Stage!Tick(c) \/ Stage!Explode(c) \/ Stage!BossDies(c) \/ Stage!Press(c)
                    \/ Stage!RecvRPC(c) \/ Stage!Move(c) \/ Stage!See(c)
             PROVE  Stage!BossInv'
  BY DEF Stage!Next
<1>1. CASE Stage!Tick(c)
  BY <1>1, StageQuiet, StagePhase3, StageProduction, StageProductionEnd, StageSent DEF Stage!Tick
<1> QED
  BY <1>1, StageSent, StageRecv, StageWalks

LEMMA StageInit ==
    ASSUME Stage!Init
    PROVE  Stage!BossInv
<1> USE DEF Stage!Init
<1>1. Stage!Typed
  BY DEF Stage!Typed, Stage!Fields, Stage!Place, Stage!Shelter, Stage!Phase3EndCP
<1>2. Stage!Before
  BY DEF Stage!Before, Stage!Called
<1>3. Stage!AtTheDoor
  BY DEF Stage!AtTheDoor, Stage!Shelter, Stage!Phase3EndCP
<1>4. Stage!Fought
  BY DEF Stage!Fought
<1> QED
  BY <1>1, <1>2, <1>3, <1>4 DEF Stage!BossInv

LEMMA StageStep == StageInv /\ [Next]_vars => StageInv'
<1> SUFFICES ASSUME StageInv, [Next]_vars, part' = "stages"
             PROVE  Stage!BossInv'
  BY DEF StageInv
<1>1. part = "stages" /\ Stage!BossInv
  BY DEF Next, vars, StageInv
<1>2. CASE Stage!Next
  BY <1>1, <1>2, StageKeeps
<1>3. CASE UNCHANGED vars
  BY <1>1, <1>3 DEF vars, Stage!BossInv, Stage!Typed, Stage!Before, Stage!Filming, Stage!Fighting,
                    Stage!Gathered, Stage!Called, Stage!AtTheDoor, Stage!Fought
<1> QED
  BY <1>1, <1>2, <1>3 DEF Next

\* However often and in whatever order the clients call the film, it starts the boss once on
\* each, and the game is over only when he is dead: for any number of presses of the panel
\* (APhase3::BossProductionStart, BossProduction, BossProductionEnd, RunningPhase3).
THEOREM BossOnceHolds == Spec => []BossOnce
<1>1. Init => StageInv
  BY StageInit DEF Init, StageInv
<1>2. StageInv => BossOnce
  <2> SUFFICES ASSUME Stage!BossInv
               PROVE  Stage!BossOnce
    BY DEF StageInv, BossOnce
  <2>1. \A c \in Stage!Client : v6[c] \in Nat /\ v6[c] <= 1
    BY DEF Stage!BossInv, Stage!Typed, Stage!Before, Stage!Filming, Stage!Fighting
  <2> QED
    BY <2>1 DEF Stage!BossInv, Stage!Fought, Stage!BossOnce
<1> QED
  BY <1>1, <1>2, StageStep, PTL DEF Spec

(***************************************************************************)
(* The mind of an enemy.  v2 is ai, v3 master, v7 orphan and v8 adopted.   *)
(***************************************************************************)
MindInv == part = "mind" => TheMind!MindInv /\ TheMind!Sent

\* An enemy that is stopped for a reason, or restarted.
LEMMA MindStopped ==
    ASSUME NEW w, DOMAIN w = TheMind!Fields, NEW c, TheMind!Reason(w) \/ w.die, c = v3
    PROVE  TheMind!WellOff(TheMind!AIDisable(c, w))
BY DEF TheMind!AIDisable, TheMind!StateReset, TheMind!WellOff, TheMind!Reason, TheMind!Fields

LEMMA MindRestarted ==
    ASSUME NEW w, DOMAIN w = TheMind!Fields, NEW c, c = v3
    PROVE  TheMind!WellOff(TheMind!AIRestart(c, w))
BY DEF TheMind!AIRestart, TheMind!StateReset, TheMind!WellOff, TheMind!Reason, TheMind!Fields

\* The same on the other client, where both do nothing.
LEMMA MindElsewhere ==
    ASSUME NEW w, DOMAIN w = TheMind!Fields, NEW c
    PROVE  /\ DOMAIN TheMind!AIDisable(c, w) = TheMind!Fields
           /\ DOMAIN TheMind!AIRestart(c, w) = TheMind!Fields
BY DEF TheMind!AIDisable, TheMind!AIRestart, TheMind!StateReset, TheMind!Fields

\* What stops an enemy stops it for a reason.
LEMMA MindHit ==
    ASSUME NEW w, DOMAIN w = TheMind!Fields, NEW c
    PROVE  /\ DOMAIN TheMind!BeHitAnimation(c, w) = TheMind!Fields
           /\ DOMAIN TheMind!RigidityAI(c, w) = TheMind!Fields
           /\ DOMAIN TheMind!DieProcess(c, w) = TheMind!Fields
           /\ DOMAIN TheMind!HACKEDLaunchCharacter(c, w) = TheMind!Fields
           /\ c = v3 /\ TheMind!WellOff(w) =>
                /\ TheMind!WellOff(TheMind!BeHitAnimation(c, w)) /\ TheMind!WellOff(TheMind!RigidityAI(c, w))
                /\ TheMind!WellOff(TheMind!DieProcess(c, w))
                /\ TheMind!WellOff(TheMind!HACKEDLaunchCharacter(c, w))
<1> DEFINE hit == [TheMind!StateReset(w) EXCEPT !.hit = TRUE, !.canHit = FALSE]
           stunned == [TheMind!StateReset(w) EXCEPT !.rigid = TRUE, !.canRigid = FALSE]
           dead == [TheMind!StateReset(w) EXCEPT !.die = TRUE]
           pushed == [w EXCEPT !.launch = TRUE]
<1>1. /\ DOMAIN hit = TheMind!Fields /\ hit.hit = TRUE
      /\ DOMAIN stunned = TheMind!Fields /\ stunned.rigid = TRUE
      /\ DOMAIN dead = TheMind!Fields /\ dead.die = TRUE
      /\ DOMAIN pushed = TheMind!Fields /\ pushed.launch = TRUE
  BY DEF TheMind!StateReset, TheMind!Fields
<1>2. /\ TheMind!BeHitAnimation(c, w) = w \/ TheMind!BeHitAnimation(c, w) = TheMind!AIDisable(c, hit)
      /\ TheMind!RigidityAI(c, w) = w \/ TheMind!RigidityAI(c, w) = TheMind!AIDisable(c, stunned)
      /\ TheMind!DieProcess(c, w) = w \/ TheMind!DieProcess(c, w) = TheMind!AIDisable(c, dead)
      /\ TheMind!HACKEDLaunchCharacter(c, w) = TheMind!AIDisable(c, pushed)
  BY DEF TheMind!BeHitAnimation, TheMind!RigidityAI, TheMind!DieProcess, TheMind!HACKEDLaunchCharacter
<1> HIDE DEF hit, stunned, dead, pushed
<1>3. TheMind!Reason(hit) /\ TheMind!Reason(stunned) /\ TheMind!Reason(pushed)
  BY <1>1 DEF TheMind!Reason
<1> QED
  BY <1>1, <1>2, <1>3, MindStopped, MindElsewhere

\* Client c goes on with enemy w.
LEMMA MindBecomes ==
    ASSUME TheMind!MindInv, NEW c \in TheMind!Client, NEW w,
           v2' = [v2 EXCEPT ![c] = w], DOMAIN w = TheMind!Fields, v3' = v3,
           v7' = (v7 /\ ~(c = v3 /\ w.brain)), v8 => v8',
           c = v3 => TheMind!WellOff(w)
    PROVE  TheMind!MindInv'
  BY DEF TheMind!MindInv, TheMind!Mind, TheMind!WellOff, TheMind!Reason

\* The calls of client c that go on with an enemy w.
MindGoes(c, w) == v2' = [v2 EXCEPT ![c] = w] /\ v7' = (v7 /\ ~(c = v3 /\ w.brain)) /\ v3' = v3 /\ (v8 => v8')

LEMMA MindInput ==
    ASSUME TheMind!MindInv, NEW c \in TheMind!Client,
           \/ TheMind!TakeDamage(c) \/ TheMind!Push(c) \/ TheMind!PsychicOverDrive(c)
           \/ TheMind!PsychicForceStun(c)
    PROVE  TheMind!MindInv'
<1> DEFINE Fit(w) == DOMAIN w = TheMind!Fields /\ (c = v3 => TheMind!WellOff(w))
<1>1. Fit(v2[c])
  BY DEF TheMind!MindInv, TheMind!Mind
<1> SUFFICES \E w : MindGoes(c, w) /\ Fit(w)
  BY MindBecomes DEF MindGoes
<1>2. ASSUME NEW w, Fit(w)
      PROVE  /\ Fit(TheMind!BeHitAnimation(c, w)) /\ Fit(TheMind!RigidityAI(c, w))
             /\ Fit(TheMind!DieProcess(c, w)) /\ Fit(TheMind!HACKEDLaunchCharacter(c, w))
  BY <1>2, MindHit
<1>3. CASE TheMind!TakeDamage(c)
  <2>0. \A w, calls : TheMind!Become(c, w, calls) => MindGoes(c, w)
    BY <1>3 DEF TheMind!TakeDamage, TheMind!Become, MindGoes
  <2>1. PICK effect \in {"stun", "hit", "none"}, dies \in BOOLEAN :
          LET w == v2[c]
              stuns == effect = "stun" /\ w.canRigid
              hurt == IF stuns THEN TheMind!RigidityAI(c, w)
                      ELSE IF effect = "hit" THEN TheMind!BeHitAnimation(c, w) ELSE w
          IN  \E calls : TheMind!Become(c, IF dies THEN TheMind!DieProcess(c, hurt) ELSE hurt, calls)
    <3> HIDE DEF Fit
    <3> QED
      BY <1>3, Zenon DEF TheMind!TakeDamage
  <2> DEFINE hurt == IF effect = "stun" /\ v2[c].canRigid THEN TheMind!RigidityAI(c, v2[c])
                     ELSE IF effect = "hit" THEN TheMind!BeHitAnimation(c, v2[c]) ELSE v2[c]
             last == IF dies THEN TheMind!DieProcess(c, hurt) ELSE hurt
  <2> HIDE DEF Fit
  <2>2. Fit(hurt)
    BY <1>1, <1>2
  <2> HIDE DEF hurt
  <2>3. Fit(last)
    BY <1>2, <2>2
  <2>4. MindGoes(c, last)
    BY <2>0, <2>1, Zenon DEF hurt
  <2> QED
    BY <2>3, <2>4
<1>4. CASE TheMind!Push(c)
  <2>1. PICK force \in BOOLEAN : MindGoes(c, TheMind!HACKEDLaunchCharacter(c, [v2[c] EXCEPT !.stun = @ \/ force]))
    BY <1>4 DEF TheMind!Push, TheMind!Become, MindGoes
  <2>2. Fit([v2[c] EXCEPT !.stun = @ \/ force])
    BY <1>1 DEF TheMind!WellOff, TheMind!Reason, TheMind!Fields
  <2> HIDE DEF Fit
  <2> QED
    BY SMTT(60), <1>2, <2>1, <2>2
<1>5. CASE TheMind!PsychicOverDrive(c)
  <2>1. MindGoes(c, TheMind!AIDisable(c, [v2[c] EXCEPT !.held = "hover"]))
    BY <1>5 DEF TheMind!PsychicOverDrive, TheMind!Become, MindGoes
  <2> DEFINE w == [v2[c] EXCEPT !.held = "hover"]
  <2>2. DOMAIN w = TheMind!Fields /\ TheMind!Reason(w)
    BY <1>1 DEF TheMind!Reason, TheMind!Fields
  <2> HIDE DEF w
  <2>3. Fit(TheMind!AIDisable(c, w))
    BY <2>2, MindStopped, MindElsewhere
  <2> QED
    BY <2>1, <2>3 DEF w
<1>6. CASE TheMind!PsychicForceStun(c)
  <2>1. MindGoes(c, TheMind!BeHitAnimation(c, [v2[c] EXCEPT !.stun = FALSE]))
    BY <1>6 DEF TheMind!PsychicForceStun, TheMind!Become, MindGoes, TheMind!Rest
  <2>2. Fit([v2[c] EXCEPT !.stun = FALSE])
    BY <1>1 DEF TheMind!WellOff, TheMind!Reason, TheMind!Fields
  <2> HIDE DEF Fit
  <2> QED
    BY <1>2, <2>1, <2>2
<1> QED
  BY <1>3, <1>4, <1>5, <1>6

\* What held the enemy ends, and it is restarted.
LEMMA MindEnd ==
    ASSUME TheMind!MindInv, NEW c \in TheMind!Client,
           \/ TheMind!PsychicOverDriveDamaging(c) \/ TheMind!LaunchEnd(c)
           \/ TheMind!OnEndHitAnimation(c) \/ TheMind!RigidityEnd(c)
    PROVE  TheMind!MindInv'
<1>1. DOMAIN v2[c] = TheMind!Fields
  BY DEF TheMind!MindInv
<1>2. PICK w : MindGoes(c, TheMind!AIRestart(c, w)) /\ DOMAIN w = DOMAIN v2[c]
  <2>1. CASE TheMind!PsychicOverDriveDamaging(c)
    <3>1. MindGoes(c, TheMind!AIRestart(c, [v2[c] EXCEPT !.held = "no"]))
      BY <2>1 DEF TheMind!PsychicOverDriveDamaging, TheMind!Become, MindGoes, TheMind!Rest
    <3> QED
      BY <3>1
  <2>2. CASE TheMind!LaunchEnd(c)
    <3>1. MindGoes(c, TheMind!AIRestart(c, [v2[c] EXCEPT !.launch = FALSE]))
      BY <2>2 DEF TheMind!LaunchEnd, TheMind!LaunchEnds, TheMind!Become, MindGoes, TheMind!Rest
    <3> QED
      BY <3>1
  <2>3. CASE TheMind!OnEndHitAnimation(c)
    <3>1. MindGoes(c, TheMind!AIRestart(c, [v2[c] EXCEPT !.hit = FALSE, !.canHit = TRUE]))
      BY <2>3 DEF TheMind!OnEndHitAnimation, TheMind!Become, MindGoes, TheMind!Rest
    <3>2. DOMAIN [v2[c] EXCEPT !.hit = FALSE, !.canHit = TRUE] = DOMAIN v2[c]
      OBVIOUS
    <3> QED
      BY <3>1, <3>2
  <2>4. CASE TheMind!RigidityEnd(c)
    <3>1. MindGoes(c, TheMind!AIRestart(c, [v2[c] EXCEPT !.rigid = FALSE]))
      BY <2>4 DEF TheMind!RigidityEnd, TheMind!Become, MindGoes, TheMind!Rest
    <3>2. DOMAIN [v2[c] EXCEPT !.rigid = FALSE] = DOMAIN v2[c]
      OBVIOUS
    <3> QED
      BY <3>1, <3>2
  <2> QED
    BY <2>1, <2>2, <2>3, <2>4
<1> QED
  BY <1>1, <1>2, MindRestarted, MindElsewhere, MindBecomes DEF MindGoes

\* What the mind does, and what neither stops it nor ends its attack.
LEMMA MindActs ==
    ASSUME TheMind!MindInv, NEW c \in TheMind!Client,
           \/ TheMind!PsychicOverDriveEndAction(c) \/ TheMind!RigidityCoolDown(c)
           \/ TheMind!ExecuteTask(c) \/ TheMind!LaserShockEnd(c) \/ TheMind!TickTask(c)
           \/ TheMind!OnBladeMontageEnded(c)
    PROVE  TheMind!MindInv'
<1> DEFINE Fit(w) == DOMAIN w = TheMind!Fields /\ (c = v3 => TheMind!WellOff(w))
           Good == \E w : MindGoes(c, w) /\ Fit(w)
<1>1. DOMAIN v2[c] = TheMind!Fields /\ (c = v3 => TheMind!WellOff(v2[c]))
  BY DEF TheMind!MindInv, TheMind!Mind
<1> USE DEF TheMind!WellOff, TheMind!Reason, TheMind!Fields
<1>2. ASSUME TheMind!PsychicOverDriveEndAction(c)
      PROVE  Good
  <2>1. MindGoes(c, [v2[c] EXCEPT !.held = "drop"])
    BY <1>2 DEF TheMind!PsychicOverDriveEndAction, TheMind!Become, MindGoes, TheMind!Rest
  <2>2. Fit([v2[c] EXCEPT !.held = "drop"])
    BY <1>1
  <2> HIDE DEF Fit
  <2> QED
    BY <2>1, <2>2
<1>3. ASSUME TheMind!RigidityCoolDown(c)
      PROVE  Good
  <2>1. MindGoes(c, [v2[c] EXCEPT !.canRigid = TRUE])
    BY <1>3 DEF TheMind!RigidityCoolDown, TheMind!Become, MindGoes, TheMind!Rest
  <2>2. Fit([v2[c] EXCEPT !.canRigid = TRUE])
    BY <1>1
  <2> HIDE DEF Fit
  <2> QED
    BY <2>1, <2>2
<1>4. ASSUME TheMind!ExecuteTask(c)
      PROVE  Good
  <2>1. \/ MindGoes(c, [v2[c] EXCEPT !.task = "attack", !.long = TRUE])
        \/ (v2[c].short \/ v2[c].rigid) /\ MindGoes(c, [v2[c] EXCEPT !.task = "attack"])
        \/ MindGoes(c, [v2[c] EXCEPT !.task = "attack", !.saved = TRUE, !.short = TRUE])
    BY <1>4 DEF TheMind!ExecuteTask, TheMind!LaserShock, TheMind!BladeShock, TheMind!Become, MindGoes
  <2>2. v2[c].brain
    BY <1>4 DEF TheMind!ExecuteTask
  <2>3. /\ Fit([v2[c] EXCEPT !.task = "attack", !.long = TRUE])
        /\ v2[c].short \/ v2[c].rigid => Fit([v2[c] EXCEPT !.task = "attack"])
        /\ Fit([v2[c] EXCEPT !.task = "attack", !.saved = TRUE, !.short = TRUE])
    BY <1>1, <2>2
  <2> HIDE DEF Fit
  <2> QED
    BY <2>1, <2>3
<1>5. ASSUME TheMind!LaserShockEnd(c)
      PROVE  Good
  <2>1. MindGoes(c, [v2[c] EXCEPT !.long = FALSE, !.done = TRUE])
    BY <1>5 DEF TheMind!LaserShockEnd, TheMind!LaserEnds, TheMind!Become, MindGoes, TheMind!Rest
  <2>2. Fit([v2[c] EXCEPT !.long = FALSE, !.done = TRUE])
    BY <1>1
  <2> HIDE DEF Fit
  <2> QED
    BY <2>1, <2>2
<1>6. ASSUME TheMind!TickTask(c)
      PROVE  Good
  <2>1. MindGoes(c, [v2[c] EXCEPT !.done = FALSE, !.task = "none"])
    BY <1>6 DEF TheMind!TickTask, TheMind!Become, MindGoes, TheMind!Rest
  <2>2. Fit([v2[c] EXCEPT !.done = FALSE, !.task = "none"])
    BY <1>1
  <2> HIDE DEF Fit
  <2> QED
    BY <2>1, <2>2
<1>7. ASSUME TheMind!OnBladeMontageEnded(c)
      PROVE  Good
  <2> DEFINE ended == [v2[c] EXCEPT !.short = FALSE, !.task = IF v2[c].saved THEN "none" ELSE @]
  <2>1. v2[c].short /\ (MindGoes(c, v2[c]) \/ MindGoes(c, ended))
    BY <1>7 DEF TheMind!OnBladeMontageEnded, TheMind!Become, MindGoes
  <2>2. Fit(v2[c]) /\ Fit(ended)
    BY <1>1, <2>1
  <2> HIDE DEF Fit, ended
  <2> QED
    BY <2>1, <2>2
<1>8. Good
  <2> HIDE DEF Good
  <2> QED
    BY <1>2, <1>3, <1>4, <1>5, <1>6, <1>7
<1> HIDE DEF TheMind!WellOff, TheMind!Reason, TheMind!Fields
<1> QED
  BY <1>8, MindBecomes DEF Good, MindGoes

\* What is sent is known.
LEMMA MindBecomesSent ==
    ASSUME TheMind!Sent, NEW c \in TheMind!Client, NEW w, NEW calls \in Seq(TheMind!Message),
           TheMind!Become(c, w, calls)
    PROVE  TheMind!Sent'
<1> DEFINE flag == IF w.on = v2[c].on THEN << >> ELSE <<IF w.on THEN "On" ELSE "Off">>
           o == TheMind!Other(c)
<1>1. v4' = [v4 EXCEPT ![o] = (@ \o calls) \o flag]
  BY DEF TheMind!Become
<1>2. flag \in Seq(TheMind!Message)
  <2>1. << >> \in Seq(TheMind!Message) /\ <<"On">> \in Seq(TheMind!Message) /\ <<"Off">> \in Seq(TheMind!Message)
    BY DEF TheMind!Message
  <2>2. flag = << >> \/ flag = <<"On">> \/ flag = <<"Off">>
    OBVIOUS
  <2> QED
    BY <2>1, <2>2
<1>3. o \in TheMind!Client /\ v4[o] \in Seq(TheMind!Message)
  BY DEF TheMind!Other, TheMind!Client, TheMind!Sent
<1> HIDE DEF flag, o
<1>4. (v4[o] \o calls) \o flag \in Seq(TheMind!Message)
  BY <1>2, <1>3
<1> QED
  BY <1>1, <1>4 DEF TheMind!Sent

LEMMA MindSends ==
    ASSUME TheMind!Sent, NEW c \in TheMind!Client,
           \/ TheMind!TakeDamage(c) \/ TheMind!Push(c) \/ TheMind!PsychicOverDrive(c)
           \/ TheMind!PsychicOverDriveEndAction(c) \/ TheMind!PsychicOverDriveDamaging(c)
           \/ TheMind!PsychicForceStun(c) \/ TheMind!LaunchEnd(c) \/ TheMind!OnEndHitAnimation(c)
           \/ TheMind!RigidityEnd(c) \/ TheMind!RigidityCoolDown(c) \/ TheMind!ExecuteTask(c)
           \/ TheMind!LaserShockEnd(c) \/ TheMind!TickTask(c) \/ TheMind!OnBladeMontageEnded(c)
    PROVE  TheMind!Sent'
<1> DEFINE Calls == Seq(TheMind!Message)
           Known == \E w, calls : calls \in Calls /\ TheMind!Become(c, w, calls)
<1>1. /\ << >> \in Calls /\ <<"Long">> \in Calls /\ <<"Short">> \in Calls
      /\ \A w : TheMind!BeHitCalls(w) \in Calls /\ TheMind!StunCalls(w) \in Calls
  <2>1. /\ << >> \in Calls /\ <<"Long">> \in Calls /\ <<"Short">> \in Calls
        /\ <<"BeHit">> \in Calls /\ <<"BeHit", "BeHit">> \in Calls
        /\ <<"Stun">> \in Calls /\ <<"Stun", "Stun">> \in Calls
    BY DEF TheMind!Message
  <2> HIDE DEF Calls
  <2> QED
    BY <2>1, Zenon DEF TheMind!BeHitCalls, TheMind!StunCalls
<1>2. \A calls \in Calls : Append(calls, "Die") \in Calls
  BY DEF TheMind!Message
<1> HIDE DEF Calls
<1>3. ASSUME TheMind!TakeDamage(c)
      PROVE  Known
  <2>1. PICK w, calls : /\ TheMind!Become(c, w, calls)
                        /\ \E first \in {TheMind!StunCalls(v2[c]), TheMind!BeHitCalls(v2[c]), << >>} :
                             calls = first \/ calls = Append(first, "Die")
    BY <1>3 DEF TheMind!TakeDamage
  <2> QED
    BY <1>1, <1>2, <2>1
<1>4. ASSUME TheMind!Push(c) \/ TheMind!PsychicOverDrive(c) \/ TheMind!PsychicOverDriveEndAction(c)
             \/ TheMind!PsychicOverDriveDamaging(c) \/ TheMind!LaunchEnd(c) \/ TheMind!OnEndHitAnimation(c)
             \/ TheMind!RigidityEnd(c) \/ TheMind!RigidityCoolDown(c) \/ TheMind!LaserShockEnd(c)
             \/ TheMind!TickTask(c)
      PROVE  Known
  <2>1. \E w : TheMind!Become(c, w, << >>)
    BY <1>4, Zenon DEF TheMind!Push, TheMind!PsychicOverDrive, TheMind!PsychicOverDriveEndAction,
             TheMind!PsychicOverDriveDamaging, TheMind!LaunchEnd, TheMind!OnEndHitAnimation,
             TheMind!RigidityEnd, TheMind!RigidityCoolDown, TheMind!LaserShockEnd, TheMind!TickTask
  <2> QED
    BY <1>1, <2>1
<1>5. ASSUME TheMind!PsychicForceStun(c)
      PROVE  Known
  BY <1>5, <1>1 DEF TheMind!PsychicForceStun
<1>6. ASSUME TheMind!ExecuteTask(c)
      PROVE  Known
  BY <1>6, <1>1 DEF TheMind!LaserShock, TheMind!BladeShock, TheMind!ExecuteTask
<1>7. ASSUME TheMind!OnBladeMontageEnded(c)
      PROVE  Known
  BY <1>7, <1>1 DEF TheMind!OnBladeMontageEnded
<1>8. Known
  <2> HIDE DEF Known
  <2> QED
    BY <1>3, <1>4, <1>5, <1>6, <1>7
<1> QED
  BY <1>8, MindBecomesSent DEF Calls

\* A call arrives.
LEMMA MindRecv ==
    ASSUME TheMind!MindInv, TheMind!Sent, NEW c \in TheMind!Client, TheMind!RecvRPC(c)
    PROVE  TheMind!MindInv' /\ TheMind!Sent'
<1> DEFINE m == Head(v4[c])
           w == v2[c]
           r == CASE m = "BeHit" -> TheMind!BeHitAnimation(c, w)
                  [] m = "Stun" -> TheMind!RigidityAI(c, w)
                  [] m = "Die" -> TheMind!DieProcess(c, w)
                  [] m = "Long" -> IF w.die THEN w ELSE [w EXCEPT !.long = TRUE]
                  [] m = "Short" -> [w EXCEPT !.short = TRUE]
                  [] m \in {"On", "Off"} -> [w EXCEPT !.on = (m = "On")]
           told == IF c # v3 \/ r.on = w.on THEN << >> ELSE <<IF r.on THEN "On" ELSE "Off">>
           o == TheMind!Other(c)
<1>1. /\ v4[c] # << >>
      /\ v2' = [v2 EXCEPT ![c] = r]
      /\ v7' = (v7 /\ ~(c = v3 /\ r.brain))
      /\ v4' = [v4 EXCEPT ![c] = Tail(@), ![o] = @ \o told]
      /\ v8' = (v8 \/ (c = v3 /\ m = "Short"))
      /\ v3' = v3
  <2> HIDE DEF m, w, o
  <2> USE DEF m, w, o
  <2> QED
    BY Zenon DEF TheMind!RecvRPC
<1>2. m \in TheMind!Message /\ Tail(v4[c]) \in Seq(TheMind!Message) /\ v4[o] \in Seq(TheMind!Message)
  <2>1. c \in {0, 1} /\ o \in {0, 1} /\ v4[c] \in Seq(TheMind!Message) /\ v4[o] \in Seq(TheMind!Message)
    BY DEF TheMind!Sent, TheMind!Other, TheMind!Client
  <2> HIDE DEF o, r, told, w
  <2>2. v4[c] # << >>
    BY <1>1
  <2> QED
    BY <2>1, <2>2
<1>3. TheMind!Sent'
  <2>1. << >> \in Seq(TheMind!Message) /\ <<"On">> \in Seq(TheMind!Message) /\ <<"Off">> \in Seq(TheMind!Message)
    BY DEF TheMind!Message
  <2>2. told = << >> \/ told = <<"On">> \/ told = <<"Off">>
    OBVIOUS
  <2>3. told \in Seq(TheMind!Message)
    BY <2>1, <2>2
  <2>4. o \in TheMind!Client /\ o # c
    BY DEF TheMind!Other, TheMind!Client
  <2> HIDE DEF told, o, r, m, w
  <2>5. v4[o] \o told \in Seq(TheMind!Message)
    BY <1>2, <2>3
  <2>6. v4' = [v4 EXCEPT ![c] = Tail(v4[c]), ![o] = v4[o] \o told]
    BY <1>1, <2>4
  <2> QED
    BY <1>2, <2>5, <2>6 DEF TheMind!Sent
<1>4. DOMAIN w = TheMind!Fields /\ (c = v3 => TheMind!WellOff(w))
  BY DEF TheMind!MindInv, TheMind!Mind
<1>5. CASE m = "Short"
  <2>1. r = [w EXCEPT !.short = TRUE]
    BY <1>5
  <2>2. DOMAIN r = TheMind!Fields
    BY <1>4, <2>1
  <2>3. c # v3 => TheMind!MindInv'
    BY <1>1, <2>2, MindBecomes
  <2>4. ASSUME c = v3
        PROVE  TheMind!MindInv'
    <3>1. v8' = TRUE
      BY <1>1, <1>5, <2>4
    <3> HIDE DEF r, m, told, o
    <3>2. /\ v3' = v3 /\ v3 \in TheMind!Client /\ DOMAIN v2' = TheMind!Client
          /\ \A d \in TheMind!Client : v2'[d] = IF d = c THEN r ELSE v2[d]
      BY <1>1 DEF TheMind!MindInv
    <3>3. \A d \in TheMind!Client : DOMAIN v2'[d] = TheMind!Fields
      BY <2>2, <3>2 DEF TheMind!MindInv
    <3>4. /\ r.die = w.die /\ r.brain = w.brain /\ TheMind!Reason(r) = TheMind!Reason(w)
          /\ v2'[v3] = r
      BY <1>4, <2>1, <2>4, <3>2 DEF TheMind!Reason, TheMind!Fields
    <3>5. ~w.die /\ ~w.brain /\ ~v7 => TheMind!Reason(w)
      BY <1>4, <2>4 DEF TheMind!WellOff
    <3> HIDE DEF w
    <3>6. ~r.die /\ ~r.brain /\ ~v7' => TheMind!Reason(r)
      BY <1>1, <2>4, <3>4, <3>5
    <3>7. TheMind!WellOff(TheMind!Mind)'
      BY <2>2, <3>1, <3>2, <3>4, <3>6 DEF TheMind!WellOff, TheMind!Mind, TheMind!Reason
    <3> QED
      BY <3>2, <3>3, <3>7 DEF TheMind!MindInv
  <2> QED
    BY <1>3, <2>3, <2>4
<1>6. CASE m # "Short"
  <2>1. DOMAIN r = TheMind!Fields /\ (c = v3 => TheMind!WellOff(r))
    <3>1. CASE m = "BeHit" \/ m = "Stun" \/ m = "Die"
      <4>1. r = TheMind!BeHitAnimation(c, w) \/ r = TheMind!RigidityAI(c, w) \/ r = TheMind!DieProcess(c, w)
        BY <3>1
      <4> HIDE DEF r, w, m
      <4>2. c = v3 /\ TheMind!WellOff(w) => TheMind!WellOff(r)
        BY <1>4, <4>1, MindHit
      <4> QED
        BY <1>4, <4>1, <4>2, MindHit
    <3>2. CASE m = "Long"
      <4>1. r = w \/ r = [w EXCEPT !.long = TRUE]
        BY <3>2
      <4> HIDE DEF r, w, m
      <4> QED
        BY <1>4, <4>1 DEF TheMind!WellOff, TheMind!Reason, TheMind!Fields
    <3>3. CASE m = "On" \/ m = "Off"
      <4>1. r = [w EXCEPT !.on = (m = "On")]
        BY <3>3
      <4> HIDE DEF r, w, m
      <4> QED
        BY <1>4, <4>1 DEF TheMind!WellOff, TheMind!Reason, TheMind!Fields
    <3> HIDE DEF r, w, m
    <3> QED
      BY <1>2, <1>6, <3>1, <3>2, <3>3 DEF TheMind!Message
  <2> HIDE DEF r, w, m
  <2> QED
    BY <1>1, <1>3, <2>1, MindBecomes
<1> QED
  BY <1>5, <1>6

\* The master is lost.
LEMMA MindSlotChange ==
    ASSUME TheMind!MindInv, TheMind!Sent, TheMind!OnSlotChange
    PROVE  TheMind!MindInv' /\ TheMind!Sent'
<1> DEFINE new == 1 - v3
           w == v2[new]
<1>1. /\ v3' = new
      /\ v2' = [v2 EXCEPT ![new].brain = w.on, ![new].task = "none", ![v3].brain = FALSE, ![v3].task = "none"]
      /\ v4' = [c \in TheMind!Client |-> << >>]
      /\ v7' = (~w.on /\ ~TheMind!Reason(w))
      /\ v8' = (v8 \/ w.short)
  BY DEF TheMind!OnSlotChange, TheMind!Other
<1>2. v3 \in {0, 1} /\ new \in {0, 1} /\ new # v3 /\ TheMind!Client = {0, 1}
  BY DEF TheMind!MindInv, TheMind!Client
<1>3. DOMAIN v2 = {0, 1} /\ (\A c \in {0, 1} : DOMAIN v2[c] = TheMind!Fields)
  BY <1>2 DEF TheMind!MindInv
<1> HIDE DEF new
<1>4. v2'[new] = [w EXCEPT !.brain = w.on, !.task = "none"]
  BY <1>1, <1>2, <1>3
<1>5. DOMAIN v2' = {0, 1} /\ (\A c \in {0, 1} : DOMAIN v2'[c] = TheMind!Fields)
  BY <1>1, <1>2, <1>3
<1>6. /\ v2'[new].brain = w.on /\ v2'[new].task = "none"
      /\ v2'[new].short = w.short /\ v2'[new].saved = w.saved
      /\ TheMind!Reason(v2'[new]) = TheMind!Reason(w)
  BY SMTT(60), <1>2, <1>3, <1>4 DEF TheMind!Fields, TheMind!Reason
<1>7. TheMind!WellOff(TheMind!Mind)'
  BY <1>1, <1>2, <1>5, <1>6 DEF TheMind!WellOff, TheMind!Reason, TheMind!Mind
<1>8. TheMind!Sent'
  BY <1>1 DEF TheMind!Sent
<1> QED
  BY <1>1, <1>2, <1>5, <1>7, <1>8 DEF TheMind!MindInv

LEMMA MindInit == TheMind!Init => TheMind!MindInv /\ TheMind!Sent
<1> SUFFICES ASSUME TheMind!Init
             PROVE  TheMind!MindInv /\ TheMind!Sent
  OBVIOUS
<1>1. << >> \in Seq(TheMind!Message)
  OBVIOUS
<1> QED
  BY <1>1 DEF TheMind!Init, TheMind!MindInv, TheMind!Sent, TheMind!WellOff, TheMind!Reason, TheMind!Mind,
              TheMind!Fields, TheMind!Client

LEMMA MindStep == MindInv /\ [Next]_vars => MindInv'
<1> SUFFICES ASSUME MindInv, [Next]_vars, part' = "mind"
             PROVE  TheMind!MindInv' /\ TheMind!Sent'
  BY DEF MindInv
<1>1. TheMind!MindInv /\ TheMind!Sent /\ (TheMind!Next \/ UNCHANGED vars)
  BY DEF Next, vars, MindInv
<1>2. CASE TheMind!Next
  <2>1. CASE TheMind!OnSlotChange
    BY <1>1, <2>1, MindSlotChange
  <2>2. ASSUME NEW c \in TheMind!Client, TheMind!RecvRPC(c)
        PROVE  TheMind!MindInv' /\ TheMind!Sent'
    BY <1>1, <2>2, MindRecv
  <2>3. ASSUME NEW c \in TheMind!Client,
               \/ TheMind!TakeDamage(c) \/ TheMind!Push(c) \/ TheMind!PsychicOverDrive(c)
               \/ TheMind!PsychicForceStun(c)
        PROVE  TheMind!MindInv' /\ TheMind!Sent'
    BY <1>1, <2>3, MindInput, MindSends
  <2>4. ASSUME NEW c \in TheMind!Client,
               \/ TheMind!PsychicOverDriveDamaging(c) \/ TheMind!LaunchEnd(c)
               \/ TheMind!OnEndHitAnimation(c) \/ TheMind!RigidityEnd(c)
        PROVE  TheMind!MindInv' /\ TheMind!Sent'
    BY <1>1, <2>4, MindEnd, MindSends
  <2>5. ASSUME NEW c \in TheMind!Client,
               \/ TheMind!PsychicOverDriveEndAction(c) \/ TheMind!RigidityCoolDown(c)
               \/ TheMind!ExecuteTask(c) \/ TheMind!LaserShockEnd(c) \/ TheMind!TickTask(c)
               \/ TheMind!OnBladeMontageEnded(c)
        PROVE  TheMind!MindInv' /\ TheMind!Sent'
    BY <1>1, <2>5, MindActs, MindSends
  <2> QED
    BY <1>2, <2>1, <2>2, <2>3, <2>4, <2>5 DEF TheMind!Next
<1>3. CASE UNCHANGED vars
  BY <1>1, <1>3 DEF vars, TheMind!MindInv, TheMind!Sent, TheMind!WellOff, TheMind!Reason, TheMind!Mind
<1> QED
  BY <1>1, <1>2, <1>3

\* However hits, stuns, pushes and the Esper's ultimate overlap, a living enemy that stands
\* still has something before it that restarts it, and the end of an attack that its mind waits
\* for is told to it, unless a new master took over a stopped enemy or its attack: for any
\* number of hits, attacks and changes of the master (AIAllStopTool, AHACKED_AI::OnSlotChange,
\* UBTTask_MSAI_Attack, UBTTask_MNAI_Attack).
THEOREM MindHolds == Spec => []MindOK
<1>1. Init => MindInv
  BY MindInit DEF Init, MindInv
<1>2. MindInv => MindOK
  BY DEF MindInv, MindOK, TheMind!MindInv, TheMind!WellOff, TheMind!WakesAgain, TheMind!AttackEnds
<1> QED
  BY <1>1, <1>2, MindStep, PTL DEF Spec

(***************************************************************************)
(* Whom the boss goes for.  v1 is agro, v2 seat, v3 master, v4 down,       *)
(* v5 chan, v7 moves, v8 periods and v9 blows.                             *)
(***************************************************************************)
AgroInv == part = "agro" => Agro!AgroInv

LEMMA AgroHeroes ==
    /\ Agro!Hero = {"crusher", "esper"}
    /\ Agro!Not("crusher") = "esper" /\ Agro!Not("esper") = "crusher"
BY DEF Agro!Hero, Agro!Not

\* A look at the gauges that finds the fallen hero ahead uses up one of the times he may be
\* waited for, and no other adds one.
LEMMA AgroLooks ==
    ASSUME NEW w \in Agro!Agro, Agro!Waits(w), v4 = {} \/ \E h \in Agro!Hero : v4 = {h}
    PROVE  /\ Agro!RefreshAgroPlayer(w) \in Agro!Agro /\ Agro!Waits(Agro!RefreshAgroPlayer(w))
           /\ \A h \in Agro!Hero : v4 = {h} =>
                 Agro!Left(Agro!RefreshAgroPlayer(w), h) + Agro!One(Agro!Fallen(w)) <= Agro!Left(w, h)
           /\ v4 = {} => ~Agro!Fallen(w)
<1> DEFINE r == Agro!RefreshAgroPlayer(w)
           C == w.gauge["crusher"]
           E == w.gauge["esper"]
           h == Agro!Ahead(w)
<1>1. /\ C \in Nat /\ E \in Nat /\ w.gauge \in [{"crusher", "esper"} -> Nat]
      /\ w.delay \in BOOLEAN /\ w.timer \in BOOLEAN /\ w.reset \in BOOLEAN
      /\ h = IF E > C THEN "esper" ELSE "crusher"
  BY AgroHeroes DEF Agro!Agro, Agro!Ahead
<1>2. ~Agro!Fallen(w) /\ ~w.reset => r = w
  BY DEF Agro!RefreshAgroPlayer
<1> DEFINE waiting == [w EXCEPT !.delay = FALSE, !.timer = TRUE]
           cleared == [w EXCEPT !.gauge[h] = 0]
           standing == [cleared EXCEPT !.reset = FALSE, !.delay = TRUE]
<1>3. /\ Agro!Fallen(w) => r = waiting
      /\ ~Agro!Fallen(w) /\ w.reset => r = IF h \in v4 THEN cleared ELSE standing
  BY DEF Agro!RefreshAgroPlayer, Agro!Standing
<1>4. /\ waiting \in Agro!Agro /\ cleared \in Agro!Agro /\ standing \in Agro!Agro
      /\ waiting.gauge = w.gauge /\ ~waiting.delay /\ waiting.timer /\ waiting.reset = w.reset
      /\ cleared.gauge = [w.gauge EXCEPT ![h] = 0] /\ cleared.delay = w.delay /\ cleared.timer = w.timer
      /\ cleared.reset = w.reset
      /\ standing.gauge = [w.gauge EXCEPT ![h] = 0] /\ standing.delay /\ ~standing.reset
      /\ standing.timer = w.timer
  BY <1>1, AgroHeroes DEF Agro!Agro
<1>5. Agro!Fallen(w) <=> h \in v4 /\ w.delay
  BY DEF Agro!Fallen
<1> HIDE DEF r, waiting, cleared, standing, h
<1>6. r \in Agro!Agro /\ Agro!Waits(r)
  BY <1>1, <1>2, <1>3, <1>4, <1>5 DEF Agro!Waits
<1>7. ASSUME NEW g \in Agro!Hero, v4 = {g}
      PROVE  Agro!Left(r, g) + Agro!One(Agro!Fallen(w)) <= Agro!Left(w, g)
  BY AgroHeroes, <1>3, <1>4, <1>5, <1>7, <1>1, <1>2 DEF Agro!Left, Agro!One, Agro!MayLead, Agro!Waits
<1>8. v4 = {} => ~Agro!Fallen(w)
  BY <1>5
<1> QED
  BY <1>6, <1>7, <1>8 DEF r

\* A hit adds one such time at most.
LEMMA AgroAdds ==
    ASSUME NEW w \in Agro!Agro, NEW h \in Agro!Hero
    PROVE  /\ Agro!RPCAddAgro(w, h) \in Agro!Agro
           /\ Agro!Waits(w) => Agro!Waits(Agro!RPCAddAgro(w, h))
           /\ \A g \in Agro!Hero : Agro!Left(Agro!RPCAddAgro(w, h), g) <= Agro!Left(w, g) + 1
<1> DEFINE r == Agro!RPCAddAgro(w, h)
           n == IF w.gauge[h] < MaxGauge THEN w.gauge[h] + 1 ELSE w.gauge[h]
<1>1. w.gauge \in [Agro!Hero -> Nat]
  BY DEF Agro!Agro
<1>2. n \in Nat /\ n >= w.gauge[h]
  BY <1>1
<1>3. r = [w EXCEPT !.gauge = [w.gauge EXCEPT ![h] = n]]
  BY DEF Agro!RPCAddAgro
<1> HIDE DEF n, r
<1>4. /\ r \in Agro!Agro /\ r.gauge = [w.gauge EXCEPT ![h] = n] /\ r.delay = w.delay
      /\ r.timer = w.timer /\ r.reset = w.reset
  BY <1>1, <1>2, <1>3 DEF Agro!Agro
<1>5. ASSUME NEW g \in Agro!Hero
      PROVE  Agro!Left(r, g) <= Agro!Left(w, g) + 1
  BY <1>1, <1>2, <1>4, AgroHeroes DEF Agro!Left, Agro!One, Agro!MayLead
<1> QED
  BY <1>4, <1>5 DEF Agro!Waits, r

LEMMA AgroRefreshes ==
    ASSUME Agro!AgroInv, NEW c \in Agro!Client, Agro!Refresh(c)
    PROVE  Agro!AgroInv'
<1> DEFINE r == Agro!RefreshAgroPlayer(v1[c])
           n == IF c = v3 /\ Agro!Fallen(v1[c]) THEN v8 + 1 ELSE v8
<1>1. /\ v1' = [v1 EXCEPT ![c] = r] /\ v8' = n
      /\ v2' = v2 /\ v3' = v3 /\ v4' = v4 /\ v5' = v5 /\ v7' = v7 /\ v9' = v9
  BY DEF Agro!Refresh
<1>2. v1[c] \in Agro!Agro /\ Agro!Waits(v1[c]) /\ (v4 = {} \/ \E h \in Agro!Hero : v4 = {h})
      /\ v8 \in Nat /\ v9 \in Nat /\ v3 \in Agro!Client /\ v1 \in [Agro!Client -> Agro!Agro]
  BY DEF Agro!AgroInv, Agro!Typed
<1>3. /\ r \in Agro!Agro /\ Agro!Waits(r)
      /\ \A h \in Agro!Hero : v4 = {h} => Agro!Left(r, h) + Agro!One(Agro!Fallen(v1[c])) <= Agro!Left(v1[c], h)
      /\ v4 = {} => ~Agro!Fallen(v1[c])
  BY <1>2, AgroLooks
<1> HIDE DEF r
<1>4. n \in Nat
  BY <1>2
<1>5. Agro!Typed'
  BY <1>1, <1>3, <1>4 DEF Agro!AgroInv, Agro!Typed
<1>6. \A d \in Agro!Client : Agro!Waits(v1'[d])
  BY <1>1, <1>2, <1>3 DEF Agro!AgroInv
<1>7. ASSUME v7 = 0
      PROVE  n <= 2 + v9 /\ \A h \in v4 : n + Agro!Left(v1'[v3], h) <= 2 + v9
  <2>0. \A h \in v4 : v8 + Agro!Left(v1[v3], h) <= 2 + v9
    BY <1>7 DEF Agro!AgroInv
  <2>1. v8 <= 2 + v9
    BY <1>7 DEF Agro!AgroInv
  <2>2. CASE c # v3
    BY <1>1, <1>2, <2>0, <2>1, <2>2
  <2>3. CASE c = v3 /\ v4 = {}
    BY <1>3, <2>1, <2>3
  <2>4. ASSUME c = v3, NEW h \in Agro!Hero, v4 = {h}
        PROVE  n <= 2 + v9 /\ \A g \in v4 : n + Agro!Left(v1'[v3], g) <= 2 + v9
    <3>1. v1'[v3] = r
      BY <1>1, <1>2, <2>4
    <3>2. Agro!Left(r, h) \in Nat /\ Agro!Left(v1[c], h) \in Nat
      BY DEF Agro!Left, Agro!One
    <3>3. n = v8 + Agro!One(Agro!Fallen(v1[c]))
      BY <1>2, <2>4 DEF Agro!One
    <3>4. Agro!One(Agro!Fallen(v1[c])) \in Nat
      BY DEF Agro!One
    <3>5. Agro!Left(r, h) + Agro!One(Agro!Fallen(v1[c])) <= Agro!Left(v1[c], h)
      BY <1>3, <2>4
    <3>6. v8 + Agro!Left(v1[c], h) <= 2 + v9
      BY <2>0, <2>4
    <3> HIDE DEF n
    <3>7. n + Agro!Left(r, h) <= 2 + v9 /\ n <= 2 + v9
      BY <1>2, <3>2, <3>3, <3>4, <3>5, <3>6
    <3> QED
      BY <2>4, <3>1, <3>7
  <2> QED
    BY <1>2, <2>2, <2>3, <2>4
<1>8. \A h : (Agro!Left(v1[v3], h))' = Agro!Left(v1'[v3'], h)
  BY DEF Agro!Left, Agro!One, Agro!MayLead
<1> HIDE DEF n
<1>9. v7' = 0 => v8' <= 2 + v9' /\ \A h \in v4' : v8' + Agro!Left(v1'[v3'], h) <= 2 + v9'
  BY <1>1, <1>7
<1> QED
  BY <1>5, <1>6, <1>8, <1>9 DEF Agro!AgroInv, Agro!Waits

\* What client c keeps changes, and d hits are heard of, which is as many times as that may add.
LEMMA AgroHears ==
    ASSUME Agro!AgroInv, NEW c \in Agro!Client, NEW w \in Agro!Agro, NEW d \in {0, 1},
           v1' = [v1 EXCEPT ![c] = w], v9' = v9 + d,
           Agro!Waits(w), c = v3 => \A h \in Agro!Hero : Agro!Left(w, h) <= Agro!Left(v1[c], h) + d,
           v2' = v2, v3' = v3, v4' = v4, v7' = v7, v8' = v8,
           v5' \in [Agro!Client -> Seq(Agro!Hero \cup {"near"})]
    PROVE  Agro!AgroInv'
<1>0. v9 \in Nat /\ v9' \in Nat
  BY DEF Agro!AgroInv, Agro!Typed
<1>1. Agro!Typed'
  BY <1>0 DEF Agro!AgroInv, Agro!Typed
<1>2. v8 \in Nat /\ v9 \in Nat /\ v3 \in Agro!Client /\ v1 \in [Agro!Client -> Agro!Agro] /\ v4 \subseteq Agro!Hero
  BY DEF Agro!AgroInv, Agro!Typed
<1>3. \A e \in Agro!Client : Agro!Waits(v1'[e])
  BY <1>2 DEF Agro!AgroInv
<1>4. \A u, h : Agro!Left(u, h) \in Nat
  BY DEF Agro!Left, Agro!One
<1>5. ASSUME v7 = 0
      PROVE  v8 <= 2 + v9' /\ \A h \in v4 : v8 + Agro!Left(v1'[v3], h) <= 2 + v9'
  <2>1. v8 <= 2 + v9 /\ \A h \in v4 : v8 + Agro!Left(v1[v3], h) <= 2 + v9
    BY <1>5 DEF Agro!AgroInv
  <2>2. v8 <= 2 + v9'
    BY <1>2, <2>1
  <2>3. ASSUME NEW h \in v4
        PROVE  v8 + Agro!Left(v1'[v3], h) <= 2 + v9'
    BY <1>2, <1>4, <2>1
  <2> QED
    BY <2>2, <2>3
<1>6. \A h : (Agro!Left(v1[v3], h))' = Agro!Left(v1'[v3'], h)
  BY DEF Agro!Left, Agro!One, Agro!MayLead
<1> QED
  BY <1>1, <1>3, <1>5, <1>6 DEF Agro!AgroInv, Agro!Waits

LEMMA AgroTakes ==
    ASSUME Agro!AgroInv, NEW h \in Agro!Hero, Agro!TakeDamage(h)
    PROVE  Agro!AgroInv'
<1> DEFINE c == v2[h]
           counts == h = "crusher" /\ c = v3
           angry == counts /\ v1[c].count >= NearHits
           n == IF counts /\ v1[c].count < NearHits THEN v1[c].count + 1 ELSE v1[c].count
           hurt == [v1[c] EXCEPT !.count = n, !.near = @ \/ angry]
           w == IF c = v3 THEN Agro!RPCAddAgro(hurt, h) ELSE hurt
           d == IF c = v3 THEN 1 ELSE 0
           calls == IF angry THEN <<"near">> ELSE IF c # v3 THEN <<h>> ELSE << >>
           o == Agro!Other(c)
<1>1. c \in Agro!Client /\ v1[c] \in Agro!Agro /\ Agro!Waits(v1[c]) /\ o \in Agro!Client
      /\ v5 \in [Agro!Client -> Seq(Agro!Hero \cup {"near"})] /\ v9 \in Nat
  BY DEF Agro!AgroInv, Agro!Typed, Agro!Other, Agro!Client
<1>2. /\ v1' = [v1 EXCEPT ![c] = w] /\ v5' = [v5 EXCEPT ![o] = @ \o calls]
      /\ v9' = IF c = v3 THEN v9 + 1 ELSE v9
      /\ v2' = v2 /\ v3' = v3 /\ v4' = v4 /\ v7' = v7 /\ v8' = v8
  BY Zenon DEF Agro!TakeDamage
<1>3. n \in Nat
  BY <1>1 DEF Agro!Agro
<1>4. hurt \in Agro!Agro /\ Agro!Waits(hurt) /\ \A g : Agro!Left(hurt, g) = Agro!Left(v1[c], g)
  <2> HIDE DEF n, angry
  <2>1. (v1[c].near \/ angry) \in BOOLEAN
    OBVIOUS
  <2>2. /\ hurt \in Agro!Agro /\ hurt.gauge = v1[c].gauge /\ hurt.delay = v1[c].delay
        /\ hurt.timer = v1[c].timer /\ hurt.reset = v1[c].reset
    BY <1>1, <1>3, <2>1 DEF Agro!Agro
  <2> HIDE DEF hurt
  <2> QED
    BY <1>1, <2>2 DEF Agro!Waits, Agro!Left, Agro!MayLead
<1>5. << >> \in Seq(Agro!Hero \cup {"near"}) /\ <<"near">> \in Seq(Agro!Hero \cup {"near"})
      /\ <<h>> \in Seq(Agro!Hero \cup {"near"})
  OBVIOUS
<1> HIDE DEF hurt
<1>6. calls \in Seq(Agro!Hero \cup {"near"})
  BY <1>5
<1>7. v5' \in [Agro!Client -> Seq(Agro!Hero \cup {"near"})]
  <2> HIDE DEF calls, o, c
  <2> QED
    BY <1>1, <1>2, <1>6
<1>8. w \in Agro!Agro /\ Agro!Waits(w) /\ (c = v3 => \A g \in Agro!Hero : Agro!Left(w, g) <= Agro!Left(v1[c], g) + d)
  BY <1>4, AgroAdds
<1>9. d \in {0, 1} /\ v9' = v9 + d
  BY <1>1, <1>2
<1> HIDE DEF w, d, c
<1> QED
  BY <1>1, <1>2, <1>7, <1>8, <1>9, AgroHears

LEMMA AgroRecv ==
    ASSUME Agro!AgroInv, NEW c \in Agro!Client, Agro!Recv(c)
    PROVE  Agro!AgroInv'
<1> DEFINE m == Head(v5[c])
           w == IF m = "near" THEN [v1[c] EXCEPT !.near = TRUE]
                ELSE IF c = v3 THEN Agro!RPCAddAgro(v1[c], m) ELSE v1[c]
           d == IF m \in Agro!Hero THEN 1 ELSE 0
<1>1. v1[c] \in Agro!Agro /\ Agro!Waits(v1[c]) /\ v1 \in [Agro!Client -> Agro!Agro]
      /\ v5 \in [Agro!Client -> Seq(Agro!Hero \cup {"near"})] /\ v9 \in Nat
  BY DEF Agro!AgroInv, Agro!Typed
<1>2. /\ v1' = [v1 EXCEPT ![c] = w] /\ v5' = [v5 EXCEPT ![c] = Tail(@)] /\ v5[c] # << >>
      /\ v9' = IF m \in Agro!Hero THEN v9 + 1 ELSE v9
      /\ v2' = v2 /\ v3' = v3 /\ v4' = v4 /\ v7' = v7 /\ v8' = v8
  BY DEF Agro!Recv
<1>3. m \in Agro!Hero \cup {"near"} /\ Tail(v5[c]) \in Seq(Agro!Hero \cup {"near"})
  BY <1>1, <1>2
<1>4. v5' \in [Agro!Client -> Seq(Agro!Hero \cup {"near"})]
  BY <1>1, <1>2, <1>3
<1>5. d \in {0, 1} /\ v9' = v9 + d
  BY <1>1, <1>2
<1>6. \A u, h : Agro!Left(u, h) \in Nat
  BY DEF Agro!Left, Agro!One
<1> HIDE DEF m
<1>7. w \in Agro!Agro /\ Agro!Waits(w) /\ (c = v3 => \A g \in Agro!Hero : Agro!Left(w, g) <= Agro!Left(v1[c], g) + d)
  <2>1. CASE m = "near"
    <3> DEFINE u == [v1[c] EXCEPT !.near = TRUE]
    <3>1. /\ u \in Agro!Agro /\ u.gauge = v1[c].gauge /\ u.delay = v1[c].delay
          /\ u.timer = v1[c].timer /\ u.reset = v1[c].reset
      BY <1>1 DEF Agro!Agro
    <3> HIDE DEF u
    <3>2. Agro!Waits(u) /\ \A h : Agro!Left(u, h) = Agro!Left(v1[c], h)
      BY <1>1, <3>1 DEF Agro!Waits, Agro!Left, Agro!MayLead
    <3>3. w = u
      BY <2>1 DEF u
    <3> HIDE DEF w, d
    <3>4. ASSUME NEW g \in Agro!Hero
          PROVE  Agro!Left(u, g) <= Agro!Left(v1[c], g) + d
      BY <1>6, <3>2, <1>5
    <3> QED
      BY <3>1, <3>2, <3>3, <3>4
  <2>2. CASE m # "near" /\ c = v3
    <3>1. m \in Agro!Hero /\ w = Agro!RPCAddAgro(v1[c], m) /\ d = 1
      BY <1>3, <2>2
    <3> HIDE DEF w, d
    <3> QED
      BY <1>1, <3>1, AgroAdds
  <2>3. CASE m # "near" /\ c # v3
    BY <1>1, <2>3
  <2> QED
    BY <2>1, <2>2, <2>3
<1> HIDE DEF w, d
<1> QED
  BY <1>2, <1>4, <1>5, <1>7, AgroHears

\* Timers, and what concerns neither the gauges nor the choice.
LEMMA AgroRests ==
    ASSUME Agro!AgroInv, Agro!NearestFar \/ \E c \in Agro!Client : Agro!DieAgroReset(c)
    PROVE  Agro!AgroInv'
<1>1. PICK c \in Agro!Client : \/ v1' = [v1 EXCEPT ![c].near = FALSE]
                               \/ v1[c].timer /\ v1' = [v1 EXCEPT ![c].timer = FALSE, ![c].reset = TRUE]
  BY DEF Agro!NearestFar, Agro!DieAgroReset, Agro!AgroInv, Agro!Typed
<1>2. v2' = v2 /\ v3' = v3 /\ v4' = v4 /\ v5' = v5 /\ v7' = v7 /\ v8' = v8 /\ v9' = v9
  BY DEF Agro!NearestFar, Agro!DieAgroReset
<1>3. v1[c] \in Agro!Agro /\ Agro!Waits(v1[c]) /\ v1 \in [Agro!Client -> Agro!Agro] /\ v9 \in Nat
      /\ v5 \in [Agro!Client -> Seq(Agro!Hero \cup {"near"})]
  BY DEF Agro!AgroInv, Agro!Typed
<1>4. PICK w \in Agro!Agro : v1' = [v1 EXCEPT ![c] = w] /\ Agro!Waits(w) /\ w.gauge = v1[c].gauge /\ w.delay = v1[c].delay
  <2>1. CASE v1' = [v1 EXCEPT ![c].near = FALSE]
    <3> DEFINE w == [v1[c] EXCEPT !.near = FALSE]
    <3>1. v1' = [v1 EXCEPT ![c] = w] /\ w \in Agro!Agro /\ w.gauge = v1[c].gauge /\ w.delay = v1[c].delay
          /\ w.timer = v1[c].timer /\ w.reset = v1[c].reset
      BY <1>3, <2>1 DEF Agro!Agro
    <3> QED
      BY <1>3, <3>1 DEF Agro!Waits
  <2>2. CASE v1[c].timer /\ v1' = [v1 EXCEPT ![c].timer = FALSE, ![c].reset = TRUE]
    <3> DEFINE w == [v1[c] EXCEPT !.timer = FALSE, !.reset = TRUE]
    <3>1. v1' = [v1 EXCEPT ![c] = w] /\ w \in Agro!Agro /\ w.gauge = v1[c].gauge /\ w.delay = v1[c].delay
          /\ w.timer = FALSE /\ w.reset = TRUE
      BY <1>3, <2>2 DEF Agro!Agro
    <3> QED
      BY <1>3, <2>2, <3>1 DEF Agro!Waits
  <2> QED
    BY <1>1, <2>1, <2>2
<1>5. \A h : Agro!Left(w, h) = Agro!Left(v1[c], h) /\ Agro!Left(w, h) \in Nat
  BY <1>4 DEF Agro!Left, Agro!MayLead, Agro!One
<1> DEFINE d == 0
<1>6. d \in {0, 1} /\ v9' = v9 + d /\ \A h : Agro!Left(w, h) <= Agro!Left(v1[c], h) + d
  BY <1>2, <1>3, <1>5
<1> HIDE DEF d
<1> QED
  BY <1>2, <1>3, <1>4, <1>6, AgroHears

\* A hero falls or stands up, or the master is lost.
LEMMA AgroFalls ==
    ASSUME Agro!AgroInv, Agro!Rise \/ Agro!OnSlotChange \/ \E h \in Agro!Hero : Agro!Fall(h)
    PROVE  Agro!AgroInv'
<1> USE DEF Agro!AgroInv
<1>1. \A w, h : Agro!Left(w, h) \in 0 .. 2
  BY DEF Agro!Left, Agro!One
<1>2. Agro!Typed /\ v1' = v1
  BY DEF Agro!Rise, Agro!OnSlotChange, Agro!Fall
<1>3. \A c \in Agro!Client : Agro!Waits(v1[c])'
  BY <1>2 DEF Agro!Waits
<1>4. CASE Agro!Rise
  BY <1>4, <1>2, <1>3 DEF Agro!Rise, Agro!Typed
<1>5. CASE Agro!OnSlotChange
  BY <1>5, <1>2, <1>3 DEF Agro!OnSlotChange, Agro!Other, Agro!Typed, Agro!Client
<1>6. ASSUME NEW h \in Agro!Hero, Agro!Fall(h)
      PROVE  Agro!AgroInv'
  BY <1>6, <1>2, <1>1, <1>3 DEF Agro!Fall, Agro!Typed, Agro!Left, Agro!One, Agro!MayLead
<1> QED
  BY <1>4, <1>5, <1>6

LEMMA AgroInit == Agro!Init => Agro!AgroInv
<1> SUFFICES ASSUME Agro!Init
             PROVE  Agro!AgroInv
  OBVIOUS
<1>1. Agro!New \in Agro!Agro /\ Agro!Waits(Agro!New)
  BY DEF Agro!New, Agro!Agro, Agro!Waits
<1>2. << >> \in Seq(Agro!Hero \cup {"near"})
  OBVIOUS
<1>3. v2 \in [Agro!Hero -> Agro!Client]
  BY DEF Agro!Init, Agro!Client
<1>4. /\ v1 = [c \in Agro!Client |-> Agro!New] /\ v3 = 0 /\ v4 = {} /\ v7 = 0 /\ v8 = 0 /\ v9 = 0
      /\ v5 = [c \in Agro!Client |-> << >>]
  BY DEF Agro!Init
<1>5. Agro!Typed
  BY <1>1, <1>2, <1>3, <1>4 DEF Agro!Typed, Agro!Client
<1> QED
  BY <1>1, <1>4, <1>5 DEF Agro!AgroInv

LEMMA AgroStep == AgroInv /\ [Next]_vars => AgroInv'
<1> SUFFICES ASSUME AgroInv, [Next]_vars, part' = "agro"
             PROVE  Agro!AgroInv'
  BY DEF AgroInv
<1>1. Agro!AgroInv /\ (Agro!Next \/ UNCHANGED vars)
  BY DEF Next, vars, AgroInv
<1>2. CASE Agro!Next
  BY <1>1, <1>2, AgroTakes, AgroRefreshes, AgroRecv, AgroRests, AgroFalls DEF Agro!Next
<1>3. CASE UNCHANGED vars
  BY <1>1, <1>3 DEF vars, Agro!AgroInv, Agro!Typed, Agro!Waits, Agro!Left, Agro!One, Agro!MayLead
<1> QED
  BY <1>1, <1>2, <1>3

(***************************************************************************)
(* The attacks of the boss.  v1 is boss, v2 master, v3 chan, v5 moves and  *)
(* v6 early.                                                               *)
(***************************************************************************)
FightInv == part = "attacks" => Fight!FightInv

\* The boss of client c becomes w, and calls are sent, which are not told to the first master
\* unless they say that the boss is dead.
LEMMA FightBecomes ==
    ASSUME Fight!FightInv, NEW c \in Fight!Client, NEW w, NEW calls \in Seq(Fight!Calls),
           Fight!Become(c, w, calls), DOMAIN w = Fight!Fields,
           c = v2 => Fight!Waits(w) /\ (v5 = 0 => Fight!Alone(w) /\ ~v6'),
           c # v2 => (calls = << >> \/ calls = <<"die">>) /\ ~w.brain /\ v6' = v6,
           v2' = v2, v5' = v5
    PROVE  Fight!FightInv'
<1> DEFINE o == Fight!Other(c)
<1>1. v1' = [v1 EXCEPT ![c] = w] /\ v3' = [v3 EXCEPT ![o] = @ \o calls]
  BY DEF Fight!Become
<1>2. /\ v2 \in Fight!Client /\ DOMAIN v1 = Fight!Client /\ v3 \in [Fight!Client -> Seq(Fight!Calls)]
      /\ c \in {0, 1} /\ o \in Fight!Client /\ o # c /\ (c # v2 => o = v2)
      /\ \A d \in Fight!Client : DOMAIN v1[d] = Fight!Fields
  BY DEF Fight!FightInv, Fight!Client, Fight!Other
<1> HIDE DEF o
<1>3. \A d \in Fight!Client : v1'[d] = IF d = c THEN w ELSE v1[d]
  BY <1>1, <1>2
<1>4. v3[o] \o calls \in Seq(Fight!Calls)
  BY <1>2
<1>5. v3' \in [Fight!Client -> Seq(Fight!Calls)]
  BY <1>1, <1>2, <1>4
<1>6. Fight!Waits(v1'[v2])
  BY <1>2, <1>3 DEF Fight!FightInv
<1>7. v5 = 0 => ~v6' /\ Fight!Alone(v1'[v2])
  BY <1>2, <1>3 DEF Fight!FightInv
<1>8. v5 = 0 => \A i \in DOMAIN v3'[v2] : v3'[v2][i] = "die"
  BY <1>1, <1>2 DEF Fight!FightInv
<1>9. \A d \in Fight!Client : DOMAIN v1'[d] = Fight!Fields
  BY <1>2, <1>3
<1>10. DOMAIN v1' = Fight!Client /\ v5' \in Nat
  BY <1>1, <1>2 DEF Fight!FightInv
<1>11. \A d \in Fight!Client : v1'[d].brain => d = v2
  BY <1>3 DEF Fight!FightInv
<1> QED
  BY <1>2, <1>5, <1>6, <1>7, <1>8, <1>9, <1>10, <1>11 DEF Fight!FightInv, Fight!Waits, Fight!Alone

\* What client c makes of its boss, in a call or an act of its own, and what it sends.
FightGoes(c, w, calls) ==
    /\ Fight!Become(c, w, calls) /\ calls \in Seq(Fight!Calls) /\ DOMAIN w = Fight!Fields
    /\ c = v2 => Fight!Waits(w) /\ (v5 = 0 => Fight!Alone(w))
    /\ c # v2 => (calls = << >> \/ calls = <<"die">>) /\ ~w.brain

LEMMA FightWent ==
    ASSUME Fight!FightInv, NEW c \in Fight!Client, \E w, calls : FightGoes(c, w, calls),
           v2' = v2, v5' = v5, v6' = v6 \/ (c = v2 /\ (v5 = 0 => ~v6'))
    PROVE  Fight!FightInv'
<1>1. PICK w, calls : FightGoes(c, w, calls)
  OBVIOUS
<1>2. c = v2 /\ v5 = 0 => ~v6'
  BY DEF Fight!FightInv
<1>3. c # v2 => v6' = v6
  OBVIOUS
<1> QED
  BY <1>1, <1>2, <1>3, FightBecomes DEF FightGoes

\* An act that leaves alone what is shown and what the mind waits for.
LEMMA FightSame ==
    ASSUME Fight!FightInv, NEW c \in Fight!Client, NEW w, Fight!Become(c, w, << >>), DOMAIN w = Fight!Fields,
           w.task = v1[c].task, w.saved = v1[c].saved, w.anim = v1[c].anim, w.chosen = v1[c].chosen,
           w.ended = v1[c].ended, w.die = v1[c].die, w.brain = v1[c].brain
    PROVE  FightGoes(c, w, << >>)
  BY DEF FightGoes, Fight!FightInv, Fight!Waits, Fight!Alone

LEMMA FightRests ==
    ASSUME Fight!FightInv, NEW c \in Fight!Client,
           \/ Fight!TickNode(c)
           \/ \E v \in Fight!Volley : Fight!ShootingStart(c, v) \/ Fight!Fire(c, v)
    PROVE  Fight!FightInv'
<1>1. DOMAIN v1[c] = Fight!Fields
  BY SMTT(60) DEF Fight!FightInv
<1>2. v2' = v2 /\ v5' = v5 /\ v6' = v6
  BY DEF Fight!TickNode, Fight!ShootingStart, Fight!Fire, Fight!Step
<1>3. ASSUME NEW w, \/ \E wish : w = [v1[c] EXCEPT !.wish = wish]
                    \/ \E due, left : w = [v1[c] EXCEPT !.due = due, !.left = left]
                    \/ \E left : w = [v1[c] EXCEPT !.left = left]
      PROVE  /\ DOMAIN w = Fight!Fields /\ w.task = v1[c].task /\ w.saved = v1[c].saved /\ w.anim = v1[c].anim
             /\ w.chosen = v1[c].chosen /\ w.ended = v1[c].ended /\ w.die = v1[c].die /\ w.brain = v1[c].brain
  BY <1>1, <1>3 DEF Fight!Fields
<1>4. \E w : /\ Fight!Become(c, w, << >>)
             /\ \/ \E wish : w = [v1[c] EXCEPT !.wish = wish]
                \/ \E due, left : w = [v1[c] EXCEPT !.due = due, !.left = left]
                \/ \E left : w = [v1[c] EXCEPT !.left = left]
  <2>1. CASE Fight!TickNode(c)
    BY <2>1 DEF Fight!TickNode
  <2>2. ASSUME NEW v \in Fight!Volley, Fight!ShootingStart(c, v)
        PROVE  \E due, left : Fight!Become(c, [v1[c] EXCEPT !.due = due, !.left = left], << >>)
    BY <1>1, <2>2 DEF Fight!Fields, Fight!ShootingStart
  <2>3. ASSUME NEW v \in Fight!Volley, Fight!Fire(c, v)
        PROVE  \E left : Fight!Become(c, [v1[c] EXCEPT !.left = left], << >>)
    BY <1>1, <2>3 DEF Fight!Fields, Fight!Fire
  <2> QED
    BY <2>1, <2>2, <2>3
<1>5. \E w : FightGoes(c, w, << >>)
  <2>1. PICK w : /\ Fight!Become(c, w, << >>)
                 /\ \/ \E wish : w = [v1[c] EXCEPT !.wish = wish]
                    \/ \E due, left : w = [v1[c] EXCEPT !.due = due, !.left = left]
                    \/ \E left : w = [v1[c] EXCEPT !.left = left]
    BY <1>4
  <2> QED
    BY <1>3, <2>1, FightSame
<1> QED
  BY <1>2, <1>5, FightWent

\* A task begins.
LEMMA FightExecutes ==
    ASSUME Fight!FightInv, NEW c \in Fight!Client, Fight!ExecuteTask(c)
    PROVE  Fight!FightInv'
<1>1. /\ c = v2 /\ DOMAIN v1[c] = Fight!Fields /\ ~v1[c].die /\ v1[c].brain /\ v1[c].task = "none"
      /\ v5 = 0 => Fight!Alone(v1[c])
      /\ v2' = v2 /\ v5' = v5 /\ v6' = v6
  BY DEF Fight!FightInv, Fight!ExecuteTask, Fight!Live
<1>2. \E w, calls : FightGoes(c, w, calls)
  <2>1. CASE Fight!ExecuteAttack(c)
    <3> DEFINE u == [v1[c] EXCEPT !.task = "attack", !.chosen = "hammer", !.saved = TRUE]
               w == Fight!Shown(u, "hammer")
    <3>1. /\ DOMAIN u = Fight!Fields /\ ~u.die /\ u.brain = v1[c].brain /\ u.task = "attack" /\ u.saved = TRUE
          /\ u.anim = v1[c].anim /\ u.ended = v1[c].ended /\ u.die = v1[c].die
      BY <1>1 DEF Fight!Fields
    <3> HIDE DEF u
    <3>2. /\ DOMAIN w = Fight!Fields /\ w.die = u.die /\ w.brain = u.brain /\ w.task = u.task /\ w.saved = u.saved
          /\ w.anim = u.anim \cup {"hammer"} /\ w.ended = u.ended
      BY <3>1 DEF Fight!Shown, Fight!Fields
    <3>3. Fight!Become(c, w, <<"hammer">>)
      BY <2>1 DEF Fight!ExecuteAttack, u
    <3> HIDE DEF w
    <3>4. Fight!Waits(w) /\ (v5 = 0 => Fight!Alone(w))
      BY <1>1, <3>1, <3>2 DEF Fight!Waits, Fight!Alone, Fight!Volley
    <3>5. <<"hammer">> \in Seq(Fight!Calls)
      BY DEF Fight!Calls
    <3>6. FightGoes(c, w, <<"hammer">>)
      BY <1>1, <3>2, <3>3, <3>4, <3>5 DEF FightGoes
    <3> QED
      BY <3>6
  <2>2. CASE Fight!ExecutePattern(c)
    <3>0. PICK a \in Fight!Pattern :
            Fight!Become(c, Fight!Shown([v1[c] EXCEPT !.task = IF a = "slap" THEN "none" ELSE "pattern", !.chosen = a], a), <<a>>)
      BY <2>2 DEF Fight!ExecutePattern
    <3> DEFINE t == IF a = "slap" THEN "none" ELSE "pattern"
               u == [v1[c] EXCEPT !.task = t, !.chosen = a]
               w == Fight!Shown(u, a)
    <3>1. /\ DOMAIN u = Fight!Fields /\ ~u.die /\ u.brain = v1[c].brain /\ u.task = t /\ u.chosen = a
          /\ u.anim = v1[c].anim /\ u.ended = v1[c].ended /\ u.die = v1[c].die
      BY <1>1 DEF Fight!Fields
    <3>3. Fight!Become(c, w, <<a>>)
      BY <3>0
    <3> HIDE DEF u
    <3>2. /\ DOMAIN w = Fight!Fields /\ w.die = u.die /\ w.brain = u.brain /\ w.task = u.task /\ w.chosen = u.chosen
          /\ w.anim = u.anim \cup {a} /\ w.ended = u.ended
      BY <3>1 DEF Fight!Shown, Fight!Fields
    <3> HIDE DEF w
    <3>4. Fight!Waits(w) /\ (v5 = 0 => Fight!Alone(w))
      BY <1>1, <3>1, <3>2 DEF Fight!Waits, Fight!Alone, Fight!Volley, Fight!Pattern
    <3>5. <<a>> \in Seq(Fight!Calls)
      BY DEF Fight!Calls
    <3>6. FightGoes(c, w, <<a>>)
      BY <1>1, <3>2, <3>3, <3>4, <3>5 DEF FightGoes
    <3> QED
      BY <3>6
  <2> QED
    BY <2>1, <2>2 DEF Fight!ExecuteTask
<1> QED
  BY <1>1, <1>2, FightWent

\* An attack ends.
LEMMA FightAttackEnds ==
    ASSUME Fight!FightInv, NEW c \in Fight!Client, Fight!AttackEnd(c)
    PROVE  Fight!FightInv'
<1>1. /\ DOMAIN v1[c] = Fight!Fields /\ (v1[c].brain => c = v2)
      /\ c = v2 => Fight!Waits(v1[c]) /\ (v5 = 0 => Fight!Alone(v1[c]))
      /\ v2' = v2 /\ v5' = v5 /\ v6' = v6
  BY DEF Fight!FightInv, Fight!AttackEnd, Fight!Step
<1>2. << >> \in Seq(Fight!Calls)
  OBVIOUS
<1>3. PICK a \in v1[c].anim :
        Fight!Become(c, IF a = "hammer" THEN Fight!HammerShotEnd(v1[c])
                        ELSE [v1[c] EXCEPT !.anim = @ \ {a}, !.ended = @ \cup {a}], << >>)
  BY DEF Fight!AttackEnd
<1>4. \E w, calls : FightGoes(c, w, calls)
  <2>1. CASE a = "hammer"
    <3> DEFINE t == IF v1[c].saved /\ v1[c].task = "attack" THEN "none" ELSE v1[c].task
               w == [v1[c] EXCEPT !.anim = @ \ {"hammer"}, !.task = t]
    <3>1. Fight!Become(c, w, << >>)
      BY <1>3, <2>1 DEF Fight!HammerShotEnd
    <3>2. /\ DOMAIN w = Fight!Fields /\ w.die = v1[c].die /\ w.brain = v1[c].brain /\ w.task = t
          /\ w.chosen = v1[c].chosen /\ w.saved = v1[c].saved /\ w.anim = v1[c].anim \ {"hammer"}
          /\ w.ended = v1[c].ended
      BY <1>1 DEF Fight!Fields
    <3> HIDE DEF w
    <3>3. c = v2 => Fight!Waits(w) /\ (v5 = 0 => Fight!Alone(w))
      BY <1>1, <3>2 DEF Fight!Waits, Fight!Alone, Fight!Volley
    <3>4. FightGoes(c, w, << >>)
      BY <1>1, <1>2, <3>1, <3>2, <3>3 DEF FightGoes
    <3> QED
      BY <3>4
  <2>2. CASE a # "hammer"
    <3> DEFINE w == [v1[c] EXCEPT !.anim = @ \ {a}, !.ended = @ \cup {a}]
    <3>1. Fight!Become(c, w, << >>)
      BY <1>3, <2>2
    <3>2. /\ DOMAIN w = Fight!Fields /\ w.die = v1[c].die /\ w.brain = v1[c].brain /\ w.task = v1[c].task
          /\ w.chosen = v1[c].chosen /\ w.saved = v1[c].saved /\ w.anim = v1[c].anim \ {a}
          /\ w.ended = v1[c].ended \cup {a}
      BY <1>1 DEF Fight!Fields
    <3> HIDE DEF w
    <3>3. c = v2 => Fight!Waits(w)
      BY <1>1, <2>2, <3>2 DEF Fight!Waits, Fight!Volley
    <3>4. c = v2 /\ v5 = 0 => Fight!Alone(w)
      BY <1>1, <1>3, <3>2 DEF Fight!Alone, Fight!Volley
    <3>5. FightGoes(c, w, << >>)
      BY <1>1, <1>2, <3>1, <3>2, <3>3, <3>4 DEF FightGoes
    <3> QED
      BY <3>5
  <2> QED
    BY <2>1, <2>2
<1> QED
  BY <1>1, <1>4, FightWent

\* A task looks at the flags: of the first master it ends after its attack.
LEMMA FightTicks ==
    ASSUME Fight!FightInv, NEW c \in Fight!Client, Fight!TickTask(c)
    PROVE  Fight!FightInv'
<1>1. /\ DOMAIN v1[c] = Fight!Fields /\ v1[c].brain /\ v1[c].task = "pattern" /\ c = v2
      /\ Fight!Waits(v1[c]) /\ (v5 = 0 => Fight!Alone(v1[c]) /\ ~v6) /\ DOMAIN v1 = Fight!Client
      /\ v2' = v2 /\ v5' = v5 /\ v6' = (v6 \/ (v1'[c].task = "none" /\ v1[c].chosen \in v1[c].anim))
  BY DEF Fight!FightInv, Fight!TickTask, Fight!Step
<1>2. << >> \in Seq(Fight!Calls)
  OBVIOUS
<1>3. PICK w : /\ Fight!Become(c, w, << >>)
               /\ \/ \E v \in Fight!Volley : v \in v1[c].ended /\ w = [v1[c] EXCEPT !.ended = @ \ {v}, !.task = "none"]
                  \/ v1[c].ended = {"slap"} /\ w = [v1[c] EXCEPT !.ended = {}]
  BY DEF Fight!TickTask, Fight!Seen, Fight!Volley
<1>4. v1'[c] = w
  BY <1>1, <1>3 DEF Fight!Become
<1>5. CASE \E v \in Fight!Volley : v \in v1[c].ended /\ w = [v1[c] EXCEPT !.ended = @ \ {v}, !.task = "none"]
  <2>1. PICK v \in Fight!Volley : v \in v1[c].ended /\ w = [v1[c] EXCEPT !.ended = @ \ {v}, !.task = "none"]
    BY <1>5
  <2>2. /\ DOMAIN w = Fight!Fields /\ w.die = v1[c].die /\ w.brain = v1[c].brain /\ w.task = "none"
        /\ w.anim = v1[c].anim /\ w.ended = v1[c].ended \ {v}
    BY <1>1, <2>1 DEF Fight!Fields
  <2>3. Fight!Waits(w)
    BY <2>2 DEF Fight!Waits
  <2>4. v5 = 0 => Fight!Alone(w) /\ v1[c].chosen \notin v1[c].anim
    <3> SUFFICES ASSUME v5 = 0
                 PROVE  Fight!Alone(w) /\ v1[c].chosen \notin v1[c].anim
      OBVIOUS
    <3>1. \A u \in Fight!Volley : u \in v1[c].anim \cup v1[c].ended =>
             v1[c].chosen = u /\ u \notin v1[c].anim \cap v1[c].ended
      BY <1>1 DEF Fight!Alone
    <3>2. v1[c].chosen = v /\ v \notin v1[c].anim
      BY <2>1, <3>1
    <3>3. \A u \in Fight!Volley : u \notin w.anim \cup w.ended
      BY <2>2, <3>1, <3>2
    <3>4. w.die => ~w.brain
      BY <1>1, <2>2 DEF Fight!Alone
    <3> QED
      BY <3>2, <3>3, <3>4 DEF Fight!Alone
  <2>5. FightGoes(c, w, << >>)
    BY <1>1, <1>2, <1>3, <2>2, <2>3, <2>4 DEF FightGoes
  <2>6. v5 = 0 => ~v6'
    BY <1>1, <2>4
  <2> QED
    BY <1>1, <2>5, <2>6, FightWent
<1>6. CASE v1[c].ended = {"slap"} /\ w = [v1[c] EXCEPT !.ended = {}]
  <2>1. /\ DOMAIN w = Fight!Fields /\ w.die = v1[c].die /\ w.brain = v1[c].brain /\ w.task = v1[c].task
        /\ w.chosen = v1[c].chosen /\ w.saved = v1[c].saved /\ w.anim = v1[c].anim /\ w.ended = {}
    BY <1>1, <1>6 DEF Fight!Fields
  <2>2. v1[c].ended \cap Fight!Volley = {}
    BY <1>6 DEF Fight!Volley
  <2>3. Fight!Waits(w) /\ (v5 = 0 => Fight!Alone(w))
    BY <1>1, <2>1, <2>2 DEF Fight!Waits, Fight!Alone
  <2>4. FightGoes(c, w, << >>)
    BY <1>1, <1>2, <1>3, <2>1, <2>3 DEF FightGoes
  <2>5. v5 = 0 => ~v6'
    BY <1>1, <1>4, <2>1
  <2> QED
    BY <1>1, <2>4, <2>5, FightWent
<1> QED
  BY <1>3, <1>5, <1>6

\* The boss dies, here or where a call says so.
LEMMA FightDead ==
    ASSUME NEW w, DOMAIN w = Fight!Fields
    PROVE  /\ DOMAIN Fight!DieProcess(w) = Fight!Fields /\ Fight!Waits(Fight!DieProcess(w))
           /\ Fight!Alone(Fight!DieProcess(w)) /\ ~Fight!DieProcess(w).brain
<1> DEFINE r == Fight!DieProcess(w)
<1>1. DOMAIN r = Fight!Fields /\ r.die = TRUE /\ r.brain = FALSE /\ r.task = "none"
  BY DEF Fight!DieProcess, Fight!Fields
<1> HIDE DEF r
<1>2. Fight!Waits(r) /\ Fight!Alone(r) /\ ~r.brain
  BY <1>1 DEF Fight!Waits, Fight!Alone
<1> QED
  BY <1>1, <1>2 DEF r

LEMMA FightDies ==
    ASSUME Fight!FightInv, NEW c \in Fight!Client, Fight!Die(c)
    PROVE  Fight!FightInv'
<1>1. DOMAIN v1[c] = Fight!Fields
  BY DEF Fight!FightInv
<1>2. Fight!Become(c, Fight!DieProcess(v1[c]), <<"die">>) /\ v2' = v2 /\ v5' = v5 /\ v6' = v6
  BY DEF Fight!Die, Fight!Step
<1>3. <<"die">> \in Seq(Fight!Calls)
  BY DEF Fight!Calls
<1>4. FightGoes(c, Fight!DieProcess(v1[c]), <<"die">>)
  BY <1>1, <1>2, <1>3, FightDead DEF FightGoes
<1> QED
  BY <1>2, <1>4, FightWent

LEMMA FightRecv ==
    ASSUME Fight!FightInv, NEW c \in Fight!Client, Fight!Recv(c)
    PROVE  Fight!FightInv'
<1> DEFINE m == Head(v3[c])
           w == IF m = "die" THEN Fight!DieProcess(v1[c]) ELSE Fight!Shown(v1[c], m)
<1>1. /\ v3[c] # << >> /\ v3' = [v3 EXCEPT ![c] = Tail(@)] /\ v1' = [v1 EXCEPT ![c] = w]
      /\ v2' = v2 /\ v5' = v5 /\ v6' = v6
  BY DEF Fight!Recv, Fight!Step
<1>2. /\ DOMAIN v1[c] = Fight!Fields /\ DOMAIN v1 = Fight!Client /\ v2 \in Fight!Client
      /\ v3 \in [Fight!Client -> Seq(Fight!Calls)] /\ (v1[c].brain => c = v2)
  BY DEF Fight!FightInv
<1>3. Tail(v3[c]) \in Seq(Fight!Calls)
  BY <1>1, <1>2
<1>4. v5 = 0 /\ c = v2 => m = "die" /\ \A i \in DOMAIN Tail(v3[c]) : Tail(v3[c])[i] = "die"
  <2> SUFFICES ASSUME v5 = 0, c = v2
               PROVE  m = "die" /\ \A i \in DOMAIN Tail(v3[c]) : Tail(v3[c])[i] = "die"
    OBVIOUS
  <2>1. v3[c] \in Seq(Fight!Calls) /\ \A i \in DOMAIN v3[c] : v3[c][i] = "die"
    BY <1>2 DEF Fight!FightInv
  <2> QED
    BY <1>1, <2>1
<1>5. /\ DOMAIN w = Fight!Fields /\ (w.brain => c = v2)
      /\ c = v2 => Fight!Waits(w) /\ (v5 = 0 => Fight!Alone(w))
  <2>1. CASE m = "die"
    BY <1>2, <2>1, FightDead
  <2>2. CASE m # "die"
    <3>1. w = Fight!Shown(v1[c], m)
      BY <2>2
    <3> HIDE DEF w, m
    <3>2. /\ DOMAIN w = Fight!Fields /\ w.brain = v1[c].brain /\ w.task = v1[c].task
          /\ w.chosen = v1[c].chosen /\ w.saved = v1[c].saved /\ v1[c].anim \subseteq w.anim
          /\ w.ended = v1[c].ended
      BY <1>2, <3>1 DEF Fight!Shown, Fight!Fields
    <3>3. c = v2 => Fight!Waits(w)
      BY <3>2 DEF Fight!Waits, Fight!FightInv
    <3> QED
      BY <1>2, <1>4, <2>2, <3>2, <3>3
  <2> QED
    BY <2>1, <2>2
<1> HIDE DEF w, m
<1>6. \A d \in Fight!Client : v1'[d] = IF d = c THEN w ELSE v1[d]
  BY <1>1, <1>2
<1>7. /\ \A d \in Fight!Client : DOMAIN v1'[d] = Fight!Fields /\ (v1'[d].brain => d = v2)
      /\ DOMAIN v1' = Fight!Client /\ v5' \in Nat /\ v3' \in [Fight!Client -> Seq(Fight!Calls)]
  BY <1>1, <1>2, <1>3, <1>5, <1>6 DEF Fight!FightInv
<1>8. Fight!Waits(v1'[v2]) /\ (v5 = 0 => ~v6 /\ Fight!Alone(v1'[v2]))
  BY <1>2, <1>5, <1>6 DEF Fight!FightInv
<1>9. v5 = 0 => \A i \in DOMAIN v3'[v2] : v3'[v2][i] = "die"
  BY <1>1, <1>2, <1>4 DEF Fight!FightInv
<1> QED
  BY <1>1, <1>2, <1>7, <1>8, <1>9 DEF Fight!FightInv, Fight!Waits, Fight!Alone

\* The master is lost.
LEMMA FightSlotChange ==
    ASSUME Fight!FightInv, Fight!OnSlotChange
    PROVE  Fight!FightInv'
<1> DEFINE new == Fight!Other(v2)
<1>1. /\ v2' = new /\ v5' = v5 + 1 /\ v3' = [c \in Fight!Client |-> << >>]
      /\ v1' = [c \in Fight!Client |-> [v1[c] EXCEPT !.brain = c = new, !.task = "none"]]
  BY DEF Fight!OnSlotChange
<1>2. v5 \in Nat /\ v2 \in Fight!Client /\ new \in Fight!Client
  BY DEF Fight!FightInv, Fight!Client, Fight!Other
<1> HIDE DEF new
<1>3. << >> \in Seq(Fight!Calls)
  OBVIOUS
<1>4. ASSUME NEW c \in Fight!Client
      PROVE  DOMAIN v1'[c] = Fight!Fields /\ (v1'[c].brain <=> c = new) /\ v1'[c].task = "none"
  BY <1>1 DEF Fight!FightInv, Fight!Fields
<1>5. v5' \in Nat /\ v5' # 0
  <2>1. v5' = v5 + 1
    BY <1>1
  <2> QED
    BY <1>2, <2>1
<1> QED
  BY <1>1, <1>2, <1>3, <1>4, <1>5 DEF Fight!FightInv, Fight!Waits

LEMMA FightInit == Fight!Init => Fight!FightInv
<1> SUFFICES ASSUME Fight!Init
             PROVE  Fight!FightInv
  OBVIOUS
<1>1. /\ v1 = [c \in Fight!Client |-> Fight!New(c)] /\ v2 = 0 /\ v3 = [c \in Fight!Client |-> << >>]
      /\ v5 = 0 /\ v6 = FALSE
  BY DEF Fight!Init
<1>2. ASSUME NEW c \in Fight!Client
      PROVE  /\ DOMAIN v1[c] = Fight!Fields /\ (v1[c].brain <=> c = 0) /\ v1[c].task = "none"
             /\ v1[c].die = FALSE /\ v1[c].anim = {} /\ v1[c].ended = {}
  BY <1>1, <1>2 DEF Fight!New, Fight!Fields
<1>3. << >> \in Seq(Fight!Calls)
  OBVIOUS
<1>4. v2 \in Fight!Client /\ v5 \in Nat /\ DOMAIN v1 = Fight!Client
  BY <1>1 DEF Fight!Client
<1>5. v3 \in [Fight!Client -> Seq(Fight!Calls)] /\ v3[v2] = << >>
  BY <1>1, <1>3, <1>4
<1>6. \A c \in Fight!Client : Fight!Waits(v1[c]) /\ Fight!Alone(v1[c])
  BY <1>2 DEF Fight!Waits, Fight!Alone
<1>7. \A i \in DOMAIN v3[v2] : v3[v2][i] = "die"
  BY <1>5
<1> QED
  BY <1>1, <1>2, <1>4, <1>5, <1>6, <1>7 DEF Fight!FightInv

LEMMA FightStep == FightInv /\ [Next]_vars => FightInv'
<1> SUFFICES ASSUME FightInv, [Next]_vars, part' = "attacks"
             PROVE  Fight!FightInv'
  BY DEF FightInv
<1>1. Fight!FightInv /\ (Fight!Next \/ UNCHANGED vars)
  BY DEF Next, vars, FightInv
<1>2. CASE Fight!Next
  <2>1. ASSUME NEW c \in Fight!Client,
               \/ Fight!TickNode(c)
               \/ Fight!MachineGunShootingStart(c) \/ Fight!HomingMissileStart(c)
               \/ Fight!MachineGunDamaging(c) \/ Fight!HomingMissileLaunch(c)
        PROVE  Fight!FightInv'
    BY <1>1, <2>1, FightRests DEF Fight!Volley, Fight!MachineGunShootingStart, Fight!HomingMissileStart,
                                  Fight!MachineGunDamaging, Fight!HomingMissileLaunch
  <2> QED
    BY <1>1, <1>2, <2>1, FightExecutes, FightAttackEnds, FightTicks, FightDies, FightRecv, FightSlotChange
       DEF Fight!Next
<1>3. CASE UNCHANGED vars
  BY <1>1, <1>3 DEF vars, Fight!FightInv, Fight!Waits, Fight!Alone
<1> QED
  BY <1>1, <1>2, <1>3

\* The boss does not wait before a fallen hero more often than twice and once for each hit he
\* hears of, and what his choice waits for comes; a mind of his that waits for an attack is
\* told of its end, and, where it was in charge from the start, not before: for any number of
\* hits, falls, attacks and changes of the master (AMilitaryBossAI::RefreshAgroPlayer,
\* DieAgroReset; UBTTask_MBAI_Attack, UBTTask_MBAI_Pattern).
THEOREM BossFightsHold == Spec => []BossFights
<1>1. Init => AgroInv /\ FightInv
  BY AgroInit, FightInit DEF Init, AgroInv, FightInv
<1>2. AgroInv /\ FightInv => BossFights
  BY DEF AgroInv, FightInv, BossFights, Agro!AgroInv, Agro!Waits, Agro!SparesFallen,
         Fight!FightInv, Fight!Waits, Fight!AttacksRunOut
<1> QED
  BY <1>1, <1>2, AgroStep, FightStep, PTL DEF Spec

(***************************************************************************)
(* The laboratory.  Of the variables v1 is lab, v2 place, v3 view, v4      *)
(* wave, v6 current, v7 chan, v9 spawned and v10 alone.                    *)
(***************************************************************************)
LabInv == part = "lab" => TheLab!LabInv

\* What the stage l of client c has to keep.
LabAt(l) == IF l.phase = 0 THEN 4 ELSE l.phase
LabDoors(l) ==
    /\ 1 \notin l.plasma => LabAt(l) >= 2
    /\ 3 \notin l.plasma => LabAt(l) >= 3
    /\ l.exit => LabAt(l) = 4
    /\ \A k \in TheLab!Room : l.panel[k] # "off" => LabAt(l) >= k
    /\ LabAt(l) = 2 /\ l.panel[2] # "off" => 1 \in l.plasma
LabRoom(c, l) ==
    /\ l.stage = "running" => l.phase # 0 /\ v2[c] = l.phase /\ TheLab!At(TheLab!Other(c)) >= l.phase
    /\ l.stage = "running" => l.panel[l.phase] # "off"
    /\ l.stage = "running" /\ l.phase = 1 => 0 \in l.plasma
    /\ l.stage = "running" /\ l.phase = 3 => 3 \in l.plasma
    /\ l.done => l.phase = 0 /\ v2[c] = 4 /\ ~l.exit /\ TheLab!At(TheLab!Other(c)) = 4
    /\ l.stage = "clear" => l.phase # 0
    /\ l.stage = "idle" => l.rate = 0

LEMMA LabClients ==
    /\ TheLab!Client = {0, 1} /\ TheLab!Master = 0 /\ TheLab!Other(0) = 1 /\ TheLab!Other(1) = 0
    /\ \A c \in TheLab!Client : TheLab!Other(c) \in TheLab!Client /\ TheLab!Other(c) # c /\ TheLab!Other(TheLab!Other(c)) = c
    /\ HackingTime \in Nat /\ HackingTime > 0
BY GameAssumption DEF GameAssumption, TheLab!LabAssumption, TheLab!Client, TheLab!Master, TheLab!Other

LEMMA LabKeeps ==
    ASSUME TheLab!Typed, TheLab!Behind, TheLab!Within, NEW c \in TheLab!Client
    PROVE  /\ v1[c] \in TheLab!Stages /\ LabAt(v1[c]) = TheLab!At(c) /\ LabAt(v1[c]) \in 1 .. 4
           /\ LabDoors(v1[c]) /\ LabRoom(c, v1[c])
           /\ v2[c] = v3[c][c] /\ v2[c] \in 0 .. 4 /\ v2[c] <= LabAt(v1[c])
           /\ v3[c][TheLab!Other(c)] <= TheLab!At(TheLab!Other(c))
<1> USE LabClients
<1>1. v1[c] \in TheLab!Stages /\ LabAt(v1[c]) = TheLab!At(c) /\ LabAt(v1[c]) \in 1 .. 4
  BY DEF TheLab!Typed, TheLab!Stages, TheLab!At, LabAt
<1>2. LabDoors(v1[c])
  BY <1>1 DEF TheLab!Behind, LabDoors
<1>3. LabRoom(c, v1[c])
  BY <1>1 DEF TheLab!Within, LabRoom, LabAt
<1>4. /\ v2[c] = v3[c][c] /\ v2[c] \in 0 .. 4 /\ v2[c] <= LabAt(v1[c])
      /\ v3[c][TheLab!Other(c)] <= TheLab!At(TheLab!Other(c))
  BY <1>1 DEF TheLab!Behind, TheLab!Typed
<1> QED BY <1>1, <1>2, <1>3, <1>4

\* A step of the stage on client c.
LEMMA LabChanges ==
    ASSUME TheLab!Typed, TheLab!Behind, TheLab!Within, NEW c \in TheLab!Client, NEW l \in TheLab!Stages,
           v1' = [v1 EXCEPT ![c] = l], v2' = v2, v3' = v3,
           LabAt(l) >= TheLab!At(c), LabDoors(l), LabRoom(c, l)
    PROVE  TheLab!Behind' /\ TheLab!Within' /\ TheLab!At(c)' = LabAt(l)
           /\ \A d \in TheLab!Client \ {c} : v1'[d] = v1[d] /\ TheLab!At(d)' = TheLab!At(d)
<1> USE LabClients
<1> DEFINE o == TheLab!Other(c)
<1>1. o \in TheLab!Client /\ o # c /\ \A d \in TheLab!Client : d = c \/ d = o
  OBVIOUS
<1>2. v1'[c] = l /\ v1'[o] = v1[o]
  BY <1>1 DEF TheLab!Typed
<1>3. TheLab!At(c)' = LabAt(l) /\ TheLab!At(o)' = TheLab!At(o)
  BY <1>1, <1>2 DEF TheLab!At, LabAt
<1>4. LabAt(l) \in 1 .. 4 /\ TheLab!At(c) \in 1 .. 4 /\ TheLab!At(o) \in 1 .. 4
  BY <1>1, LabKeeps DEF TheLab!Stages, LabAt
<1>5. LabDoors(v1[o]) /\ LabRoom(o, v1[o]) /\ LabAt(v1[o]) = TheLab!At(o) /\ v1[o] \in TheLab!Stages
  BY <1>1, LabKeeps
<1>6. TheLab!Other(o) = c
  OBVIOUS
<1> HIDE DEF o
<1>7. TheLab!Behind'
  <2>1. \A d \in TheLab!Client : v3[d][d] = v2[d] /\ \A h \in TheLab!Client : v3[d][h] <= TheLab!At(h)'
    <3> SUFFICES ASSUME NEW d \in TheLab!Client, NEW h \in TheLab!Client
                 PROVE  v3[d][d] = v2[d] /\ v3[d][h] <= TheLab!At(h)'
      OBVIOUS
    <3>1. v3[d][d] = v2[d] /\ v3[d][h] <= TheLab!At(h) /\ v3[d][h] \in 0 .. 4
      BY DEF TheLab!Behind, TheLab!Typed
    <3>2. TheLab!At(h)' >= TheLab!At(h) /\ TheLab!At(h)' \in 1 .. 4 /\ TheLab!At(h) \in 1 .. 4
      BY <1>1, <1>3, <1>4
    <3> QED BY <3>1, <3>2
  <2>2. \A d \in TheLab!Client : LabDoors(v1'[d]) /\ TheLab!At(d)' = LabAt(v1'[d])
    BY <1>1, <1>2, <1>3, <1>5
  <2> QED BY <2>1, <2>2 DEF TheLab!Behind, LabDoors
<1>8. TheLab!Within'
  <2> SUFFICES ASSUME NEW d \in TheLab!Client
               PROVE  (/\ v1[d].stage = "running" =>
                           /\ v1[d].phase # 0 /\ v2[d] = TheLab!At(d) /\ TheLab!At(TheLab!Other(d)) >= TheLab!At(d)
                           /\ v1[d].panel[v1[d].phase] # "off"
                           /\ v1[d].phase = 1 => 0 \in v1[d].plasma
                           /\ v1[d].phase = 3 => 3 \in v1[d].plasma
                       /\ v1[d].done => v1[d].phase = 0 /\ v2[d] = 4 /\ ~v1[d].exit /\ TheLab!At(TheLab!Other(d)) = 4
                       /\ v1[d].stage = "clear" => v1[d].phase # 0
                       /\ v1[d].stage = "idle" => v1[d].rate = 0)'
    BY DEF TheLab!Within
  <2>1. CASE d = c
    BY <1>1, <1>2, <1>3, <1>4, <2>1 DEF LabRoom, LabAt, o
  <2>2. CASE d = o
    BY <1>1, <1>2, <1>3, <1>4, <1>5, <1>6, <2>2 DEF LabRoom, LabAt
  <2> QED BY <1>1, <2>1, <2>2
<1> QED BY <1>1, <1>2, <1>3, <1>7, <1>8

\* Preparing a room changes doors and the panel only.
LEMMA LabPrepares ==
    ASSUME NEW l \in TheLab!Stages, NEW k \in TheLab!Room, l.phase = k, LabDoors(l)
    PROVE  LET p == TheLab!Prepare(l, k)
           IN  /\ p \in TheLab!Stages /\ p.phase = k /\ p.stage = l.stage /\ p.rate = l.rate
               /\ p.exit = l.exit /\ p.done = l.done /\ LabDoors(p)
               /\ \A j \in TheLab!Room : l.panel[j] # "off" => p.panel[j] # "off"
               /\ k # 1 => l.plasma \subseteq p.plasma
<1> DEFINE p == TheLab!Prepare(l, k)
           prepared == l.prepared \cup {k}
           panel == [l.panel EXCEPT ![k] = IF @ = "off" THEN "ready" ELSE @]
           plasma == CASE k = 1 -> IF 1 \in l.prepared THEN l.plasma ELSE l.plasma \ {0}
                       [] k = 2 -> l.plasma \cup {0, 1, 2}
                       [] k = 3 -> l.plasma
<1>1. k \in {1, 2, 3} /\ TheLab!Room = 1 .. 3
  BY DEF TheLab!Room
<1>2. p = [l EXCEPT !.prepared = prepared, !.panel = panel, !.plasma = plasma]
  BY DEF TheLab!Prepare
<1>3. /\ prepared \in SUBSET TheLab!Room
      /\ panel \in [TheLab!Room -> {"off", "ready", "running", "end"}]
      /\ \A j \in TheLab!Room : (j # k => panel[j] = l.panel[j]) /\ (l.panel[j] # "off" => panel[j] # "off")
  BY DEF TheLab!Stages
<1>4. plasma \in SUBSET TheLab!Plasma /\ (k # 1 => l.plasma \subseteq plasma)
      /\ (1 \in l.plasma => 1 \in plasma) /\ (3 \in l.plasma => 3 \in plasma) /\ (k = 2 => 1 \in plasma)
  BY <1>1 DEF TheLab!Stages, TheLab!Plasma
<1> HIDE DEF prepared, panel, plasma
<1>5. /\ p \in TheLab!Stages /\ p.phase = k /\ p.stage = l.stage /\ p.rate = l.rate
      /\ p.exit = l.exit /\ p.done = l.done /\ p.panel = panel /\ p.plasma = plasma
  BY <1>2, <1>3, <1>4 DEF TheLab!Stages
<1> HIDE DEF p
<1>6. LabAt(p) = k /\ LabAt(l) = k
  BY <1>1, <1>5 DEF LabAt
<1>7. \A j \in TheLab!Room : p.panel[j] # "off" => k >= j
  <2> SUFFICES ASSUME NEW j \in TheLab!Room, p.panel[j] # "off"
               PROVE  k >= j
    OBVIOUS
  <2>1. CASE j = k
    BY <1>1, <2>1
  <2>2. CASE j # k
    BY <1>3, <1>5, <1>6, <2>2 DEF LabDoors
  <2> QED BY <2>1, <2>2
<1>8. LabDoors(p)
  BY <1>4, <1>5, <1>6, <1>7 DEF LabDoors
<1> QED
  BY <1>3, <1>4, <1>5, <1>8 DEF p

\* What a tick does to the stage: nothing but doors, or its phase begins, is cleared or ends.
LEMMA LabFlow ==
    ASSUME TheLab!Typed, TheLab!Behind, TheLab!Within, NEW c \in TheLab!Client, NEW k, k = v1[c].phase, k # 0,
           NEW r \in Nat, r = v1[c].rate \/ v1[c].stage = "running",
           NEW l, l = TheLab!PhaseFlow(c, [v1[c] EXCEPT !.rate = r], k)
    PROVE  /\ l \in TheLab!Stages /\ LabAt(l) >= TheLab!At(c) /\ LabDoors(l) /\ LabRoom(c, l)
           /\ \/ l.stage = v1[c].stage /\ l.phase = k /\ l.rate = r
              \/ v1[c].stage = "idle" /\ l.stage = "running" /\ l.phase = k /\ l.rate = 0
              \/ v1[c].stage = "running" /\ r >= HackingTime /\ v4[c] = "SPAWN_END" /\ l.stage = "clear" /\ l.phase = k
              \/ v1[c].stage = "clear" /\ l.stage = "idle" /\ LabAt(l) = k + 1
<1> USE LabClients
<1>0. k = v1[c].phase
  OBVIOUS
<1>1. /\ v1[c] \in TheLab!Stages /\ k \in TheLab!Room /\ TheLab!At(c) = k /\ LabAt(v1[c]) = k
      /\ LabDoors(v1[c]) /\ LabRoom(c, v1[c]) /\ ~v1[c].exit /\ ~v1[c].done
      /\ v2[c] = v3[c][c] /\ v3[c][TheLab!Other(c)] <= TheLab!At(TheLab!Other(c))
  BY <1>0, LabKeeps DEF TheLab!Stages, TheLab!Room, LabAt, LabDoors, LabRoom
<1>2. k \in {1, 2, 3} /\ TheLab!Room = 1 .. 3
  BY <1>1 DEF TheLab!Room
<1>3. PICK t : t = [v1[c] EXCEPT !.rate = r]
  OBVIOUS
<1>4. /\ t \in TheLab!Stages /\ t.phase = k /\ t.stage = v1[c].stage /\ t.rate = r /\ t.panel = v1[c].panel
      /\ t.plasma = v1[c].plasma /\ t.exit = v1[c].exit /\ t.done = v1[c].done /\ t.prepared = v1[c].prepared
  BY <1>0, <1>1, <1>3 DEF TheLab!Stages
<1>5. LabAt(t) = k /\ LabDoors(t) /\ (t.stage = "idle" => r = 0)
  BY <1>0, <1>1, <1>2, <1>4 DEF LabDoors, LabAt, LabRoom
<1>6. PICK p : p = IF TheLab!IsBothEntered(c, IF k = 1 THEN 0 ELSE k) /\ (k = 1 \/ k \notin t.prepared)
                   THEN TheLab!Prepare(t, k) ELSE t
  OBVIOUS
<1>7. /\ p \in TheLab!Stages /\ p.phase = k /\ p.stage = t.stage /\ p.rate = r /\ ~p.exit /\ ~p.done
      /\ LabDoors(p) /\ LabAt(p) = k
      /\ \A j \in TheLab!Room : t.panel[j] # "off" => p.panel[j] # "off"
      /\ k # 1 \/ v2[c] # 0 => t.plasma \subseteq p.plasma
  BY <1>1, <1>6, <1>2, <1>4, <1>5, LabPrepares DEF TheLab!IsBothEntered, LabAt
<1>8. p.stage = "running" => /\ v2[c] = k /\ TheLab!At(TheLab!Other(c)) >= k /\ p.panel[k] # "off"
                             /\ k = 1 => 0 \in p.plasma
                             /\ k = 3 => 3 \in p.plasma
  BY <1>0, <1>1, <1>2, <1>4, <1>7 DEF LabRoom
<1>9. l = TheLab!PhaseFlow(c, t, k)
  BY <1>3
<1>10. l = CASE TheLab!CanStart(c, p, k) -> TheLab!Start(p, k)
             [] p.stage = "running" -> TheLab!Running(p, v4[c])
             [] p.stage = "clear" /\ p.panel[k] # "running" -> TheLab!End(p, k)
             [] OTHER -> p
  BY <1>6, <1>9 DEF TheLab!PhaseFlow
<1> SUFFICES /\ l \in TheLab!Stages /\ LabAt(l) >= k /\ LabDoors(l) /\ LabRoom(c, l)
             /\ \/ l.stage = p.stage /\ l.phase = k /\ l.rate = r
                \/ p.stage = "idle" /\ l.stage = "running" /\ l.phase = k /\ l.rate = 0
                \/ p.stage = "running" /\ r >= HackingTime /\ v4[c] = "SPAWN_END" /\ l.stage = "clear" /\ l.phase = k
                \/ p.stage = "clear" /\ l.stage = "idle" /\ LabAt(l) = k + 1
  BY <1>0, <1>1, <1>3, <1>4, <1>7, <1>9
<1>11. CASE TheLab!CanStart(c, p, k)
  <2>1. p.stage = "idle" /\ p.panel[k] = "running" /\ \A h \in TheLab!Client : v3[c][h] = k
    BY <1>11 DEF TheLab!CanStart, TheLab!IsBothEntered
  <2>2. v2[c] = k /\ TheLab!At(TheLab!Other(c)) >= k
    BY LabKeeps, <1>1, <1>2, <2>1
  <2> DEFINE plasma == p.plasma \cup (CASE k = 1 -> {0, 1, 2} [] k = 2 -> {} [] k = 3 -> {3})
  <2>3. l = [p EXCEPT !.stage = "running", !.plasma = plasma]
    BY <1>10, <1>11, <2>1 DEF TheLab!Start
  <2>4. plasma \in SUBSET TheLab!Plasma /\ p.plasma \subseteq plasma /\ (k = 1 => 0 \in plasma) /\ (k = 3 => 3 \in plasma)
    BY <1>2, <1>7 DEF TheLab!Stages, TheLab!Plasma
  <2> HIDE DEF plasma
  <2>5. /\ l \in TheLab!Stages /\ l.phase = k /\ l.stage = "running" /\ l.rate = r /\ ~l.exit /\ ~l.done
        /\ l.panel = p.panel /\ l.plasma = plasma
    BY <1>7, <2>3, <2>4 DEF TheLab!Stages
  <2>6. LabAt(l) = k /\ LabDoors(l)
    BY <1>2, <1>7, <2>4, <2>5 DEF LabAt, LabDoors
  <2>7. LabRoom(c, l)
    BY <1>2, <2>1, <2>2, <2>4, <2>5 DEF LabRoom
  <2> QED BY <1>2, <1>4, <1>5, <1>7, <2>1, <2>5, <2>6, <2>7
<1>12. CASE ~TheLab!CanStart(c, p, k) /\ p.stage = "running"
  <2>1. l = TheLab!Running(p, v4[c])
    BY <1>10, <1>12
  <2>2. CASE p.rate >= HackingTime /\ v4[c] = "SPAWN_END"
    <3> DEFINE panel == [p.panel EXCEPT ![k] = "end"]
    <3>1. l = [p EXCEPT !.stage = "clear", !.panel = panel]
      BY <1>7, <2>1, <2>2 DEF TheLab!Running
    <3>2. panel \in [TheLab!Room -> {"off", "ready", "running", "end"}] /\ \A j \in TheLab!Room : j # k => panel[j] = p.panel[j]
      BY <1>7 DEF TheLab!Stages
    <3> HIDE DEF panel
    <3>3. /\ l \in TheLab!Stages /\ l.phase = k /\ l.stage = "clear" /\ l.rate = r /\ ~l.exit /\ ~l.done
          /\ l.panel = panel /\ l.plasma = p.plasma
      BY <1>7, <3>1, <3>2 DEF TheLab!Stages
    <3>4. LabAt(l) = k
      BY <1>2, <3>3 DEF LabAt
    <3>5. \A j \in TheLab!Room : l.panel[j] # "off" => k >= j
      BY <1>2, <1>7, <3>2, <3>3 DEF LabDoors
    <3>6. LabDoors(l)
      BY <1>2, <1>7, <1>8, <1>12, <3>3, <3>4, <3>5 DEF LabDoors
    <3>7. LabRoom(c, l)
      BY <1>2, <3>3 DEF LabRoom
    <3> QED BY <1>2, <1>7, <1>12, <2>2, <3>3, <3>4, <3>6, <3>7
  <2>3. CASE ~(p.rate >= HackingTime /\ v4[c] = "SPAWN_END")
    BY <2>1, <2>3, <1>2, <1>7, <1>8, <1>12 DEF TheLab!Running, LabRoom
  <2> QED BY <2>2, <2>3
<1>13. CASE p.stage = "clear" /\ p.panel[k] # "running"
  <2> DEFINE plasma == p.plasma \ (IF k = 3 THEN {} ELSE {TheLab!DoorAfter[k]})
             phase == (k + 1) % 4
             exit == p.exit \/ k = 3
  <2>1. l = [p EXCEPT !.stage = "idle", !.rate = 0, !.phase = phase, !.plasma = plasma, !.exit = exit]
    BY <1>10, <1>13 DEF TheLab!End, TheLab!CanStart
  <2>2. plasma \in SUBSET TheLab!Plasma /\ (k = 1 => 3 \notin p.plasma \/ 3 \in plasma) /\ (k = 3 => plasma = p.plasma)
    BY <1>2, <1>7 DEF TheLab!Stages, TheLab!DoorAfter
  <2>3. /\ phase \in 0 .. 3 /\ (k = 3 => phase = 0) /\ (k # 3 => phase = k + 1)
        /\ exit \in BOOLEAN /\ (exit <=> k = 3)
    BY <1>2, <1>7
  <2> HIDE DEF plasma, phase, exit
  <2>4. /\ l \in TheLab!Stages /\ l.phase = phase /\ l.stage = "idle" /\ l.rate = 0 /\ (l.exit <=> k = 3) /\ ~l.done
        /\ l.panel = p.panel /\ l.plasma = plasma
    <3>1. p \in TheLab!Stages /\ plasma \in SUBSET TheLab!Plasma /\ phase \in 0 .. 3 /\ exit \in BOOLEAN
      BY <1>7, <2>2, <2>3
    <3>2. l \in TheLab!Stages
      <4>1. PICK q : q = [p EXCEPT !.stage = "idle", !.rate = 0, !.phase = phase]
        OBVIOUS
      <4>2. q \in TheLab!Stages
        BY <3>1, <4>1 DEF TheLab!Stages
      <4>3. l = [q EXCEPT !.plasma = plasma, !.exit = exit]
        BY <2>1, <4>1
      <4> QED BY <3>1, <4>2, <4>3 DEF TheLab!Stages
    <3>3. /\ l.phase = phase /\ l.stage = "idle" /\ l.rate = 0 /\ l.exit = exit /\ l.done = p.done
          /\ l.panel = p.panel /\ l.plasma = plasma
      BY <2>1, <3>1 DEF TheLab!Stages
    <3> QED BY <1>7, <2>3, <3>2, <3>3
  <2>5. LabAt(l) = k + 1
    BY <1>2, <2>3, <2>4 DEF LabAt
  <2>6. LabDoors(l)
    BY <1>2, <1>7, <2>4, <2>5, <2>2 DEF LabDoors
  <2>7. LabRoom(c, l)
    BY <2>4 DEF LabRoom
  <2> QED BY <1>2, <1>13, <2>4, <2>5, <2>6, <2>7
<1>14. CASE ~TheLab!CanStart(c, p, k) /\ p.stage # "running" /\ ~(p.stage = "clear" /\ p.panel[k] # "running")
  BY <1>10, <1>14, <1>2, <1>4, <1>5, <1>7 DEF LabRoom
<1> QED
  BY <1>11, <1>12, <1>13, <1>14

\* What the rate on the panel of the slave stands for.
LEMMA LabHeard ==
    ASSUME TheLab!LabInv, NEW k \in TheLab!Room, v1[1].phase = k, v1[1].stage = "running",
           TheLab!Settled, ~(v1[0].phase = k /\ v1[0].stage = "idle")
    PROVE  \/ k \in v9
           \/ v6 = k /\ v4[0] = "RUNNING" /\ v4[1] = "RUNNING" /\ TheLab!Presses(v7[1])
<1> USE LabClients
<1>1. k \in {1, 2, 3} /\ TheLab!At(1) = k
  BY DEF TheLab!Room, TheLab!At
<1>2. v7[1] = << >> /\ TheLab!Presses(v7[1]) /\ v4[1] = v4[0]
  BY DEF TheLab!Settled, TheLab!Presses, TheLab!LabInv, TheLab!Told
<1>3. TheLab!At(0) >= k /\ TheLab!At(0) \in 1 .. 4
  BY <1>1, LabKeeps DEF TheLab!LabInv, LabRoom
<1>4. CASE TheLab!At(0) > k
  BY <1>1, <1>3, <1>4 DEF TheLab!LabInv, TheLab!MasterWaits
<1>5. CASE TheLab!At(0) = k
  BY <1>1, <1>5, <1>2 DEF TheLab!At, TheLab!LabInv, TheLab!Typed, TheLab!Stages, TheLab!MasterWaits
<1> QED BY <1>1, <1>3, <1>4, <1>5

LEMMA LabAppends ==
    ASSUME NEW S, NEW s \in Seq(S), NEW x \in S
    PROVE  /\ Append(s, x) \in Seq(S) /\ Len(s) \in Nat /\ Len(Append(s, x)) = Len(s) + 1
           /\ DOMAIN s = 1 .. Len(s) /\ DOMAIN Append(s, x) = 1 .. Len(s) + 1
           /\ Append(s, x)[Len(s) + 1] = x /\ \A i \in 1 .. Len(s) : Append(s, x)[i] = s[i]
OBVIOUS

\* The master tells the state of the wave.
LEMMA LabTells ==
    ASSUME TheLab!Typed, NEW x \in TheLab!Waves,
           v4' = [v4 EXCEPT ![0] = x], TheLab!Send(0, <<"wave", x>>)
    PROVE  /\ v4'[0] = x /\ v4'[1] = v4[1] /\ v4' \in [TheLab!Client -> TheLab!Waves]
           /\ v7'[0] = v7[0] /\ v7' \in [TheLab!Client -> Seq(TheLab!Call)] /\ TheLab!Told'
<1> USE LabClients
<1>1. v7' = [v7 EXCEPT ![1] = Append(v7[1], <<"wave", x>>)]
  BY DEF TheLab!Send
<1>2. v4'[0] = x /\ v4'[1] = v4[1] /\ v7'[0] = v7[0] /\ v4' \in [TheLab!Client -> TheLab!Waves]
  BY <1>1 DEF TheLab!Typed
<1>3. PICK q : q = <<"wave", x>>
  OBVIOUS
<1>4. q \in TheLab!Call /\ q[1] = "wave" /\ q[2] = x
  BY <1>3 DEF TheLab!Call
<1>5. v7[1] \in Seq(TheLab!Call) /\ v7'[1] = Append(v7[1], q)
  BY <1>1, <1>3 DEF TheLab!Typed
<1>6. PICK n \in Nat : n = Len(v7[1])
  BY <1>5
<1>7. v7'[1] \in Seq(TheLab!Call) /\ v7'[1][n + 1] = q /\ DOMAIN v7'[1] = 1 .. n + 1
  BY <1>4, <1>5, <1>6, LabAppends
<1>8. v7' \in [TheLab!Client -> Seq(TheLab!Call)]
  BY <1>1, <1>2, <1>7 DEF TheLab!Typed
<1>9. n + 1 \in DOMAIN v7'[1] /\ v7'[1][n + 1][1] = "wave" /\ v7'[1][n + 1][2] = x
  BY <1>4, <1>7
<1>10. TheLab!Told'
  <2>1. ~TheLab!Presses(v7'[1])
    BY <1>9 DEF TheLab!Presses
  <2>2. ASSUME NEW i \in DOMAIN v7'[1], v7'[1][i][1] = "wave"
        PROVE  v7'[1][i][2] = v4'[0] \/ \E j \in DOMAIN v7'[1] : i < j /\ v7'[1][j][1] = "wave"
    BY <1>7, <1>2, <1>9
  <2> QED BY <2>1, <2>2 DEF TheLab!Told, TheLab!Presses
<1> QED BY <1>2, <1>8, <1>10

LEMMA LabTickMaster ==
    ASSUME TheLab!LabInv, NEW l \in TheLab!Stages, NEW r \in Nat, NEW k \in TheLab!Room, v1[0].phase = k,
           v1' = [v1 EXCEPT ![0] = l], v2' = v2, v3' = v3, v9' = v9, v10' = v10,
           TheLab!At(0)' = LabAt(l), v1'[1] = v1[1], TheLab!At(1)' = TheLab!At(1),
           \/ l.stage = v1[0].stage /\ l.phase = k /\ l.rate = r
           \/ v1[0].stage = "idle" /\ l.stage = "running" /\ l.phase = k /\ l.rate = 0
           \/ v1[0].stage = "running" /\ r >= HackingTime /\ v4[0] = "SPAWN_END" /\ l.stage = "clear" /\ l.phase = k
           \/ v1[0].stage = "clear" /\ l.stage = "idle" /\ LabAt(l) = k + 1,
           IF v1[0].stage = "idle" /\ l.stage = "running"
           THEN /\ v4' = [v4 EXCEPT ![0] = "RUNNING"] /\ v6' = k
                /\ TheLab!Send(0, <<"wave", "RUNNING">>)
           ELSE v4' = v4 /\ v6' = v6 /\ v7' = v7
    PROVE  /\ v4' \in [TheLab!Client -> TheLab!Waves] /\ v7' \in [TheLab!Client -> Seq(TheLab!Call)]
           /\ TheLab!MasterWaits' /\ TheLab!Told' /\ TheLab!SlaveWaits'
<1> USE LabClients
<1>1. k \in {1, 2, 3} /\ TheLab!At(0) = k
  BY DEF TheLab!Room, TheLab!At
<1>2. v1'[0] = l /\ v1'[1] = v1[1]
  BY DEF TheLab!LabInv, TheLab!Typed
<1>3. CASE v1[0].stage = "idle" /\ l.stage = "running"
  BY <1>3, <1>1, LabTells, <1>2 DEF LabAt, TheLab!Waves, TheLab!LabInv, TheLab!MasterWaits, TheLab!Presses,
    TheLab!SlaveWaits
<1>4. CASE ~(v1[0].stage = "idle" /\ l.stage = "running")
  <2>1. v4' = v4 /\ v6' = v6 /\ v7' = v7
    BY <1>4
  <2>2. /\ TheLab!MasterWaits /\ TheLab!Told /\ TheLab!SlaveWaits
        /\ v4 \in [TheLab!Client -> TheLab!Waves] /\ v7 \in [TheLab!Client -> Seq(TheLab!Call)]
    BY DEF TheLab!LabInv, TheLab!Typed
  <2>3. TheLab!MasterWaits'
    <3> SUFFICES /\ TheLab!Presses(v7[0])
                 /\ l.stage = "running" => v6 = l.phase /\ (v4[0] = "RUNNING" \/ v6 \in v9)
                 /\ l.stage = "clear" => l.phase \in v9
                 /\ v4[0] = "RUNNING" => l.stage = "running"
                 /\ 1 .. LabAt(l) - 1 \subseteq v9
      BY <1>2, <2>1 DEF TheLab!MasterWaits, TheLab!Presses
    <3>1. /\ TheLab!Presses(v7[0])
          /\ v1[0].stage = "running" => v6 = k /\ (v4[0] = "RUNNING" \/ v6 \in v9)
          /\ v1[0].stage = "clear" => k \in v9
          /\ v4[0] = "RUNNING" => v1[0].stage = "running"
          /\ 1 .. k - 1 \subseteq v9
      BY <1>1, <2>2 DEF TheLab!MasterWaits
    <3>2. l.phase = k => LabAt(l) = k
      BY <1>1 DEF LabAt
    <3>3. CASE l.phase = k
      BY <1>1, <1>4, <3>1, <3>2, <3>3
    <3>4. CASE v1[0].stage = "clear" /\ l.stage = "idle" /\ LabAt(l) = k + 1
      BY <1>1, <3>1, <3>4
    <3> QED BY <3>3, <3>4
  <2>4. TheLab!Told' /\ TheLab!SlaveWaits'
    BY <1>2, <2>1, <2>2 DEF TheLab!Told, TheLab!SlaveWaits, TheLab!Presses
  <2> QED BY <2>1, <2>2, <2>3, <2>4
<1> QED BY <1>3, <1>4

LEMMA LabTickSlave ==
    ASSUME TheLab!LabInv, NEW l \in TheLab!Stages, NEW r \in Nat, NEW k \in TheLab!Room, v1[1].phase = k,
           v1' = [v1 EXCEPT ![1] = l], v2' = v2, v3' = v3, v4' = v4, v6' = v6, v7' = v7, v9' = v9,
           TheLab!At(1)' = LabAt(l), v1'[0] = v1[0], TheLab!At(0)' = TheLab!At(0),
           r = v1[1].rate \/ (v1[1].stage = "running" /\ TheLab!Settled),
           \/ l.stage = v1[1].stage /\ l.phase = k /\ l.rate = r
           \/ v1[1].stage = "idle" /\ l.stage = "running" /\ l.phase = k /\ l.rate = 0
           \/ v1[1].stage = "running" /\ r >= HackingTime /\ v4[1] = "SPAWN_END" /\ l.stage = "clear" /\ l.phase = k
           \/ v1[1].stage = "clear" /\ l.stage = "idle" /\ LabAt(l) = k + 1,
           ~v10' => ~v10 /\ (r = v1[1].rate \/ ~(v1[0].phase = k /\ v1[0].stage = "idle"))
    PROVE  TheLab!MasterWaits' /\ TheLab!Told' /\ TheLab!SlaveWaits'
<1> USE LabClients
<1>1. k \in {1, 2, 3} /\ TheLab!At(1) = k /\ v1[1].rate \in Nat
  BY DEF TheLab!Room, TheLab!At, TheLab!LabInv, TheLab!Typed, TheLab!Stages
<1>2. v1'[1] = l /\ v1'[0] = v1[0]
  BY DEF TheLab!LabInv, TheLab!Typed
<1>3. TheLab!MasterWaits /\ TheLab!Told /\ TheLab!SlaveWaits
  BY DEF TheLab!LabInv
<1>4. TheLab!MasterWaits' /\ TheLab!Told'
  BY <1>2, <1>3 DEF TheLab!MasterWaits, TheLab!Told, TheLab!Presses
<1>5. TheLab!SlaveWaits'
  <2> SUFFICES ASSUME ~v10'
               PROVE  /\ l.stage = "running" /\ l.rate > 0 =>
                           \/ l.phase \in v9
                           \/ v6 = l.phase /\ v4[0] = "RUNNING" /\ v4[1] = "RUNNING" /\ TheLab!Presses(v7[1])
                      /\ l.stage = "clear" => l.phase \in v9
                      /\ 1 .. LabAt(l) - 1 \subseteq v9
    BY <1>2 DEF TheLab!SlaveWaits, TheLab!Presses
  <2>1. /\ v1[1].stage = "clear" => k \in v9
        /\ 1 .. k - 1 \subseteq v9
    BY <1>1, <1>3 DEF TheLab!SlaveWaits
  <2>2. v1[1].stage = "running" /\ r > 0 =>
           \/ k \in v9
           \/ v6 = k /\ v4[0] = "RUNNING" /\ v4[1] = "RUNNING" /\ TheLab!Presses(v7[1])
    BY <1>1, <1>3, LabHeard DEF TheLab!SlaveWaits
  <2>3. l.phase = k => LabAt(l) = k
    BY <1>1 DEF LabAt
  <2>4. CASE l.stage = v1[1].stage /\ l.phase = k /\ l.rate = r
    BY <2>1, <2>2, <2>3, <2>4
  <2>5. CASE v1[1].stage = "idle" /\ l.stage = "running" /\ l.phase = k /\ l.rate = 0
    BY <2>1, <2>3, <2>5
  <2>6. CASE v1[1].stage = "running" /\ r >= HackingTime /\ v4[1] = "SPAWN_END" /\ l.stage = "clear" /\ l.phase = k
    BY <2>1, <2>2, <2>3, <2>6
  <2>7. CASE v1[1].stage = "clear" /\ l.stage = "idle" /\ LabAt(l) = k + 1
    BY <1>1, <2>1, <2>7
  <2> QED BY <2>4, <2>5, <2>6, <2>7
<1> QED BY <1>4, <1>5

\* A tick of client c, in a phase and after the last one.
LEMMA LabTick ==
    ASSUME TheLab!LabInv, NEW c \in TheLab!Client, TheLab!Tick(c)
    PROVE  TheLab!LabInv'
<1> USE LabClients
<1>1. PICK timed : timed = IF TheLab!Settled THEN TheLab!LabWaveTimers(v1[c]) ELSE v1[c]
  OBVIOUS
<1>2. PICK k : k = v1[c].phase
  OBVIOUS
<1>3. PICK l : l = IF v1[c].done \/ k = 0 THEN TheLab!Lab1End(c, v1[c]) ELSE TheLab!PhaseFlow(c, timed, k)
  OBVIOUS
<1>4. /\ v1' = [v1 EXCEPT ![c] = l] /\ v2' = v2 /\ v3' = v3 /\ v9' = v9
      /\ IF (v1[c].stage = "idle" /\ l.stage = "running") /\ c = 0
         THEN /\ v4' = [v4 EXCEPT ![c] = "RUNNING"] /\ v6' = k
              /\ TheLab!Send(c, <<"wave", "RUNNING">>)
         ELSE v4' = v4 /\ v6' = v6 /\ v7' = v7
      /\ v10' = (v10 \/ (timed # v1[c] /\ v1[0].phase = k /\ v1[0].stage = "idle"))
  BY <1>1, <1>2, <1>3 DEF TheLab!Tick
<1>5. /\ TheLab!Typed /\ TheLab!Behind /\ TheLab!Within /\ v10 \in BOOLEAN
      /\ v2' \in [TheLab!Client -> 0 .. 4] /\ v3' \in [TheLab!Client -> [TheLab!Client -> 0 .. 4]]
      /\ v4 \in [TheLab!Client -> TheLab!Waves] /\ v7 \in [TheLab!Client -> Seq(TheLab!Call)]
  BY <1>4 DEF TheLab!LabInv, TheLab!Typed
<1>6. v10' \in BOOLEAN
  BY <1>4, <1>5
<1>7. /\ v1[c] \in TheLab!Stages /\ LabAt(v1[c]) = TheLab!At(c) /\ LabDoors(v1[c]) /\ LabRoom(c, v1[c])
      /\ v2[c] = v3[c][c] /\ v3[c][TheLab!Other(c)] <= TheLab!At(TheLab!Other(c))
  BY <1>5, LabKeeps
<1>8. CASE v1[c].done \/ k = 0
  <2>1. k = 0 /\ TheLab!At(c) = 4
    BY <1>2, <1>7, <1>8 DEF LabRoom, LabAt
  <2>2. timed = v1[c] /\ v10' = v10
    BY <1>1, <1>2, <1>4, <1>5, <2>1 DEF TheLab!LabWaveTimers
  <2>3. l = v1[c] \/ (l = [v1[c] EXCEPT !.exit = FALSE, !.done = TRUE] /\ \A h \in TheLab!Client : v3[c][h] = 4)
    BY <1>3, <1>8 DEF TheLab!Lab1End, TheLab!IsBothEntered
  <2>4. /\ l \in TheLab!Stages /\ l.stage = v1[c].stage /\ l.phase = v1[c].phase /\ l.rate = v1[c].rate
        /\ l.panel = v1[c].panel /\ l.plasma = v1[c].plasma
        /\ (l.exit = v1[c].exit /\ l.done = v1[c].done) \/ (~l.exit /\ l.done /\ \A h \in TheLab!Client : v3[c][h] = 4)
    BY <1>7, <2>3 DEF TheLab!Stages
  <2>5. LabAt(l) = 4 /\ LabDoors(l)
    BY <1>2, <1>7, <2>1, <2>4 DEF LabDoors, LabAt
  <2>6. LabRoom(c, l)
    <3>1. TheLab!At(TheLab!Other(c)) \in 1 .. 4
      BY <1>5, LabKeeps
    <3>2. CASE l.exit = v1[c].exit /\ l.done = v1[c].done
      BY <1>7, <2>4, <3>2 DEF LabRoom
    <3>3. CASE ~l.exit /\ l.done /\ \A h \in TheLab!Client : v3[c][h] = 4
      <4>1. v2[c] = 4 /\ TheLab!At(TheLab!Other(c)) = 4
        BY <1>7, <3>1, <3>3
      <4> QED BY <1>2, <1>7, <2>1, <2>4, <3>3, <4>1 DEF LabRoom
    <3> QED BY <2>4, <3>2, <3>3
  <2>7. TheLab!Behind' /\ TheLab!Within' /\ \A d \in TheLab!Client : TheLab!At(d)' = TheLab!At(d)
    <3>1. LabAt(l) >= TheLab!At(c)
      BY <2>1, <2>5
    <3>2. /\ TheLab!Behind' /\ TheLab!Within' /\ TheLab!At(c)' = LabAt(l)
          /\ \A d \in TheLab!Client \ {c} : v1'[d] = v1[d] /\ TheLab!At(d)' = TheLab!At(d)
      BY <1>4, <1>5, <2>4, <2>5, <2>6, <3>1, LabChanges
    <3> QED BY <2>1, <2>5, <3>2
  <2>8. v4' = v4 /\ v6' = v6 /\ v7' = v7
    BY <1>4, <2>4
  <2>9. /\ v1' \in [TheLab!Client -> TheLab!Stages]
        /\ \A d \in TheLab!Client : v1'[d].stage = v1[d].stage /\ v1'[d].phase = v1[d].phase /\ v1'[d].rate = v1[d].rate
    BY <1>4, <1>5, <2>4 DEF TheLab!Typed
  <2>10. TheLab!Typed'
    BY <1>5, <1>6, <2>8, <2>9 DEF TheLab!Typed
  <2>11. TheLab!MasterWaits' /\ TheLab!Told' /\ TheLab!SlaveWaits'
    BY <1>4, <2>2, <2>7, <2>8, <2>9 DEF TheLab!LabInv, TheLab!MasterWaits, TheLab!Told, TheLab!SlaveWaits, TheLab!Presses
  <2> QED BY <2>7, <2>10, <2>11 DEF TheLab!LabInv
<1>9. CASE ~v1[c].done /\ k # 0
  <2>1. k \in TheLab!Room
    BY <1>2, <1>7, <1>9 DEF TheLab!Stages, TheLab!Room
  <2>2. PICK r \in Nat : /\ timed = [v1[c] EXCEPT !.rate = r] /\ (r = v1[c].rate <=> timed = v1[c])
                         /\ r = v1[c].rate \/ (v1[c].stage = "running" /\ TheLab!Settled)
    BY <1>7, <1>1 DEF TheLab!Stages, TheLab!LabWaveTimers
  <2>3. l = TheLab!PhaseFlow(c, [v1[c] EXCEPT !.rate = r], k)
    BY <1>3, <1>9, <2>2
  <2>4. /\ l \in TheLab!Stages /\ LabAt(l) >= TheLab!At(c) /\ LabDoors(l) /\ LabRoom(c, l)
        /\ \/ l.stage = v1[c].stage /\ l.phase = k /\ l.rate = r
           \/ v1[c].stage = "idle" /\ l.stage = "running" /\ l.phase = k /\ l.rate = 0
           \/ v1[c].stage = "running" /\ r >= HackingTime /\ v4[c] = "SPAWN_END" /\ l.stage = "clear" /\ l.phase = k
           \/ v1[c].stage = "clear" /\ l.stage = "idle" /\ LabAt(l) = k + 1
    BY <1>2, <1>9, <2>2, <1>5, <2>3, LabFlow
  <2>5. /\ TheLab!Behind' /\ TheLab!Within' /\ TheLab!At(c)' = LabAt(l)
        /\ \A d \in TheLab!Client \ {c} : v1'[d] = v1[d] /\ TheLab!At(d)' = TheLab!At(d)
    BY <1>4, <1>5, <2>4, LabChanges
  <2>6. v1' \in [TheLab!Client -> TheLab!Stages]
    BY <1>4, <1>5, <2>4 DEF TheLab!Typed
  <2>7. CASE c = 0
    <3>1. v10' = v10
      BY <2>2, <2>7, <1>4, <1>5
    <3>2. /\ v4' \in [TheLab!Client -> TheLab!Waves] /\ v7' \in [TheLab!Client -> Seq(TheLab!Call)]
          /\ TheLab!MasterWaits' /\ TheLab!Told' /\ TheLab!SlaveWaits'
      BY <1>2, <1>4, <2>1, <2>2, <2>4, <2>5, <2>7, <3>1, LabTickMaster
    <3>3. TheLab!Typed'
      BY <1>5, <1>6, <2>6, <3>2 DEF TheLab!Typed
    <3> QED BY <2>5, <3>2, <3>3 DEF TheLab!LabInv
  <2>8. CASE c = 1
    <3>1. v4' = v4 /\ v6' = v6 /\ v7' = v7
      BY <1>4, <2>8
    <3>2. ~v10' => ~v10 /\ (r = v1[1].rate \/ ~(v1[0].phase = k /\ v1[0].stage = "idle"))
      BY <1>4, <2>2, <2>8
    <3>3. TheLab!MasterWaits' /\ TheLab!Told' /\ TheLab!SlaveWaits'
      BY <1>2, <1>4, <2>1, <2>2, <2>4, <2>5, <2>8, <3>1, <3>2, LabTickSlave
    <3>4. TheLab!Typed'
      BY <1>5, <1>6, <2>6, <3>1 DEF TheLab!Typed
    <3> QED BY <2>5, <3>3, <3>4 DEF TheLab!LabInv
  <2> QED BY <2>7, <2>8
<1> QED BY <1>8, <1>9

\* A panel that is pressed changes nothing else.
LEMMA LabHacks ==
    ASSUME TheLab!Typed, TheLab!Behind, TheLab!Within, NEW c \in TheLab!Client, NEW k \in TheLab!Room,
           NEW near \in BOOLEAN, v1' = TheLab!StartHacking(c, k, near), v2' = v2, v3' = v3
    PROVE  /\ TheLab!Behind' /\ TheLab!Within' /\ v1' \in [TheLab!Client -> TheLab!Stages]
           /\ \A d \in TheLab!Client :
                /\ TheLab!At(d)' = TheLab!At(d)
                /\ v1'[d].stage = v1[d].stage /\ v1'[d].phase = v1[d].phase /\ v1'[d].rate = v1[d].rate
<1> USE LabClients
<1>1. CASE v1' = v1
  BY <1>1 DEF TheLab!Typed, TheLab!Behind, TheLab!Within, TheLab!At
<1>2. CASE v1[c].panel[k] = "ready" /\ v1' = [v1 EXCEPT ![c].panel[k] = "running"]
  <2>1. PICK panel : panel = [v1[c].panel EXCEPT ![k] = "running"]
    OBVIOUS
  <2>2. PICK l : l = [v1[c] EXCEPT !.panel = panel]
    OBVIOUS
  <2>3. v1' = [v1 EXCEPT ![c] = l] /\ v1 \in [TheLab!Client -> TheLab!Stages]
    BY <1>2, <2>1, <2>2 DEF TheLab!Typed
  <2>4. /\ v1[c] \in TheLab!Stages /\ LabAt(v1[c]) = TheLab!At(c) /\ LabAt(v1[c]) \in 1 .. 4
        /\ LabDoors(v1[c]) /\ LabRoom(c, v1[c])
    BY LabKeeps
  <2>5. /\ panel \in [TheLab!Room -> {"off", "ready", "running", "end"}]
        /\ \A j \in TheLab!Room : (panel[j] # "off" <=> v1[c].panel[j] # "off")
    BY <1>2, <2>1, <2>4 DEF TheLab!Stages
  <2>6. /\ l \in TheLab!Stages /\ l.panel = panel /\ l.stage = v1[c].stage /\ l.phase = v1[c].phase
        /\ l.rate = v1[c].rate /\ l.plasma = v1[c].plasma /\ l.exit = v1[c].exit /\ l.done = v1[c].done
    BY <2>2, <2>4, <2>5 DEF TheLab!Stages
  <2>7. LabAt(l) = LabAt(v1[c]) /\ 2 \in TheLab!Room
    BY <2>6 DEF LabAt, TheLab!Room
  <2>8. LabDoors(l)
    BY <2>4, <2>5, <2>6, <2>7 DEF LabDoors
  <2>9. v1[c].phase # 0 => v1[c].phase \in TheLab!Room
    BY <2>4 DEF TheLab!Stages, TheLab!Room
  <2>10. LabRoom(c, l)
    BY <2>4, <2>5, <2>6, <2>9 DEF LabRoom
  <2>11. /\ TheLab!Behind' /\ TheLab!Within' /\ TheLab!At(c)' = LabAt(l)
         /\ \A d \in TheLab!Client \ {c} : v1'[d] = v1[d] /\ TheLab!At(d)' = TheLab!At(d)
    <3>1. LabAt(l) >= TheLab!At(c)
      BY <2>4, <2>7
    <3> QED BY <2>3, <2>6, <2>8, <2>10, <3>1, LabChanges
  <2>12. v1'[c] = l /\ v1' \in [TheLab!Client -> TheLab!Stages]
    BY <2>3, <2>6
  <2> QED BY <2>4, <2>6, <2>7, <2>11, <2>12
<1> QED BY <1>1, <1>2 DEF TheLab!StartHacking

LEMMA LabPress ==
    ASSUME TheLab!LabInv, NEW h \in TheLab!Client, TheLab!Press(h)
    PROVE  TheLab!LabInv'
<1> USE LabClients
<1>1. PICK near \in BOOLEAN : v1' = TheLab!StartHacking(h, v2[h], near) /\ TheLab!Send(h, <<"press", v2[h]>>)
  BY DEF TheLab!Press
<1>2. v2[h] \in TheLab!Room /\ v2' = v2 /\ v3' = v3 /\ v4' = v4 /\ v6' = v6 /\ v9' = v9 /\ v10' = v10
  BY DEF TheLab!Press
<1>3. TheLab!Typed /\ TheLab!Behind /\ TheLab!Within /\ TheLab!MasterWaits /\ TheLab!Told /\ TheLab!SlaveWaits
  BY DEF TheLab!LabInv
<1>4. /\ TheLab!Behind' /\ TheLab!Within' /\ v1' \in [TheLab!Client -> TheLab!Stages]
      /\ \A d \in TheLab!Client :
           /\ TheLab!At(d)' = TheLab!At(d)
           /\ v1'[d].stage = v1[d].stage /\ v1'[d].phase = v1[d].phase /\ v1'[d].rate = v1[d].rate
  BY <1>1, <1>2, <1>3, LabHacks
<1>5. PICK o \in TheLab!Client : o = TheLab!Other(h) /\ o # h
  OBVIOUS
<1>6. PICK q : q = <<"press", v2[h]>>
  OBVIOUS
<1>7. q \in TheLab!Call /\ q[1] = "press"
  BY <1>2, <1>6 DEF TheLab!Call
<1>8. v7' = [v7 EXCEPT ![o] = Append(v7[o], q)] /\ v7[o] \in Seq(TheLab!Call)
  BY <1>1, <1>3, <1>5, <1>6 DEF TheLab!Send, TheLab!Typed
<1>9. PICK n \in Nat : n = Len(v7[o])
  BY <1>8
<1>10. /\ Append(v7[o], q) \in Seq(TheLab!Call) /\ DOMAIN v7[o] = 1 .. n /\ DOMAIN Append(v7[o], q) = 1 .. n + 1
       /\ Append(v7[o], q)[n + 1] = q /\ \A i \in 1 .. n : Append(v7[o], q)[i] = v7[o][i]
  BY <1>7, <1>8, <1>9, LabAppends
<1>11. /\ v7'[o] = Append(v7[o], q) /\ v7'[h] = v7[h] /\ v7' \in [TheLab!Client -> Seq(TheLab!Call)]
  BY <1>3, <1>5, <1>8, <1>10 DEF TheLab!Typed
<1>12. TheLab!Presses(v7'[o]) <=> TheLab!Presses(v7[o])
  <2>1. ASSUME NEW i \in 1 .. n + 1
        PROVE  i = n + 1 \/ i \in 1 .. n
    BY <1>9
  <2>2. ASSUME NEW i \in 1 .. n
        PROVE  i \in 1 .. n + 1
    BY <1>9
  <2> QED BY <1>7, <1>10, <1>11, <2>1, <2>2 DEF TheLab!Presses
<1>13. \A d \in TheLab!Client : TheLab!Presses(v7'[d]) <=> TheLab!Presses(v7[d])
  BY <1>5, <1>11, <1>12
<1>14. TheLab!Typed'
  BY <1>2, <1>3, <1>4, <1>11 DEF TheLab!Typed
<1>15. TheLab!MasterWaits' /\ TheLab!SlaveWaits'
  BY <1>2, <1>3, <1>4, <1>13 DEF TheLab!MasterWaits, TheLab!Presses, TheLab!SlaveWaits
<1>16. TheLab!Told'
  <2>1. TheLab!Presses(v7'[1]) => v4[1] = v4[0]
    BY <1>3, <1>13 DEF TheLab!Told
  <2>2. ASSUME NEW i \in DOMAIN v7'[1], v7'[1][i][1] = "wave"
        PROVE  v7'[1][i][2] = v4[0] \/ \E j \in DOMAIN v7'[1] : i < j /\ v7'[1][j][1] = "wave"
    <3>1. CASE o # 1
      BY <1>5, <1>11, <3>1, <1>3, <2>2 DEF TheLab!Told
    <3>2. CASE o = 1
      <4>1. i \in 1 .. n /\ v7[1][i] = v7'[1][i]
        BY <1>7, <1>10, <1>11, <2>2, <3>2, <1>9
      <4>2. v7[1][i][2] = v4[0] \/ \E j \in 1 .. n : i < j /\ v7[1][j][1] = "wave"
        BY <1>3, <1>10, <2>2, <3>2, <4>1 DEF TheLab!Told
      <4>3. ASSUME NEW j \in 1 .. n
            PROVE  j \in DOMAIN v7'[1] /\ v7'[1][j] = v7[1][j]
        BY <1>9, <1>10, <1>11, <3>2
      <4> QED BY <4>1, <4>2, <4>3
    <3> QED BY <3>1, <3>2
  <2> QED BY <1>2, <2>1, <2>2 DEF TheLab!Told, TheLab!Presses
<1> QED BY <1>4, <1>14, <1>15, <1>16 DEF TheLab!LabInv

LEMMA LabRecv ==
    ASSUME TheLab!LabInv, NEW c \in TheLab!Client, TheLab!RecvRPC(c)
    PROVE  TheLab!LabInv'
<1> USE LabClients
<1>1. TheLab!Typed /\ TheLab!Behind /\ TheLab!Within /\ TheLab!MasterWaits /\ TheLab!Told /\ TheLab!SlaveWaits
  BY DEF TheLab!LabInv
<1>2. PICK m : m = Head(v7[c])
  OBVIOUS
<1>3. /\ v7[c] # << >> /\ v7' = [v7 EXCEPT ![c] = Tail(v7[c])]
      /\ IF m[1] = "wave" THEN v4' = [v4 EXCEPT ![c] = m[2]] /\ v1' = v1
         ELSE (\E near \in BOOLEAN : v1' = TheLab!StartHacking(c, m[2], near)) /\ v4' = v4
      /\ v2' = v2 /\ v3' = v3 /\ v6' = v6 /\ v9' = v9 /\ v10' = v10
  BY <1>2 DEF TheLab!RecvRPC
<1>4. v7[c] \in Seq(TheLab!Call)
  BY <1>1 DEF TheLab!Typed
<1>5. PICK n \in Nat \ {0} : n = Len(v7[c])
  BY <1>3, <1>4, QueueTails
<1>6. /\ Tail(v7[c]) \in Seq(TheLab!Call) /\ m = v7[c][1] /\ m \in TheLab!Call
      /\ DOMAIN v7[c] = 1 .. n /\ DOMAIN Tail(v7[c]) = 1 .. n - 1
      /\ \A i \in 1 .. n - 1 : Tail(v7[c])[i] = v7[c][i + 1]
  BY <1>2, <1>3, <1>4, <1>5, QueueTails
<1>7. /\ v7'[c] = Tail(v7[c]) /\ v7' \in [TheLab!Client -> Seq(TheLab!Call)]
      /\ \A d \in TheLab!Client : d # c => v7'[d] = v7[d]
  BY <1>1, <1>3, <1>6 DEF TheLab!Typed
<1>8. /\ 1 \in 1 .. n
      /\ \A i \in 1 .. n - 1 : i + 1 \in 1 .. n
      /\ \A i \in 1 .. n : i = 1 \/ (i - 1 \in 1 .. n - 1 /\ (i - 1) + 1 = i)
  BY <1>5
<1>9. /\ m[1] \in {"press", "wave"} /\ (m[1] = "press" => m[2] \in TheLab!Room) /\ (m[1] = "wave" => m[2] \in TheLab!Waves)
  BY <1>6 DEF TheLab!Call
<1>10. m[1] = "press" => (TheLab!Presses(v7'[c]) <=> TheLab!Presses(v7[c]))
  <2> SUFFICES ASSUME m[1] = "press"
               PROVE  TheLab!Presses(v7'[c]) <=> TheLab!Presses(v7[c])
    OBVIOUS
  <2>1. ASSUME TheLab!Presses(v7[c]), NEW i \in DOMAIN v7'[c]
        PROVE  v7'[c][i][1] = "press"
    BY <1>6, <1>7, <1>8, <2>1 DEF TheLab!Presses
  <2>2. ASSUME TheLab!Presses(v7'[c]), NEW i \in DOMAIN v7[c]
        PROVE  v7[c][i][1] = "press"
    <3>1. CASE i = 1
      BY <1>6, <3>1
    <3>2. CASE i # 1
      <4>1. i - 1 \in 1 .. n - 1 /\ (i - 1) + 1 = i
        BY <1>6, <1>8, <3>2
      <4>2. v7'[c][i - 1][1] = "press"
        BY <1>6, <1>7, <2>2, <4>1 DEF TheLab!Presses
      <4> QED BY <1>6, <1>7, <4>1, <4>2
    <3> QED BY <3>1, <3>2
  <2> QED BY <2>1, <2>2 DEF TheLab!Presses
<1>11. c = 0 => m[1] = "press"
  BY <1>1, <1>6, <1>8 DEF TheLab!MasterWaits, TheLab!Presses
<1>12. /\ TheLab!Behind' /\ TheLab!Within' /\ v1' \in [TheLab!Client -> TheLab!Stages]
       /\ \A d \in TheLab!Client :
            /\ TheLab!At(d)' = TheLab!At(d)
            /\ v1'[d].stage = v1[d].stage /\ v1'[d].phase = v1[d].phase /\ v1'[d].rate = v1[d].rate
  <2>1. CASE m[1] = "wave"
    BY <1>1, <1>3, <2>1 DEF TheLab!Typed, TheLab!Behind, TheLab!Within, TheLab!At
  <2>2. CASE m[1] = "press"
    <3>1. PICK near \in BOOLEAN : v1' = TheLab!StartHacking(c, m[2], near)
      BY <1>3, <2>2
    <3> QED BY <1>1, <1>3, <1>9, <2>2, <3>1, LabHacks
  <2> QED BY <1>9, <2>1, <2>2
<1>13. v4' \in [TheLab!Client -> TheLab!Waves] /\ v4'[0] = v4[0] /\ (m[1] = "press" => v4' = v4)
  BY <1>1, <1>3, <1>9, <1>11 DEF TheLab!Typed
<1>14. TheLab!Typed'
  BY <1>1, <1>3, <1>7, <1>12, <1>13 DEF TheLab!Typed
<1>15. TheLab!MasterWaits'
  BY <1>1, <1>7, <1>10, <1>11, <1>3, <1>12, <1>13 DEF TheLab!MasterWaits, TheLab!Presses
<1>16. TheLab!SlaveWaits'
  <2>1. CASE c = 1 /\ m[1] = "wave"
    BY <1>6, <1>8, <2>1, <1>1, <1>3, <1>12 DEF TheLab!Presses, TheLab!SlaveWaits
  <2>2. CASE m[1] = "press"
    BY <1>7, <1>10, <2>2, <1>1, <1>3, <1>12, <1>13 DEF TheLab!SlaveWaits, TheLab!Presses
  <2> QED BY <1>9, <1>11, <2>1, <2>2
<1>17. TheLab!Told'
  <2>1. CASE c = 0
    BY <1>7, <1>11, <1>13, <2>1, <1>1 DEF TheLab!Told, TheLab!Presses
  <2>2. CASE c = 1
    <3>1. TheLab!Presses(v7'[1]) => v4'[1] = v4[0]
      <4> SUFFICES ASSUME TheLab!Presses(v7'[1])
                   PROVE  v4'[1] = v4[0]
        OBVIOUS
      <4>1. CASE m[1] = "press"
        BY <1>1, <1>10, <1>13, <2>2, <4>1 DEF TheLab!Told
      <4>2. CASE m[1] = "wave"
        <5>1. v4'[1] = m[2]
          BY <1>1, <1>3, <2>2, <4>2 DEF TheLab!Typed
        <5>2. v7[1][1][2] = v4[0] \/ \E j \in DOMAIN v7[1] : 1 < j /\ v7[1][j][1] = "wave"
          BY <1>1, <1>6, <1>8, <2>2, <4>2 DEF TheLab!Told
        <5>3. ASSUME NEW j \in DOMAIN v7[1], 1 < j
              PROVE  v7[1][j][1] = "press"
          <6>1. j - 1 \in 1 .. n - 1 /\ (j - 1) + 1 = j
            BY <1>6, <1>8, <2>2, <5>3
          <6>2. v7'[1][j - 1][1] = "press"
            BY <1>6, <1>7, <2>2, <6>1 DEF TheLab!Presses
          <6> QED BY <1>6, <1>7, <2>2, <6>1, <6>2
        <5> QED BY <1>6, <2>2, <5>1, <5>2, <5>3
      <4> QED BY <1>9, <4>1, <4>2
    <3>2. ASSUME NEW i \in DOMAIN v7'[1], v7'[1][i][1] = "wave"
          PROVE  v7'[1][i][2] = v4[0] \/ \E j \in DOMAIN v7'[1] : i < j /\ v7'[1][j][1] = "wave"
      <4>1. i \in 1 .. n - 1 /\ i + 1 \in DOMAIN v7[1] /\ v7[1][i + 1] = v7'[1][i]
        BY <1>6, <1>7, <1>8, <2>2
      <4>2. v7[1][i + 1][2] = v4[0] \/ \E j \in DOMAIN v7[1] : i + 1 < j /\ v7[1][j][1] = "wave"
        BY <1>1, <3>2, <4>1 DEF TheLab!Told
      <4>3. ASSUME NEW j \in DOMAIN v7[1], i + 1 < j, v7[1][j][1] = "wave"
            PROVE  \E q \in DOMAIN v7'[1] : i < q /\ v7'[1][q][1] = "wave"
        <5>1. j \in 1 .. n
          BY <1>6, <2>2
        <5>2. j - 1 \in 1 .. n - 1 /\ (j - 1) + 1 = j /\ i < j - 1
          BY <1>8, <4>1, <4>3, <5>1
        <5>3. v7'[1][j - 1] = v7[1][j] /\ j - 1 \in DOMAIN v7'[1]
          BY <1>6, <1>7, <2>2, <5>2
        <5> QED BY <4>3, <5>2, <5>3
      <4> QED BY <4>1, <4>2, <4>3
    <3> QED BY <1>13, <3>1, <3>2 DEF TheLab!Told, TheLab!Presses
  <2> QED BY <2>1, <2>2
<1> QED BY <1>12, <1>14, <1>15, <1>16, <1>17 DEF TheLab!LabInv

LEMMA LabWave ==
    ASSUME TheLab!LabInv, TheLab!WaveTick
    PROVE  TheLab!LabInv'
<1> USE LabClients
<1>1. TheLab!Typed /\ TheLab!Behind /\ TheLab!Within /\ TheLab!MasterWaits /\ TheLab!Told /\ TheLab!SlaveWaits
  BY DEF TheLab!LabInv
<1>2. v4[0] = "RUNNING" /\ v1' = v1 /\ v2' = v2 /\ v3' = v3 /\ v6' = v6 /\ v10' = v10
  BY DEF TheLab!WaveTick
<1>3. v1[0].stage = "running" /\ v6 = v1[0].phase
  BY <1>1, <1>2 DEF TheLab!MasterWaits
<1>4. TheLab!Behind' /\ TheLab!Within' /\ \A d \in TheLab!Client : TheLab!At(d)' = TheLab!At(d)
  BY <1>1, <1>2 DEF TheLab!Behind, TheLab!Within, TheLab!At
<1>5. CASE v4' = [v4 EXCEPT ![0] = "SPAWN_END"] /\ TheLab!Send(0, <<"wave", "SPAWN_END">>) /\ v9' = v9 \cup {v6}
  BY <1>1, <1>5, LabTells, <1>2, <1>3, <1>4 DEF TheLab!Waves, TheLab!Typed, TheLab!MasterWaits, TheLab!Presses,
    TheLab!SlaveWaits, TheLab!LabInv
<1>6. CASE v4' = v4 /\ v7' = v7 /\ v9' = v9
  BY <1>1, <1>2, <1>6, <1>4 DEF TheLab!Typed, TheLab!MasterWaits, TheLab!Told, TheLab!SlaveWaits, TheLab!Presses,
    TheLab!LabInv
<1> QED BY <1>5, <1>6, LabClients DEF TheLab!WaveTick

LEMMA LabMove ==
    ASSUME TheLab!LabInv, NEW h \in TheLab!Client, TheLab!Move(h)
    PROVE  TheLab!LabInv'
<1> USE LabClients
<1>1. TheLab!Typed /\ TheLab!Behind /\ TheLab!Within /\ TheLab!MasterWaits /\ TheLab!Told /\ TheLab!SlaveWaits
  BY DEF TheLab!LabInv
<1>2. PICK p \in 0 .. 4 :
        /\ p = v2[h] + 1 \/ p + 1 = v2[h]
        /\ IF (IF p < v2[h] THEN p ELSE v2[h]) = 3 THEN v1[h].exit
           ELSE TheLab!DoorAfter[IF p < v2[h] THEN p ELSE v2[h]] \notin v1[h].plasma
        /\ v2' = [v2 EXCEPT ![h] = p] /\ v3' = [v3 EXCEPT ![h][h] = p]
  BY DEF TheLab!Move
<1>3. v1' = v1 /\ v4' = v4 /\ v6' = v6 /\ v7' = v7 /\ v9' = v9 /\ v10' = v10
  BY DEF TheLab!Move
<1>4. /\ v1[h] \in TheLab!Stages /\ LabAt(v1[h]) = TheLab!At(h) /\ LabAt(v1[h]) \in 1 .. 4
      /\ LabDoors(v1[h]) /\ LabRoom(h, v1[h]) /\ v2[h] \in 0 .. 4 /\ v2[h] <= TheLab!At(h)
  BY <1>1, LabKeeps
<1>5. /\ v2[h] = 0 /\ p = 1 => 0 \notin v1[h].plasma
      /\ v2[h] = 1 /\ p = 0 => 0 \notin v1[h].plasma
      /\ v2[h] = 1 /\ p = 2 => 1 \notin v1[h].plasma
      /\ v2[h] = 2 /\ p = 1 => 1 \notin v1[h].plasma
      /\ v2[h] = 2 /\ p = 3 => 3 \notin v1[h].plasma
      /\ v2[h] = 3 /\ p = 2 => 3 \notin v1[h].plasma
      /\ v2[h] = 3 /\ p = 4 => v1[h].exit
      /\ v2[h] = 4 /\ p = 3 => v1[h].exit
  BY <1>2 DEF TheLab!DoorAfter
<1>6. \/ v2[h] = 0 /\ p = 1
      \/ v2[h] = 1 /\ p \in {0, 2}
      \/ v2[h] = 2 /\ p \in {1, 3}
      \/ v2[h] = 3 /\ p \in {2, 4}
      \/ v2[h] = 4 /\ p = 3
  BY <1>2, <1>4
<1>7. p <= TheLab!At(h)
  BY <1>4, <1>5, <1>6 DEF LabDoors
<1>8. v1[h].stage # "running"
  <2> SUFFICES ASSUME v1[h].stage = "running"
               PROVE  FALSE
    OBVIOUS
  <2>1. PICK k : k = v1[h].phase
    OBVIOUS
  <2>2. /\ k \in {1, 2, 3} /\ v2[h] = k /\ TheLab!At(h) = k /\ v1[h].panel[k] # "off"
        /\ (k = 1 => 0 \in v1[h].plasma) /\ (k = 3 => 3 \in v1[h].plasma)
    BY <1>4, <2>1 DEF LabRoom, LabAt, TheLab!Stages
  <2>3. CASE k = 1
    BY <1>4, <1>5, <1>6, <2>2, <2>3 DEF LabDoors
  <2>4. CASE k = 2
    BY <1>4, <1>5, <1>6, <2>2, <2>4 DEF LabDoors
  <2>5. CASE k = 3
    BY <1>4, <1>5, <1>6, <2>2, <2>5 DEF LabDoors
  <2> QED BY <2>2, <2>3, <2>4, <2>5
<1>9. ~v1[h].done
  BY <1>4, <1>5, <1>6 DEF LabRoom
<1>10. \A d \in TheLab!Client : TheLab!At(d)' = TheLab!At(d)
  BY <1>3 DEF TheLab!At
<1>11. /\ v2' \in [TheLab!Client -> 0 .. 4] /\ v3' \in [TheLab!Client -> [TheLab!Client -> 0 .. 4]]
       /\ v2'[h] = p /\ v3'[h][h] = p
       /\ \A d \in TheLab!Client : d # h => v2'[d] = v2[d]
       /\ \A d, e \in TheLab!Client : d # h \/ e # h => v3'[d][e] = v3[d][e]
  BY <1>1, <1>2 DEF TheLab!Typed
<1>12. TheLab!Typed'
  BY <1>1, <1>3, <1>11 DEF TheLab!Typed
<1>13. TheLab!Behind'
  BY <1>1, <1>7, <1>11, <1>3, <1>10 DEF TheLab!Behind
<1>14. TheLab!Within'
  <2>1. \A d \in TheLab!Client : d = h \/ (v2'[d] = v2[d] /\ d # h)
    BY <1>11
  <2>2. \A d \in TheLab!Client : TheLab!Other(d) \in TheLab!Client
    OBVIOUS
  <2>3. ASSUME NEW d \in TheLab!Client, d # h
        PROVE  (/\ v1[d].stage = "running" =>
                    /\ v1[d].phase # 0 /\ v2[d] = TheLab!At(d) /\ TheLab!At(TheLab!Other(d)) >= TheLab!At(d)
                    /\ v1[d].panel[v1[d].phase] # "off"
                    /\ v1[d].phase = 1 => 0 \in v1[d].plasma
                    /\ v1[d].phase = 3 => 3 \in v1[d].plasma
                /\ v1[d].done => v1[d].phase = 0 /\ v2[d] = 4 /\ ~v1[d].exit /\ TheLab!At(TheLab!Other(d)) = 4
                /\ v1[d].stage = "clear" => v1[d].phase # 0
                /\ v1[d].stage = "idle" => v1[d].rate = 0)'
    BY <1>1, <1>3, <1>10, <2>1, <2>2, <2>3 DEF TheLab!Within
  <2>4. (v1[h].stage = "clear" => v1[h].phase # 0) /\ (v1[h].stage = "idle" => v1[h].rate = 0)
    BY <1>1 DEF TheLab!Within
  <2> QED BY <1>3, <1>8, <1>9, <2>3, <2>4 DEF TheLab!Within
<1>15. TheLab!MasterWaits' /\ TheLab!Told' /\ TheLab!SlaveWaits'
  BY <1>1, <1>3, <1>10 DEF TheLab!MasterWaits, TheLab!Told, TheLab!SlaveWaits, TheLab!Presses
<1> QED BY <1>12, <1>13, <1>14, <1>15 DEF TheLab!LabInv

LEMMA LabSee ==
    ASSUME TheLab!LabInv, NEW c \in TheLab!Client, TheLab!See(c)
    PROVE  TheLab!LabInv'
<1> USE LabClients
<1>1. TheLab!Typed /\ TheLab!Behind /\ TheLab!Within /\ TheLab!MasterWaits /\ TheLab!Told /\ TheLab!SlaveWaits
  BY DEF TheLab!LabInv
<1>2. PICK o \in TheLab!Client : o = TheLab!Other(c) /\ o # c
  OBVIOUS
<1>3. /\ v3' = [v3 EXCEPT ![c][o] = v2[o]]
      /\ v1' = v1 /\ v2' = v2 /\ v4' = v4 /\ v6' = v6 /\ v7' = v7 /\ v9' = v9 /\ v10' = v10
  BY <1>2 DEF TheLab!See
<1>4. /\ v3' \in [TheLab!Client -> [TheLab!Client -> 0 .. 4]] /\ v3'[c][o] = v2[o]
      /\ \A d, e \in TheLab!Client : d # c \/ e # o => v3'[d][e] = v3[d][e]
  BY <1>1, <1>3 DEF TheLab!Typed
<1>5. v2[o] <= TheLab!At(o)
  BY <1>1 DEF TheLab!Behind
<1>6. \A d \in TheLab!Client : TheLab!At(d)' = TheLab!At(d)
  BY <1>3 DEF TheLab!At
<1>7. TheLab!Typed'
  BY <1>1, <1>3, <1>4 DEF TheLab!Typed
<1>8. TheLab!Behind'
  BY <1>1, <1>2, <1>4, <1>5, <1>3, <1>6 DEF TheLab!Behind
<1>9. TheLab!Within'
  BY <1>1, <1>3, <1>6 DEF TheLab!Within
<1>10. TheLab!MasterWaits' /\ TheLab!Told' /\ TheLab!SlaveWaits'
  BY <1>1, <1>3, <1>6 DEF TheLab!MasterWaits, TheLab!Told, TheLab!SlaveWaits, TheLab!Presses
<1> QED BY <1>7, <1>8, <1>9, <1>10 DEF TheLab!LabInv

LEMMA LabInit == TheLab!Init => TheLab!LabInv
<1> USE LabClients
<1> SUFFICES ASSUME TheLab!Init
             PROVE  TheLab!LabInv
  OBVIOUS
<1>1. PICK l : l = [phase |-> 1, stage |-> "idle", rate |-> 0, panel |-> [k \in TheLab!Room |-> "off"],
                    prepared |-> {}, plasma |-> TheLab!Plasma, exit |-> FALSE, done |-> FALSE]
  OBVIOUS
<1>2. /\ v1 = [c \in TheLab!Client |-> l] /\ v2 = [c \in TheLab!Client |-> 0] /\ v3 = [c \in TheLab!Client |-> v2]
      /\ v4 = [c \in TheLab!Client |-> "READY"] /\ v7 = [c \in TheLab!Client |-> << >>] /\ v9 = {} /\ v10 = FALSE
  BY <1>1 DEF TheLab!Init
<1>3. l \in TheLab!Stages /\ l.phase = 1 /\ l.stage = "idle" /\ l.rate = 0 /\ 1 \in l.plasma /\ 3 \in l.plasma
      /\ ~l.exit /\ ~l.done /\ \A k \in TheLab!Room : l.panel[k] = "off"
  BY <1>1 DEF TheLab!Stages, TheLab!Plasma
<1>4. \A c \in TheLab!Client : v1[c] = l /\ TheLab!At(c) = 1 /\ v7[c] = << >> /\ TheLab!Presses(v7[c])
  BY <1>2, <1>3 DEF TheLab!At, TheLab!Presses
<1>5. TheLab!Typed
  <2>1. << >> \in Seq(TheLab!Call) /\ "READY" \in TheLab!Waves
    BY DEF TheLab!Waves
  <2>2. v2 \in [TheLab!Client -> 0 .. 4]
    BY <1>2
  <2>3. v3 \in [TheLab!Client -> [TheLab!Client -> 0 .. 4]]
    BY <1>2, <2>2
  <2>4. v4 \in [TheLab!Client -> TheLab!Waves]
    BY <1>2, <2>1
  <2>5. v7 \in [TheLab!Client -> Seq(TheLab!Call)]
    BY <1>2, <2>1
  <2>6. v1 \in [TheLab!Client -> TheLab!Stages] /\ v10 \in BOOLEAN
    BY <1>2, <1>3
  <2> QED BY <2>2, <2>3, <2>4, <2>5, <2>6 DEF TheLab!Typed
<1>6. TheLab!Behind
  BY <1>2, <1>3, <1>4 DEF TheLab!Room, TheLab!Behind
<1>7. TheLab!Within
  BY <1>3, <1>4 DEF TheLab!Within
<1>8. TheLab!MasterWaits /\ TheLab!SlaveWaits
  BY <1>2, <1>3, <1>4 DEF TheLab!MasterWaits, TheLab!SlaveWaits
<1>9. TheLab!Told
  BY <1>2, <1>4 DEF TheLab!Told
<1> QED BY <1>5, <1>6, <1>7, <1>8, <1>9 DEF TheLab!LabInv

LEMMA LabStep == LabInv /\ [Next]_vars => LabInv'
<1> SUFFICES ASSUME LabInv, [Next]_vars, part' = "lab"
             PROVE  TheLab!LabInv'
  BY DEF LabInv
<1>1. TheLab!LabInv /\ (TheLab!Next \/ UNCHANGED vars)
  BY DEF Next, vars, LabInv
<1>2. CASE TheLab!Next
  BY <1>1, <1>2, LabTick, LabWave, LabPress, LabRecv, LabMove, LabSee DEF TheLab!Next
<1>3. CASE UNCHANGED vars
  BY <1>1, <1>3 DEF vars, TheLab!LabInv, TheLab!Typed, TheLab!Behind, TheLab!Within, TheLab!MasterWaits,
                    TheLab!Told, TheLab!SlaveWaits, TheLab!Presses, TheLab!At
<1> QED
  BY <1>1, <1>2, <1>3

\* In the laboratory nobody is left behind a door that has shut, and no phase ends before all
\* its enemies have come: for any duration of a panel and of a wave, any number of presses, and
\* however late the clients see the heroes (APhase1_1::StartPhase1, RunningPhase1).
THEOREM LabHolds == Spec => []LabOK
<1>1. Init => LabInv
  BY LabInit DEF Init, LabInv
<1>2. LabInv => LabOK
  <2> SUFFICES ASSUME TheLab!LabInv
               PROVE  TheLab!LabsInStep /\ TheLab!WaveBeforeEnd
    BY DEF LabInv, LabOK
  <2>1. TheLab!LabsInStep
    <3> SUFFICES ASSUME NEW c \in TheLab!Client, v1[c].stage = "running" \/ v1[c].done
                 PROVE  TheLab!At(TheLab!Other(c)) >= TheLab!At(c) /\ v2[c] = TheLab!At(c)
      BY DEF TheLab!LabsInStep
    <3>1. CASE v1[c].stage = "running"
      BY <3>1 DEF TheLab!LabInv, TheLab!Within
    <3>2. CASE v1[c].done
      BY <3>2 DEF TheLab!LabInv, TheLab!Within, TheLab!At
    <3> QED BY <3>1, <3>2
  <2>2. TheLab!WaveBeforeEnd
    BY LabClients DEF TheLab!WaveBeforeEnd, TheLab!LabInv, TheLab!MasterWaits, TheLab!SlaveWaits
  <2> QED BY <2>1, <2>2
<1> QED
  BY <1>1, <1>2, LabStep, PTL DEF Spec

-----------------------------------------------------------------------------
(***************************************************************************)
(* The boss on the two clients.  Of the variables v1 is hp, v2 immortal,   *)
(* v3 die, v6 chan and v8 crossed.                                         *)
(***************************************************************************)
BossInv == part = "boss" => TheBoss!BossInv

LEMMA BossClients ==
    /\ TheBoss!Client = {0, 1} /\ TheBoss!Other(0) = 1 /\ TheBoss!Other(1) = 0 /\ TheBoss!Master = 0
    /\ \A c \in TheBoss!Client : /\ TheBoss!Other(c) \in TheBoss!Client /\ TheBoss!Other(c) # c
                                 /\ \A d \in TheBoss!Client : d = c \/ d = TheBoss!Other(c)
                                 /\ TheBoss!Other(TheBoss!Other(c)) = c
    /\ BossHp \in Nat /\ BossHp > 0 /\ Damages \subseteq Nat \ {0}
  BY GameAssumption DEF TheBoss!Client, TheBoss!Other, TheBoss!Master, GameAssumption, TheBoss!BossAssumption

LEMMA BossMessages ==
    ASSUME NEW c \in TheBoss!Client, NEW m \in TheBoss!Message(c)
    PROVE  /\ m[1] \in {"die", "hit", "shock", "immortal"}
           /\ m[1] = "hit" => m[2] \in Nat \ {0} /\ m[2] \in Damages
           /\ m[1] = "immortal" => m[2] \in BOOLEAN /\ (c = 0 => m[2] = FALSE)
           /\ m[1] = "immortal" => m = <<"immortal", m[2]>>
           /\ TheBoss!Cost(m) \in Nat
<1>1. \/ m = <<"die">>
      \/ \E d \in Damages : m = <<"hit", d>>
      \/ \E e \in Pulse : m = <<"shock", e>>
      \/ m = <<"immortal", FALSE>>
      \/ c # 0 /\ m = <<"immortal", TRUE>>
  <2>1. \/ m = <<"die">>
        \/ m \in {"hit"} \X Damages
        \/ m \in {"shock"} \X Pulse
        \/ m = <<"immortal", FALSE>>
        \/ c # TheBoss!Master /\ m = <<"immortal", TRUE>>
    BY Zenon DEF TheBoss!Message
  <2>2. m \in {"hit"} \X Damages => \E d \in Damages : m = <<"hit", d>>
    OBVIOUS
  <2>3. m \in {"shock"} \X Pulse => \E e \in Pulse : m = <<"shock", e>>
    OBVIOUS
  <2> QED BY <2>1, <2>2, <2>3, BossClients
<1>3. /\ m[1] \in {"die", "hit", "shock", "immortal"}
      /\ m[1] = "hit" => m[2] \in Damages
      /\ m[1] = "immortal" => m[2] \in BOOLEAN /\ (c = 0 => m[2] = FALSE) /\ m = <<"immortal", m[2]>>
  <2>1. CASE m = <<"die">>
    BY <2>1
  <2>2. CASE \E d \in Damages : m = <<"hit", d>>
    BY <2>2
  <2>3. CASE \E e \in Pulse : m = <<"shock", e>>
    BY <2>3
  <2>4. CASE m = <<"immortal", FALSE>>
    BY <2>4
  <2>5. CASE c # 0 /\ m = <<"immortal", TRUE>>
    BY <2>5
  <2> QED BY <1>1, <2>1, <2>2, <2>3, <2>4, <2>5
<1>2. m[1] = "hit" => m[2] \in Nat \ {0}
  BY <1>3, BossClients
<1> QED BY <1>2, <1>3 DEF TheBoss!Cost

LEMMA BossCalls ==
    ASSUME NEW c \in TheBoss!Client
    PROVE  /\ <<"die">> \in TheBoss!Message(c)
           /\ \A d \in Damages : <<"hit", d>> \in TheBoss!Message(c) /\ TheBoss!Cost(<<"hit", d>>) = d
           /\ \A e \in Pulse : <<"shock", e>> \in TheBoss!Message(c) /\ TheBoss!Cost(<<"shock", e>>) = 0
           /\ <<"immortal", FALSE>> \in TheBoss!Message(c) /\ TheBoss!Cost(<<"immortal", FALSE>>) = 0
           /\ c # 0 => <<"immortal", TRUE>> \in TheBoss!Message(c)
           /\ TheBoss!Cost(<<"immortal", TRUE>>) = 0
BY BossClients DEF TheBoss!Message, TheBoss!Cost

\* What will be left of the health, when the queue grows, ...
LEMMA BossRemainsMore ==
    ASSUME NEW S, NEW s \in Seq(S), NEW t \in Seq(S), NEW n \in Int, NEW left \in Int, NEW d \in Int,
           TheBoss!Remains(s, n, left), t = << >> => d = 0,
           \A j \in DOMAIN t : TheBoss!Cost(t[j]) = IF j = 1 THEN d ELSE 0
    PROVE  TheBoss!Remains(s \o t, n, left - d)
<1> DEFINE u == s \o t
           k == Len(s)
           m == Len(t)
<1>1. /\ k \in Nat /\ m \in Nat /\ DOMAIN s = 1 .. k /\ DOMAIN t = 1 .. m /\ DOMAIN u = 1 .. k + m
      /\ \A i \in 1 .. k + m : u[i] = IF i <= k THEN s[i] ELSE t[i - k]
      /\ Len(u) = k + m
  BY QueueConcats
<1>2. t = << >> => m = 0
  OBVIOUS
<1>3. m = 0 => t = << >>
  OBVIOUS
<1> HIDE DEF u, k, m
<1>4. PICK run \in [0 .. k -> Int] :
        /\ run[0] = n /\ run[k] = left
        /\ \A i \in 1 .. k : run[i] = run[i - 1] - TheBoss!Cost(s[i])
  BY DEF TheBoss!Remains, k
<1> DEFINE next == [i \in 0 .. k + m |-> IF i <= k THEN run[i] ELSE left - d]
<1>5. left - d \in Int
  OBVIOUS
<1>6. next \in [0 .. k + m -> Int]
  BY <1>1, <1>4, <1>5
<1>7. next[0] = n /\ next[k + m] = left - d
  BY <1>1, <1>3, <1>4
<1>8. ASSUME NEW i \in 1 .. k + m
      PROVE  next[i] = next[i - 1] - TheBoss!Cost(u[i])
  <2>1. i \in 0 .. k + m /\ i - 1 \in 0 .. k + m /\ i \in Int
    BY <1>1
  <2>2. CASE i <= k
    BY <1>1, <2>2, <2>1, <1>4
  <2>3. CASE i = k + 1
    <3>1. ~(i <= k) /\ i - 1 = k /\ i - k = 1 /\ k <= k /\ 1 \in 1 .. m
      BY <1>1, <2>3
    <3>2. u[i] = t[1] /\ next[i] = left - d /\ next[i - 1] = left
      BY <1>1, <1>4, <2>1, <3>1
    <3>3. TheBoss!Cost(t[1]) = d
      BY <1>1, <3>1
    <3> QED BY <3>2, <3>3
  <2>4. CASE ~(i <= k) /\ i # k + 1
    <3>1. ~(i - 1 <= k) /\ i - k \in 1 .. m /\ i - k # 1
      BY <1>1, <2>4
    <3>2. u[i] = t[i - k] /\ next[i] = left - d /\ next[i - 1] = left - d
      BY <1>1, <2>1, <2>4, <3>1
    <3>3. TheBoss!Cost(t[i - k]) = 0
      BY <1>1, <3>1
    <3> QED BY <1>5, <3>2, <3>3
  <2> QED BY <2>2, <2>3, <2>4
<1> HIDE DEF next
<1>9. TheBoss!Remains(u, n, left - d)
  BY <1>1, <1>6, <1>7, <1>8 DEF TheBoss!Remains
<1> QED BY <1>9 DEF u

\* ... when its first call is handled, ...
LEMMA BossRemainsNext ==
    ASSUME NEW S, NEW q \in Seq(S), q # << >>, NEW n \in Int, NEW left \in Int, TheBoss!Remains(q, n, left),
           \A i \in DOMAIN q : TheBoss!Cost(q[i]) \in Int
    PROVE  TheBoss!Remains(Tail(q), n - TheBoss!Cost(q[1]), left)
<1> DEFINE t == Tail(q)
           k == Len(q) - 1
<1>1. /\ k \in Nat /\ Len(q) = k + 1 /\ Len(t) = k /\ DOMAIN q = 1 .. k + 1 /\ \A i \in 1 .. k : t[i] = q[i + 1]
  BY QueueTails
<1> HIDE DEF t, k
<1>2. PICK run \in [0 .. k + 1 -> Int] :
        /\ run[0] = n /\ run[k + 1] = left
        /\ \A i \in 1 .. k + 1 : run[i] = run[i - 1] - TheBoss!Cost(q[i])
  BY <1>1 DEF TheBoss!Remains
<1> DEFINE next == [i \in 0 .. k |-> run[i + 1]]
<1>3. /\ \A i \in 0 .. k : i + 1 \in 0 .. k + 1 /\ i + 1 \in 1 .. k + 1
      /\ \A i \in 1 .. k : i \in 0 .. k /\ i - 1 \in 0 .. k /\ (i - 1) + 1 = i /\ (i + 1) - 1 = i /\ i \in 0 .. k + 1
      /\ 0 \in 0 .. k /\ k \in 0 .. k /\ 1 \in 1 .. k + 1 /\ 0 + 1 = 1 /\ 1 - 1 = 0
  BY <1>1
<1>4. next \in [0 .. k -> Int]
  BY <1>2, <1>3
<1>5. next[0] = n - TheBoss!Cost(q[1]) /\ next[k] = left
  BY <1>2, <1>3
<1>6. ASSUME NEW i \in 1 .. k
      PROVE  next[i] = next[i - 1] - TheBoss!Cost(t[i])
  BY <1>3, <1>2, <1>1
<1> HIDE DEF next
<1>7. TheBoss!Remains(t, n - TheBoss!Cost(q[1]), left)
  BY <1>1, <1>4, <1>5, <1>6 DEF TheBoss!Remains
<1> QED BY <1>7 DEF t

\* ... and when a hit takes of it.
LEMMA BossRemainsLess ==
    ASSUME NEW S, NEW q \in Seq(S), NEW n \in Int, NEW left \in Int, NEW d \in Int, TheBoss!Remains(q, n, left),
           \A i \in DOMAIN q : TheBoss!Cost(q[i]) \in Int
    PROVE  TheBoss!Remains(q, n - d, left - d)
<1>1. PICK k \in Nat : k = Len(q) /\ DOMAIN q = 1 .. k
  OBVIOUS
<1>2. PICK run \in [0 .. k -> Int] :
        /\ run[0] = n /\ run[k] = left
        /\ \A i \in 1 .. k : run[i] = run[i - 1] - TheBoss!Cost(q[i])
  BY <1>1 DEF TheBoss!Remains
<1> DEFINE next == [i \in 0 .. k |-> run[i] - d]
<1>3. next \in [0 .. k -> Int]
  BY <1>2
<1>4. next[0] = n - d /\ next[k] = left - d
  BY <1>1, <1>2
<1>5. ASSUME NEW i \in 1 .. k
      PROVE  next[i] = next[i - 1] - TheBoss!Cost(q[i])
  <2>1. i \in 0 .. k /\ i - 1 \in 0 .. k
    BY <1>1
  <2>2. run[i] \in Int /\ run[i - 1] \in Int /\ TheBoss!Cost(q[i]) \in Int
    BY <1>1, <1>2, <2>1
  <2>3. run[i] = run[i - 1] - TheBoss!Cost(q[i])
    BY <1>2
  <2>4. next[i] = run[i] - d /\ next[i - 1] = run[i - 1] - d
    BY <2>1
  <2> QED BY SMTT(60), <2>2, <2>3, <2>4
<1> HIDE DEF next
<1> QED BY <1>1, <1>3, <1>4, <1>5 DEF TheBoss!Remains

\* What a step of client c does: the calls t are sent, and the first call of its queue may be taken.
BossPasses(c, t, take) ==
    /\ t \in Seq(TheBoss!Message(TheBoss!Other(c))) /\ take \in BOOLEAN
    /\ DOMAIN v6' = TheBoss!Client /\ v6'[TheBoss!Other(c)] = v6[TheBoss!Other(c)] \o t
    /\ take => v6[c] # << >> /\ v6'[c] = Tail(v6[c])
    /\ ~take => v6'[c] = v6[c]

\* A client that dies has told it or has been told, ...
BossDies(c, t, take) ==
    /\ v3' \in [TheBoss!Client -> BOOLEAN] /\ v3'[TheBoss!Other(c)] = v3[TheBoss!Other(c)]
    /\ v3[c] => v3'[c]
    /\ v3'[c] => v3[c] \/ (\E j \in DOMAIN t : t[j][1] = "die") \/ (take /\ v6[c][1][1] = "die")
    /\ (\E j \in DOMAIN t : t[j][1] = "die") => v3'[c]
    /\ take /\ v6[c][1][1] = "die" => v3'[c]

\* ... one that lives loses what it tells and what it is told, ...
BossLoses(c, t, take) ==
    /\ v1' \in [TheBoss!Client -> Nat] /\ v1'[TheBoss!Other(c)] = v1[TheBoss!Other(c)]
    /\ ~v3'[c] => \E d \in Int : /\ t = << >> => d = 0
                                 /\ \A j \in DOMAIN t : TheBoss!Cost(t[j]) = IF j = 1 THEN d ELSE 0
                                 /\ v1'[c] = v1[c] - d - (IF take THEN TheBoss!Cost(v6[c][1]) ELSE 0)

\* ... and one that turns the boss immortal, or back, has been told so or tells it last.
BossTurns(c, t, take) ==
    /\ v2' \in [TheBoss!Client -> BOOLEAN] /\ v2'[TheBoss!Other(c)] = v2[TheBoss!Other(c)]
    /\ \/ /\ \A j \in DOMAIN t : t[j][1] # "immortal"
          /\ take => v6[c][1][1] # "immortal"
          /\ v2'[c] = v2[c]
       \/ take /\ v6[c][1] = <<"immortal", v2'[c]>> /\ t = << >>
       \/ /\ t # << >> /\ t[Len(t)] = <<"immortal", v2'[c]>>
          /\ v2'[c] => c = 0

\* The calls on their way after it.
LEMMA BossQueues ==
    ASSUME TheBoss!Typed, NEW c \in TheBoss!Client, NEW t, NEW take, BossPasses(c, t, take),
           NEW o, o = TheBoss!Other(c)
    PROVE  /\ o \in TheBoss!Client /\ DOMAIN v6' = TheBoss!Client
           /\ v6[c] \in Seq(TheBoss!Message(c)) /\ v6[o] \in Seq(TheBoss!Message(o))
           /\ v6'[c] \in Seq(TheBoss!Message(c)) /\ v6'[o] \in Seq(TheBoss!Message(o))
           /\ \A i \in DOMAIN v6[o] : i \in DOMAIN v6'[o] /\ v6'[o][i] = v6[o][i]
           /\ \A i \in DOMAIN v6'[o] : \/ i \in DOMAIN v6[o] /\ v6'[o][i] = v6[o][i]
                                       \/ \E j \in DOMAIN t : v6'[o][i] = t[j] /\ i = Len(v6[o]) + j
           /\ \A j \in DOMAIN t : Len(v6[o]) + j \in DOMAIN v6'[o] /\ v6'[o][Len(v6[o]) + j] = t[j]
           /\ \A i \in DOMAIN v6'[c] : \E j \in DOMAIN v6[c] : v6'[c][i] = v6[c][j] /\ i <= j
           /\ \A j \in DOMAIN v6[c] : \/ take /\ j = 1
                                      \/ \E i \in DOMAIN v6'[c] : v6'[c][i] = v6[c][j]
<1>1. /\ o \in TheBoss!Client /\ o = TheBoss!Other(c) /\ DOMAIN v6' = TheBoss!Client
      /\ v6[c] \in Seq(TheBoss!Message(c)) /\ v6[o] \in Seq(TheBoss!Message(o))
      /\ t \in Seq(TheBoss!Message(o)) /\ v6'[o] = v6[o] \o t
      /\ take => v6[c] # << >> /\ v6'[c] = Tail(v6[c])
      /\ ~take => v6'[c] = v6[c]
  BY BossClients DEF TheBoss!Typed, BossPasses
<1>2. /\ v6'[o] \in Seq(TheBoss!Message(o))
      /\ \A i \in DOMAIN v6[o] : i \in DOMAIN v6'[o] /\ v6'[o][i] = v6[o][i]
      /\ \A i \in DOMAIN v6'[o] : \/ i \in DOMAIN v6[o] /\ v6'[o][i] = v6[o][i]
                                  \/ \E j \in DOMAIN t : v6'[o][i] = t[j] /\ i = Len(v6[o]) + j
      /\ \A j \in DOMAIN t : Len(v6[o]) + j \in DOMAIN v6'[o] /\ v6'[o][Len(v6[o]) + j] = t[j]
  BY SMTT(60), <1>1, QueueGrows
<1>3. /\ v6'[c] \in Seq(TheBoss!Message(c))
      /\ \A i \in DOMAIN v6'[c] : \E j \in DOMAIN v6[c] : v6'[c][i] = v6[c][j] /\ i <= j
      /\ \A j \in DOMAIN v6[c] : \/ take /\ j = 1
                                 \/ \E i \in DOMAIN v6'[c] : v6'[c][i] = v6[c][j]
  <2>1. CASE ~take
    BY <1>1, <2>1
  <2>2. CASE take
    <3> DEFINE q == v6[c]
               u == v6'[c]
               n == Len(q)
    <3>1. /\ u \in Seq(TheBoss!Message(c)) /\ n \in Nat \ {0} /\ DOMAIN q = 1 .. n /\ DOMAIN u = 1 .. n - 1
          /\ \A i \in 1 .. n - 1 : u[i] = q[i + 1]
      BY <1>1, <2>2, QueueTails
    <3> HIDE DEF q, u, n
    <3>2. \A i \in 1 .. n - 1 : i + 1 \in 1 .. n /\ i <= i + 1
      BY <3>1
    <3>3. \A j \in 1 .. n : j = 1 \/ (j - 1 \in 1 .. n - 1 /\ (j - 1) + 1 = j)
      BY <3>1
    <3>4. \A i \in DOMAIN u : \E j \in DOMAIN q : u[i] = q[j] /\ i <= j
      BY <3>1, <3>2
    <3>5. \A j \in DOMAIN q : j = 1 \/ \E i \in DOMAIN u : u[i] = q[j]
      <4> SUFFICES ASSUME NEW j \in 1 .. n, j # 1
                   PROVE  \E i \in DOMAIN u : u[i] = q[j]
        BY <3>1
      <4>1. j - 1 \in DOMAIN u /\ u[j - 1] = q[(j - 1) + 1] /\ (j - 1) + 1 = j
        BY <3>1, <3>3
      <4> QED BY <4>1
    <3> QED BY <2>2, <3>1, <3>4, <3>5 DEF u, q
  <2> QED BY <1>1, <2>1, <2>2 DEF BossPasses
<1> QED BY <1>1, <1>2, <1>3

LEMMA BossStaysDying ==
    ASSUME TheBoss!Typed, TheBoss!Dying, NEW c \in TheBoss!Client, NEW t, NEW take,
           BossPasses(c, t, take), BossDies(c, t, take)
    PROVE  TheBoss!Dying'
<1> DEFINE o == TheBoss!Other(c)
<1>1. /\ o \in TheBoss!Client /\ TheBoss!Other(o) = c /\ o # c /\ \A d \in TheBoss!Client : d = c \/ d = o
      /\ TheBoss!Other(c) = o
  BY BossClients
<1> HIDE DEF o
<1>2. /\ \A i \in DOMAIN v6[o] : i \in DOMAIN v6'[o] /\ v6'[o][i] = v6[o][i]
      /\ \A i \in DOMAIN v6'[o] : \/ i \in DOMAIN v6[o] /\ v6'[o][i] = v6[o][i]
                                  \/ \E j \in DOMAIN t : v6'[o][i] = t[j] /\ i = Len(v6[o]) + j
      /\ \A j \in DOMAIN t : Len(v6[o]) + j \in DOMAIN v6'[o] /\ v6'[o][Len(v6[o]) + j] = t[j]
      /\ \A i \in DOMAIN v6'[c] : \E j \in DOMAIN v6[c] : v6'[c][i] = v6[c][j] /\ i <= j
      /\ \A j \in DOMAIN v6[c] : \/ take /\ j = 1
                                 \/ \E i \in DOMAIN v6'[c] : v6'[c][i] = v6[c][j]
  BY <1>1, BossQueues
<1>3. /\ v3'[o] = v3[o] /\ (v3[c] => v3'[c])
      /\ v3'[c] => v3[c] \/ (\E j \in DOMAIN t : t[j][1] = "die") \/ (take /\ v6[c][1][1] = "die")
      /\ (\E j \in DOMAIN t : t[j][1] = "die") => v3'[c]
      /\ take /\ v6[c][1][1] = "die" => v3'[c]
  BY <1>1 DEF BossDies
<1>4. /\ v3[c] => v3[o] \/ \E i \in DOMAIN v6[o] : v6[o][i][1] = "die"
      /\ v3[o] => v3[c] \/ \E i \in DOMAIN v6[c] : v6[c][i][1] = "die"
      /\ \A i \in DOMAIN v6[c] : v6[c][i][1] = "die" => v3[o]
      /\ \A i \in DOMAIN v6[o] : v6[o][i][1] = "die" => v3[c]
  BY <1>1 DEF TheBoss!Dying
<1>5. v3'[c] => v3'[o] \/ \E i \in DOMAIN v6'[o] : v6'[o][i][1] = "die"
  BY <1>2, <1>3, <1>4 DEF BossPasses, TheBoss!Typed
<1>6. v3'[o] => v3'[c] \/ \E i \in DOMAIN v6'[c] : v6'[c][i][1] = "die"
  <2> SUFFICES ASSUME v3[o], ~v3[c]
               PROVE  v3'[c] \/ \E i \in DOMAIN v6'[c] : v6'[c][i][1] = "die"
    BY <1>3
  <2>1. PICK j \in DOMAIN v6[c] : v6[c][j][1] = "die"
    BY <1>4
  <2>2. CASE take /\ j = 1
    BY <1>3, <2>1, <2>2
  <2>3. CASE \E i \in DOMAIN v6'[c] : v6'[c][i] = v6[c][j]
    BY <2>1, <2>3
  <2> QED BY <1>2, <2>2, <2>3
<1>7. \A i \in DOMAIN v6'[c] : v6'[c][i][1] = "die" => v3'[o]
  BY <1>2, <1>3, <1>4
<1>8. \A i \in DOMAIN v6'[o] : v6'[o][i][1] = "die" => v3'[c]
  <2> SUFFICES ASSUME NEW i \in DOMAIN v6'[o], v6'[o][i][1] = "die"
               PROVE  v3'[c]
    OBVIOUS
  <2>1. CASE i \in DOMAIN v6[o] /\ v6'[o][i] = v6[o][i]
    BY <1>3, <1>4, <2>1
  <2>2. CASE \E j \in DOMAIN t : v6'[o][i] = t[j]
    BY <1>3, <2>2
  <2> QED BY <1>2, <2>1, <2>2
<1> SUFFICES ASSUME NEW d \in TheBoss!Client
             PROVE  /\ v3'[d] => v3'[TheBoss!Other(d)] \/ \E i \in DOMAIN v6'[TheBoss!Other(d)] : v6'[TheBoss!Other(d)][i][1] = "die"
                    /\ \A i \in DOMAIN v6'[d] : v6'[d][i][1] = "die" => v3'[TheBoss!Other(d)]
  BY DEF TheBoss!Dying, TheBoss!Client, TheBoss!Other
<1>9. CASE d = c
  BY <1>1, <1>5, <1>7, <1>9
<1>10. CASE d = o
  BY <1>1, <1>6, <1>8, <1>10
<1> QED BY <1>1, <1>9, <1>10

LEMMA BossStaysCounted ==
    ASSUME TheBoss!Typed, TheBoss!Counted, NEW c \in TheBoss!Client, NEW t, NEW take,
           BossPasses(c, t, take), BossDies(c, t, take), BossLoses(c, t, take)
    PROVE  TheBoss!Counted'
<1> DEFINE o == TheBoss!Other(c)
<1>1. /\ o \in TheBoss!Client /\ TheBoss!Other(o) = c /\ o # c /\ \A d \in TheBoss!Client : d = c \/ d = o
      /\ TheBoss!Other(c) = o
  BY BossClients
<1> HIDE DEF o
<1>2. SUFFICES ASSUME \A d \in TheBoss!Client : ~v3'[d]
               PROVE  \E left \in Int : \A d \in TheBoss!Client : TheBoss!Remains(v6'[d], v1'[d], left)
  BY DEF TheBoss!Counted, TheBoss!Remains, TheBoss!Client, TheBoss!Cost
<1>3. \A d \in TheBoss!Client : ~v3[d]
  BY <1>1, <1>2 DEF BossDies
<1>4. PICK left \in Int : TheBoss!Remains(v6[c], v1[c], left) /\ TheBoss!Remains(v6[o], v1[o], left)
  BY <1>1, <1>3 DEF TheBoss!Counted
<1>5. PICK d \in Int : /\ t = << >> => d = 0
                       /\ \A j \in DOMAIN t : TheBoss!Cost(t[j]) = IF j = 1 THEN d ELSE 0
                       /\ v1'[c] = v1[c] - d - (IF take THEN TheBoss!Cost(v6[c][1]) ELSE 0)
  BY <1>2 DEF BossLoses
<1>6. /\ v6[c] \in Seq(TheBoss!Message(c)) /\ v6[o] \in Seq(TheBoss!Message(o))
      /\ v6'[c] \in Seq(TheBoss!Message(c))
      /\ v1[c] \in Int /\ v1[o] \in Int
  BY <1>1, BossQueues DEF TheBoss!Typed
<1>7. /\ t \in Seq(TheBoss!Message(o)) /\ take \in BOOLEAN /\ v6'[o] = v6[o] \o t
      /\ take => v6[c] # << >> /\ v6'[c] = Tail(v6[c])
      /\ ~take => v6'[c] = v6[c]
      /\ v1'[o] = v1[o]
  BY <1>1 DEF BossPasses, BossLoses
<1>8. /\ \A i \in DOMAIN v6[c] : TheBoss!Cost(v6[c][i]) \in Int
      /\ \A i \in DOMAIN v6'[c] : TheBoss!Cost(v6'[c][i]) \in Int
  <2>1. /\ \A i \in DOMAIN v6[c] : v6[c][i] \in TheBoss!Message(c)
        /\ \A i \in DOMAIN v6'[c] : v6'[c][i] \in TheBoss!Message(c)
    BY <1>6
  <2>2. \A m \in TheBoss!Message(c) : TheBoss!Cost(m) \in Int
    <3>1. \A m \in TheBoss!Message(c) : TheBoss!Cost(m) \in Nat
      BY BossMessages
    <3> QED BY <3>1
  <2> QED BY <2>1, <2>2
<1>9. TheBoss!Remains(v6'[o], v1'[o], left - d)
  BY <1>4, <1>5, <1>6, <1>7, BossRemainsMore
<1>10. TheBoss!Remains(v6'[c], v1'[c], left - d)
  <2>1. CASE take
    <3> DEFINE e == TheBoss!Cost(v6[c][1])
    <3>1. e \in Int
      BY <1>6, <1>7, <2>1, <1>8
    <3>2. TheBoss!Remains(Tail(v6[c]), v1[c] - e, left)
      BY <1>4, <1>6, <1>7, <1>8, <2>1, BossRemainsNext
    <3>3. TheBoss!Remains(v6'[c], v1[c] - e, left)
      BY <1>7, <2>1, <3>2
    <3> HIDE DEF e
    <3>4. v1[c] - e \in Int /\ (v1[c] - e) - d = v1[c] - d - e
      BY <1>6, <3>1
    <3>5. TheBoss!Remains(v6'[c], (v1[c] - e) - d, left - d)
      BY <1>6, <1>8, <3>3, <3>4, BossRemainsLess
    <3>6. v1'[c] = v1[c] - d - e
      BY <1>5, <2>1 DEF e
    <3> QED BY <3>4, <3>5, <3>6
  <2>2. CASE ~take
    BY <1>4, <1>6, <1>8, BossRemainsLess, <1>5, <2>2, <1>7
  <2> QED BY <1>7, <2>1, <2>2
<1>11. left - d \in Int
  OBVIOUS
<1> QED
  BY <1>1, <1>9, <1>10, <1>11

\* Which way the queues end.
LEMMA BossEndsMore ==
    ASSUME NEW S, NEW s \in Seq(S), NEW t \in Seq(S), NEW now, NEW on, TheBoss!Ends(s, now, on),
           \A j \in DOMAIN t : t[j][1] # "immortal"
    PROVE  TheBoss!Ends(s \o t, now, on)
<1> DEFINE u == s \o t
<1>1. /\ \A i \in DOMAIN s : i \in DOMAIN u /\ u[i] = s[i] /\ i \in Nat
      /\ \A i \in DOMAIN u : \/ i \in DOMAIN s /\ u[i] = s[i]
                             \/ \E j \in DOMAIN t : u[i] = t[j] /\ i = Len(s) + j
  BY QueueGrows
<1> HIDE DEF u
<1>2. \A i \in DOMAIN u : u[i][1] = "immortal" => i \in DOMAIN s /\ u[i] = s[i]
  BY <1>1
<1>3. \A i \in DOMAIN u : u[i][1] = "immortal" => u[i][2] = on \/ \E j \in DOMAIN u : i < j /\ u[j][1] = "immortal"
  <2> SUFFICES ASSUME NEW i \in DOMAIN s, u[i] = s[i], s[i][1] = "immortal", s[i][2] # on
               PROVE  \E j \in DOMAIN u : i < j /\ u[j][1] = "immortal"
    BY <1>2
  <2>1. PICK j \in DOMAIN s : i < j /\ s[j][1] = "immortal"
    BY DEF TheBoss!Ends
  <2> QED BY <1>1, <2>1
<1>4. (\A i \in DOMAIN u : u[i][1] # "immortal") => now = on
  BY <1>1 DEF TheBoss!Ends
<1>5. TheBoss!Ends(u, now, on)
  BY <1>3, <1>4 DEF TheBoss!Ends
<1> QED BY <1>5 DEF u

LEMMA BossEndsNext ==
    ASSUME NEW S, NEW q \in Seq(S), q # << >>, NEW now, NEW then, NEW on, TheBoss!Ends(q, now, on),
           q[1][1] = "immortal" => then = q[1][2],
           q[1][1] # "immortal" => then = now
    PROVE  TheBoss!Ends(Tail(q), then, on)
<1> DEFINE u == Tail(q)
           n == Len(q)
<1>1. /\ n \in Nat \ {0} /\ DOMAIN q = 1 .. n /\ DOMAIN u = 1 .. n - 1 /\ \A i \in 1 .. n - 1 : u[i] = q[i + 1]
  BY QueueTails
<1> HIDE DEF u, n
<1>2. /\ \A i \in 1 .. n - 1 : i + 1 \in 1 .. n
      /\ \A i \in 1 .. n : i = 1 \/ (i - 1 \in 1 .. n - 1 /\ (i - 1) + 1 = i)
      /\ 1 \in 1 .. n
  BY <1>1
<1>3. ASSUME NEW i \in DOMAIN u, u[i][1] = "immortal", u[i][2] # on
      PROVE  \E j \in DOMAIN u : i < j /\ u[j][1] = "immortal"
  <2>1. i \in 1 .. n - 1 /\ u[i] = q[i + 1] /\ i + 1 \in 1 .. n
    BY <1>1, <1>2
  <2>2. PICK j \in 1 .. n : i + 1 < j /\ q[j][1] = "immortal"
    BY <1>1, <1>3, <2>1 DEF TheBoss!Ends
  <2>3. j - 1 \in 1 .. n - 1 /\ (j - 1) + 1 = j /\ i < j - 1
    BY <1>1, <2>1, <2>2
  <2>4. u[j - 1] = q[j]
    BY <1>1, <2>3
  <2> QED BY <1>1, <2>2, <2>3, <2>4
<1>4. ASSUME \A i \in DOMAIN u : u[i][1] # "immortal"
      PROVE  then = on
  <2>1. \A i \in 1 .. n : i # 1 => q[i][1] # "immortal"
    <3> SUFFICES ASSUME NEW i \in 1 .. n, i # 1
                 PROVE  q[i][1] # "immortal"
      OBVIOUS
    <3>1. i - 1 \in 1 .. n - 1 /\ (i - 1) + 1 = i
      BY <1>2
    <3>2. u[i - 1] = q[i] /\ i - 1 \in DOMAIN u
      BY <1>1, <3>1
    <3> QED BY <1>4, <3>2
  <2>2. CASE q[1][1] = "immortal"
    BY <2>1, <1>1, <1>2, <2>2 DEF TheBoss!Ends
  <2>3. CASE q[1][1] # "immortal"
    BY <2>1, <2>3, <1>1 DEF TheBoss!Ends
  <2> QED BY <2>2, <2>3
<1>5. TheBoss!Ends(u, then, on)
  BY <1>3, <1>4 DEF TheBoss!Ends
<1> QED BY <1>5 DEF u

LEMMA BossEndsNew ==
    ASSUME NEW S, NEW s \in Seq(S), NEW t \in Seq(S), NEW now, NEW on, t # << >>, t[Len(t)] = <<"immortal", on>>
    PROVE  TheBoss!Ends(s \o t, now, on)
<1> DEFINE u == s \o t
           k == Len(s)
           m == Len(t)
<1>1. /\ k \in Nat /\ m \in Nat /\ m # 0 /\ DOMAIN u = 1 .. k + m
      /\ \A i \in 1 .. k + m : u[i] = IF i <= k THEN s[i] ELSE t[i - k]
  BY QueueConcats
<1>2. t[m] = <<"immortal", on>>
  OBVIOUS
<1> HIDE DEF u, k, m
<1>3. k + m \in 1 .. k + m /\ ~(k + m <= k) /\ (k + m) - k = m
  BY <1>1
<1>4. u[k + m] = <<"immortal", on>>
  BY <1>1, <1>2, <1>3
<1>5. \A i \in 1 .. k + m : i = k + m \/ i < k + m
  BY <1>1
<1>6. u[k + m][1] = "immortal" /\ u[k + m][2] = on
  BY <1>4
<1>7. TheBoss!Ends(u, now, on)
  BY <1>1, <1>3, <1>5, <1>6 DEF TheBoss!Ends
<1> QED BY <1>7 DEF u

\* While no two calls about the immortality cross, the last of them settles it.
LEMMA BossStaysSettling ==
    ASSUME TheBoss!Typed, TheBoss!Settling, NEW c \in TheBoss!Client, NEW t, NEW take,
           BossPasses(c, t, take), BossTurns(c, t, take), v8' = (v8 \/ TheBoss!Crossing')
    PROVE  TheBoss!Settling'
<1> DEFINE o == TheBoss!Other(c)
<1>1. /\ o \in TheBoss!Client /\ TheBoss!Other(o) = c /\ o # c /\ \A d \in TheBoss!Client : d = c \/ d = o
      /\ TheBoss!Other(c) = o /\ (c = 0 \/ (c = 1 /\ o = 0)) /\ (c = 0 => o = 1)
      /\ TheBoss!Other(0) = 1 /\ TheBoss!Other(1) = 0 /\ TheBoss!Master = 0
  BY BossClients
<1> HIDE DEF o
<1>2. SUFFICES ASSUME ~v8'
               PROVE  \E on \in BOOLEAN : TheBoss!Ends(v6'[c], v2'[c], on) /\ TheBoss!Ends(v6'[o], v2'[o], on)
  <2>1. ~v8' => ~TheBoss!Crossing'
    OBVIOUS
  <2> SUFFICES ASSUME NEW on \in BOOLEAN, TheBoss!Ends(v6'[c], v2'[c], on), TheBoss!Ends(v6'[o], v2'[o], on),
                      NEW d \in TheBoss!Client
               PROVE  TheBoss!Ends(v6'[d], v2'[d], on)
    BY <2>1 DEF TheBoss!Settling, TheBoss!Ends, TheBoss!Client
  <2> QED BY <1>1
<1>3. ~TheBoss!Crossing' /\ ~v8
  BY <1>2
<1>4. PICK on \in BOOLEAN : TheBoss!Ends(v6[c], v2[c], on) /\ TheBoss!Ends(v6[o], v2[o], on)
  BY <1>1, <1>3 DEF TheBoss!Settling
<1>5. /\ v6[c] \in Seq(TheBoss!Message(c)) /\ v6[o] \in Seq(TheBoss!Message(o))
      /\ v6'[c] \in Seq(TheBoss!Message(c))
      /\ \A j \in DOMAIN t : Len(v6[o]) + j \in DOMAIN v6'[o] /\ v6'[o][Len(v6[o]) + j] = t[j]
  BY <1>1, BossQueues
<1>6. /\ t \in Seq(TheBoss!Message(o)) /\ take \in BOOLEAN /\ v6'[o] = v6[o] \o t
      /\ take => v6[c] # << >> /\ v6'[c] = Tail(v6[c])
      /\ ~take => v6'[c] = v6[c]
      /\ v2' \in [TheBoss!Client -> BOOLEAN] /\ v2'[o] = v2[o]
  BY <1>1 DEF BossPasses, BossTurns
<1>7. CASE /\ \A j \in DOMAIN t : t[j][1] # "immortal"
           /\ take => v6[c][1][1] # "immortal"
           /\ v2'[c] = v2[c]
  BY <1>4, <1>5, <1>6, <1>7, BossEndsMore, BossEndsNext
<1>8. CASE take /\ v6[c][1] = <<"immortal", v2'[c]>> /\ t = << >>
  BY <1>8, <1>4, <1>5, <1>6, BossEndsMore, BossEndsNext
<1>9. CASE /\ t # << >> /\ t[Len(t)] = <<"immortal", v2'[c]>>
           /\ v2'[c] => c = 0
  <2>1. PICK b \in BOOLEAN : b = v2'[c]
    BY <1>6
  <2>2. TheBoss!Ends(v6'[o], v2'[o], b)
    <3>1. t # << >> /\ t[Len(t)] = <<"immortal", b>>
      BY <1>9, <2>1
    <3>2. TheBoss!Ends(v6[o] \o t, v2'[o], b)
      BY <1>5, <1>6, <3>1, BossEndsNew
    <3> QED BY <1>6, <3>2
  <2>3. PICK k \in DOMAIN v6'[o] : v6'[o][k] = <<"immortal", b>>
    <3>1. Len(t) \in DOMAIN t
      BY <1>6, <1>9
    <3> QED BY <1>5, <1>9, <2>1, <3>1
  <2>4. \A i \in DOMAIN v6'[c] : v6'[c][i] \in TheBoss!Message(c)
    BY <1>5
  <2>5. \A m \in TheBoss!Message(c) :
          m[1] = "immortal" => m[2] \in BOOLEAN /\ (c = 0 => m[2] = FALSE) /\ m = <<"immortal", m[2]>>
    BY BossMessages
  <2>6. /\ b => c = 0 /\ o = 1
        /\ <<"immortal", b>>[1] = "immortal" /\ <<"immortal", b>>[2] = b
    BY <1>1, <1>9, <2>1
  <2>7. \A i \in DOMAIN v6'[c] : v6'[c][i][1] = "immortal" => v6'[c][i][2] = b
    <3> SUFFICES ASSUME NEW i \in DOMAIN v6'[c], v6'[c][i][1] = "immortal", v6'[c][i][2] # b
                 PROVE  FALSE
      OBVIOUS
    <3>1. v6'[c][i][2] \in BOOLEAN /\ (c = 0 => v6'[c][i][2] = FALSE) /\ v6'[c][i] = <<"immortal", v6'[c][i][2]>>
      BY <2>4, <2>5
    <3>2. ~(\E j \in DOMAIN v6'[1] : v6'[1][j] = <<"immortal", TRUE>>) \/ ~TheBoss!Ending(v6'[0])
      BY <1>1, <1>3 DEF TheBoss!Crossing, TheBoss!Ending
    <3>3. CASE b
      BY <2>1, <2>6, <3>1, <3>3, <2>3, <3>2 DEF TheBoss!Ending
    <3>4. CASE ~b
      BY <2>1, <3>1, <3>4, <1>1, <2>3, <2>6, <3>2 DEF TheBoss!Ending
    <3> QED BY <3>3, <3>4
  <2>8. TheBoss!Ends(v6'[c], b, b)
    BY <2>7 DEF TheBoss!Ends
  <2> QED BY <2>1, <2>2, <2>8
<1> QED BY <1>7, <1>8, <1>9 DEF BossTurns

BossActs(c) ==
    \E t \in Seq(TheBoss!Message(TheBoss!Other(c))), take \in BOOLEAN :
        BossPasses(c, t, take) /\ BossDies(c, t, take) /\ BossLoses(c, t, take) /\ BossTurns(c, t, take)

\* Calls that are sent.
LEMMA BossTells ==
    ASSUME TheBoss!Typed, NEW c \in TheBoss!Client, NEW t \in Seq(TheBoss!Message(TheBoss!Other(c))),
           TheBoss!Tell(c, t)
    PROVE  BossPasses(c, t, FALSE)
BY BossClients DEF TheBoss!Typed, TheBoss!Tell, BossPasses

LEMMA BossTakes ==
    ASSUME TheBoss!Typed, NEW c \in TheBoss!Client, NEW t \in Seq(TheBoss!Message(TheBoss!Other(c))),
           v6[c] # << >>, TheBoss!Take(c, t)
    PROVE  BossPasses(c, t, TRUE)
BY BossClients DEF TheBoss!Typed, TheBoss!Take, BossPasses

LEMMA BossHurts ==
    ASSUME NEW n \in Nat, NEW d \in Nat \ {0}
    PROVE  /\ TheBoss!Hurt(n, d) \in Nat
           /\ TheBoss!Hurt(n, d) # 0 => TheBoss!Hurt(n, d) = n - d
BY DEF TheBoss!Hurt

\* Damage of the boss on client c, and what is told of it.
LEMMA BossDamaged ==
    ASSUME TheBoss!Typed, NEW c \in TheBoss!Client, NEW d \in Damages, ~v3[c], TheBoss!Damaged(c, d)
    PROVE  /\ v1' \in [TheBoss!Client -> Nat] /\ v1'[TheBoss!Other(c)] = v1[TheBoss!Other(c)]
           /\ v3' \in [TheBoss!Client -> BOOLEAN] /\ v3'[TheBoss!Other(c)] = v3[TheBoss!Other(c)]
           /\ v3'[c] => TheBoss!Death(c, d) = <<<<"die">>>>
           /\ ~v3'[c] => TheBoss!Death(c, d) = << >> /\ v1'[c] = v1[c] - d
<1>1. /\ v1 \in [TheBoss!Client -> Nat] /\ v3 \in [TheBoss!Client -> BOOLEAN] /\ v1[c] \in Nat
      /\ d \in Nat \ {0} /\ TheBoss!Other(c) \in TheBoss!Client /\ TheBoss!Other(c) # c
  BY BossClients DEF TheBoss!Typed
<1> DEFINE n == TheBoss!Hurt(v1[c], d)
<1>2. n \in Nat /\ (n # 0 => n = v1[c] - d)
  BY <1>1, BossHurts
<1>3. v1' = [v1 EXCEPT ![c] = n] /\ v3' = [v3 EXCEPT ![c] = v3[c] \/ n = 0]
  BY DEF TheBoss!Damaged
<1>4. TheBoss!Death(c, d) = IF n = 0 THEN <<<<"die">>>> ELSE << >>
  BY DEF TheBoss!Death
<1> HIDE DEF n
<1>5. v1'[c] = n /\ v1' \in [TheBoss!Client -> Nat] /\ v1'[TheBoss!Other(c)] = v1[TheBoss!Other(c)]
  BY <1>1, <1>2, <1>3
<1>6. v3'[c] = (n = 0) /\ v3' \in [TheBoss!Client -> BOOLEAN] /\ v3'[TheBoss!Other(c)] = v3[TheBoss!Other(c)]
  BY <1>3, <1>1
<1> QED BY <1>2, <1>4, <1>5, <1>6

LEMMA BossTakeDamage ==
    ASSUME TheBoss!Typed, NEW c \in TheBoss!Client, TheBoss!TakeDamage(c)
    PROVE  BossActs(c)
<1> DEFINE o == TheBoss!Other(c)
           S == TheBoss!Message(o)
<1>1. /\ o \in TheBoss!Client /\ o # c /\ c \in {0, 1} /\ TheBoss!Master = 0 /\ (c = 0 => o # 0)
      /\ v1 \in [TheBoss!Client -> Nat] /\ v2 \in [TheBoss!Client -> BOOLEAN] /\ v3 \in [TheBoss!Client -> BOOLEAN]
      /\ v1[c] \in Nat /\ ~v3[c] /\ o = TheBoss!Other(c) /\ S = TheBoss!Message(o)
  BY BossClients DEF TheBoss!Typed, TheBoss!TakeDamage
<1>2. PICK on \in BOOLEAN :
        /\ on => c = 0
        /\ v2' = IF on THEN [v2 EXCEPT ![c] = TRUE] ELSE v2
        /\ IF v2'[c] THEN TheBoss!Tell(c, IF on THEN <<<<"immortal", TRUE>>>> ELSE << >>) /\ UNCHANGED <<v1, v3>>
           ELSE \E d \in Damages :
                   TheBoss!Damaged(c, d) /\ TheBoss!Tell(c, TheBoss!Death(c, d) \o <<<<"hit", d>>>>)
  <2> DEFINE passed == {th \in v4 : c = TheBoss!Master /\ TheBoss!Below(v1[c], th)}
  <2>1. /\ v2' = IF passed # {} THEN [v2 EXCEPT ![c] = TRUE] ELSE v2
        /\ IF v2'[c] THEN TheBoss!Tell(c, IF passed # {} THEN <<<<"immortal", TRUE>>>> ELSE << >>) /\ UNCHANGED <<v1, v3>>
           ELSE \E d \in Damages :
                   TheBoss!Damaged(c, d) /\ TheBoss!Tell(c, TheBoss!Death(c, d) \o <<<<"hit", d>>>>)
    BY DEF TheBoss!TakeDamage
  <2>2. passed # {} => c = 0
    BY <1>1
  <2>3. (passed # {}) \in BOOLEAN
    OBVIOUS
  <2> HIDE DEF passed
  <2> QED BY <2>1, <2>2, <2>3
<1> HIDE DEF o, S
<1>3. v2' \in [TheBoss!Client -> BOOLEAN] /\ v2'[o] = v2[o] /\ (on => v2'[c] = TRUE) /\ (~on => v2'[c] = v2[c])
  BY <1>1, <1>2
<1>4. CASE on
  <2> DEFINE t == <<<<"immortal", TRUE>>>>
  <2>1. <<"immortal", TRUE>> \in S
    BY <1>1, <1>2, <1>4, BossCalls
  <2>2. t \in Seq(S) /\ DOMAIN t = {1} /\ t[1] = <<"immortal", TRUE>> /\ Len(t) = 1 /\ t # << >>
    <3>1. PICK x : x = <<"immortal", TRUE>>
      OBVIOUS
    <3>2. x \in S /\ t = <<x>>
      BY <2>1, <3>1
    <3>3. <<x>> \in Seq(S) /\ DOMAIN <<x>> = {1} /\ <<x>>[1] = x /\ Len(<<x>>) = 1 /\ <<x>> # << >>
      BY <3>2, QueueBlows
    <3> HIDE DEF t
    <3> QED BY <3>1, <3>2, <3>3
  <2>3. TheBoss!Tell(c, t) /\ v1' = v1 /\ v3' = v3
    BY <1>2, <1>3, <1>4
  <2>4. <<"immortal", TRUE>>[1] = "immortal" /\ TheBoss!Cost(<<"immortal", TRUE>>) = 0
    BY BossCalls
  <2> HIDE DEF t
  <2>5. BossPasses(c, t, FALSE)
    BY <1>1, <2>2, <2>3, BossTells
  <2>6. BossDies(c, t, FALSE)
    BY <1>1, <2>2, <2>3, <2>4 DEF BossDies
  <2>7. BossLoses(c, t, FALSE)
    <3>1. v1[c] = v1[c] - 0 - 0
      BY <1>1
    <3>2. \A j \in DOMAIN t : TheBoss!Cost(t[j]) = IF j = 1 THEN 0 ELSE 0
      BY <2>2, <2>4
    <3> QED BY <1>1, <2>2, <2>3, <3>1, <3>2 DEF BossLoses
  <2>8. BossTurns(c, t, FALSE)
    BY <1>3, <1>4, <2>2, <1>1, <1>2 DEF BossTurns
  <2> QED BY <1>1, <2>2, <2>5, <2>6, <2>7, <2>8 DEF BossActs
<1>5. CASE ~on /\ v2'[c]
  <2>1. << >> \in Seq(S) /\ DOMAIN << >> = {}
    OBVIOUS
  <2>2. TheBoss!Tell(c, << >>) /\ v1' = v1 /\ v3' = v3
    BY <1>2, <1>5
  <2>3. BossPasses(c, << >>, FALSE)
    BY <1>1, <2>1, <2>2, BossTells
  <2>4. BossDies(c, << >>, FALSE)
    BY <1>1, <2>1, <2>2 DEF BossDies
  <2>5. BossLoses(c, << >>, FALSE)
    BY <1>1, <2>1, <2>2 DEF BossLoses
  <2>6. BossTurns(c, << >>, FALSE)
    BY <1>1, <1>3, <1>5, <2>1 DEF BossTurns
  <2> QED BY <1>1, <2>1, <2>3, <2>4, <2>5, <2>6 DEF BossActs
<1>6. CASE ~on /\ ~v2'[c]
  <2>1. PICK d \in Damages :
          TheBoss!Damaged(c, d) /\ TheBoss!Tell(c, TheBoss!Death(c, d) \o <<<<"hit", d>>>>)
    BY <1>2, <1>6
  <2>2. PICK t : t = TheBoss!Death(c, d) \o <<<<"hit", d>>>>
    OBVIOUS
  <2>3. /\ v1' \in [TheBoss!Client -> Nat] /\ v1'[o] = v1[o]
        /\ v3' \in [TheBoss!Client -> BOOLEAN] /\ v3'[o] = v3[o]
        /\ v3'[c] => TheBoss!Death(c, d) = <<<<"die">>>>
        /\ ~v3'[c] => TheBoss!Death(c, d) = << >> /\ v1'[c] = v1[c] - d
    BY <1>1, <2>1, BossDamaged
  <2>4. /\ <<"die">> \in S /\ <<"hit", d>> \in S /\ TheBoss!Cost(<<"hit", d>>) = d /\ d \in Int
        /\ <<"die">>[1] = "die" /\ <<"hit", d>>[1] = "hit"
    BY BossClients, <1>1, BossCalls
  <2>5. v3'[c] => t = <<<<"die">>>> \o <<<<"hit", d>>>>
    BY <2>2, <2>3
  <2>6. ~v3'[c] => t = << >> \o <<<<"hit", d>>>>
    BY <2>2, <2>3
  <2>7. PICK x, y : x = <<"die">> /\ y = <<"hit", d>>
    OBVIOUS
  <2>8. v3'[c] => /\ t \in Seq(S) /\ DOMAIN t = {1, 2} /\ t[1] = x /\ t[2] = y
    <3>1. x \in S /\ y \in S
      BY <2>4, <2>7
    <3>2. /\ <<x>> \o <<y>> \in Seq(S) /\ DOMAIN (<<x>> \o <<y>>) = {1, 2}
          /\ (<<x>> \o <<y>>)[1] = x /\ (<<x>> \o <<y>>)[2] = y
      BY <3>1, QueueBlows
    <3>3. v3'[c] => t = <<x>> \o <<y>>
      BY <2>5, <2>7
    <3> QED BY <3>2, <3>3
  <2>9. ~v3'[c] => /\ t \in Seq(S) /\ DOMAIN t = {1} /\ t[1] = y /\ t # << >>
    BY <2>4, <2>6, <2>7, QueueBlows
  <2>10. t \in Seq(S) /\ x[1] = "die" /\ y[1] = "hit" /\ TheBoss!Cost(y) = d
    BY <2>4, <2>7, <2>8, <2>9
  <2>11. BossPasses(c, t, FALSE)
    BY <1>1, <2>1, <2>2, <2>10, BossTells
  <2>12. BossDies(c, t, FALSE)
    BY <2>8, <2>9, <2>10, <1>1, <2>3 DEF BossDies
  <2>13. BossLoses(c, t, FALSE)
    BY <1>1, <2>4, <2>3, <2>9, <2>10 DEF BossLoses
  <2>14. BossTurns(c, t, FALSE)
    BY <2>8, <2>9, <2>10, <1>1, <1>3, <1>6 DEF BossTurns
  <2> QED BY <1>1, <2>10, <2>11, <2>12, <2>13, <2>14 DEF BossActs
<1> QED BY <1>4, <1>5, <1>6

LEMMA BossKeepsLife ==
    ASSUME TheBoss!Typed, NEW c \in TheBoss!Client, NEW t, NEW take, v1' = v1, v3' = v3,
           \A j \in DOMAIN t : t[j][1] # "die" /\ TheBoss!Cost(t[j]) = 0,
           take => (v6[c][1][1] = "die" => v3[c]) /\ (TheBoss!Cost(v6[c][1]) = 0 \/ v3[c])
    PROVE  BossDies(c, t, take) /\ BossLoses(c, t, take)
  BY DEF TheBoss!Typed, BossDies, BossLoses

LEMMA BossShocks ==
    ASSUME TheBoss!Typed, NEW c \in TheBoss!Client, NEW e, NEW near \in BOOLEAN, TheBoss!EMPShock(c, e, near)
    PROVE  /\ v2' \in [TheBoss!Client -> BOOLEAN] /\ v2'[TheBoss!Other(c)] = v2[TheBoss!Other(c)]
           /\ near => v2'[c] = FALSE
           /\ ~near => v2'[c] = v2[c]
  BY BossClients DEF TheBoss!Typed, TheBoss!EMPShock

\* The end of the immortality as the last call.
LEMMA BossBreakPulse ==
    ASSUME TheBoss!Typed, NEW c \in TheBoss!Client, NEW e \in Pulse, TheBoss!BreakPulse(c, e)
    PROVE  BossActs(c)
<1> DEFINE o == TheBoss!Other(c)
           S == TheBoss!Message(o)
<1>1. o \in TheBoss!Client /\ o = TheBoss!Other(c) /\ S = TheBoss!Message(o)
  BY BossClients
<1>2. PICK near \in BOOLEAN : /\ TheBoss!EMPShock(c, e, near)
                              /\ TheBoss!Tell(c, <<<<"shock", e>>>> \o TheBoss!ShockCalls(near))
  BY DEF TheBoss!BreakPulse
<1>3. v1' = v1 /\ v3' = v3
  BY DEF TheBoss!BreakPulse
<1> HIDE DEF o, S
<1>4. PICK x, y : x = <<"shock", e>> /\ y = <<"immortal", FALSE>>
  OBVIOUS
<1>5. /\ x \in S /\ y \in S /\ x[1] = "shock" /\ y[1] = "immortal"
      /\ TheBoss!Cost(x) = 0 /\ TheBoss!Cost(y) = 0
  BY <1>1, BossCalls, <1>4
<1>6. /\ v2' \in [TheBoss!Client -> BOOLEAN] /\ v2'[o] = v2[o]
      /\ near => v2'[c] = FALSE
      /\ ~near => v2'[c] = v2[c]
  BY <1>1, <1>2, BossShocks
<1>7. CASE near
  <2>1. PICK t : t = <<x>> \o <<y>>
    OBVIOUS
  <2>2. /\ t \in Seq(S) /\ DOMAIN t = {1, 2} /\ t[1] = x /\ t[2] = y
        /\ Len(t) = 2 /\ t # << >>
    BY <1>5, QueueBlows, <2>1
  <2>3. TheBoss!Tell(c, t)
    BY <1>4, <1>7, <1>2, <2>1 DEF TheBoss!ShockCalls
  <2>4. BossPasses(c, t, FALSE)
    BY <1>1, <2>2, <2>3, BossTells
  <2>5. \A j \in DOMAIN t : t[j][1] # "die" /\ TheBoss!Cost(t[j]) = 0
    BY <1>5, <2>2
  <2>6. BossDies(c, t, FALSE) /\ BossLoses(c, t, FALSE)
    BY <1>3, <2>5, BossKeepsLife
  <2>7. BossTurns(c, t, FALSE)
    BY <1>4, <1>6, <1>7, <2>2, <1>1 DEF BossTurns
  <2> QED BY <1>1, <2>2, <2>4, <2>6, <2>7 DEF BossActs
<1>8. CASE ~near
  <2>1. PICK t : t = <<x>>
    OBVIOUS
  <2>2. t \in Seq(S) /\ DOMAIN t = {1} /\ t[1] = x /\ <<x>> \o << >> = <<x>>
    BY <1>5, <2>1, QueueBlows
  <2>3. TheBoss!Tell(c, t)
    BY <1>8, <1>2, <1>4, <2>1, <2>2 DEF TheBoss!ShockCalls
  <2>4. BossPasses(c, t, FALSE)
    BY <1>1, <2>2, <2>3, BossTells
  <2>5. \A j \in DOMAIN t : t[j][1] # "die" /\ TheBoss!Cost(t[j]) = 0
    BY <1>5, <2>2
  <2>6. BossDies(c, t, FALSE) /\ BossLoses(c, t, FALSE)
    BY <1>3, <2>5, BossKeepsLife
  <2>7. BossTurns(c, t, FALSE)
    BY <1>5, <2>2, <1>1, <1>6, <1>8 DEF BossTurns
  <2> QED BY <1>1, <2>2, <2>4, <2>6, <2>7 DEF BossActs
<1> QED BY <1>7, <1>8

LEMMA BossRecvRPC ==
    ASSUME TheBoss!Typed, NEW c \in TheBoss!Client, TheBoss!RecvRPC(c)
    PROVE  BossActs(c)
<1> DEFINE o == TheBoss!Other(c)
           S == TheBoss!Message(o)
<1>1. /\ o \in TheBoss!Client /\ o # c /\ o = TheBoss!Other(c) /\ S = TheBoss!Message(o)
      /\ v1 \in [TheBoss!Client -> Nat] /\ v2 \in [TheBoss!Client -> BOOLEAN] /\ v3 \in [TheBoss!Client -> BOOLEAN]
      /\ v1[c] \in Nat /\ v6[c] \in Seq(TheBoss!Message(c)) /\ v6[c] # << >>
  BY BossClients DEF TheBoss!Typed, TheBoss!RecvRPC
<1>2. PICK m \in TheBoss!Message(c) : m = v6[c][1] /\ m = Head(v6[c])
  BY <1>1, QueueTails
<1> HIDE DEF o, S
<1>3. /\ m[1] = "hit" => m[2] \in Nat \ {0} /\ m[2] \in Damages
      /\ m[1] = "immortal" => m[2] \in BOOLEAN
      /\ m[1] = "immortal" => m = <<"immortal", m[2]>>
      /\ TheBoss!Cost(m) = IF m[1] = "hit" THEN m[2] ELSE 0
  BY BossMessages DEF TheBoss!Cost
<1>4. << >> \in Seq(S) /\ DOMAIN << >> = {}
  OBVIOUS
<1>5. ASSUME TheBoss!Take(c, << >>)
      PROVE  BossPasses(c, << >>, TRUE)
  BY <1>1, <1>4, <1>5, BossTakes
<1>6. ASSUME m[1] = "hit", TheBoss!RPCTakeDamageToOtherClient(c, m[2]), v2' = v2
      PROVE  BossActs(c)
  <2>1. CASE v3[c]
    BY <1>6, <2>1, <1>4, BossKeepsLife, <1>1, <1>2, <1>5 DEF TheBoss!RPCTakeDamageToOtherClient, BossTurns, BossActs
  <2>2. CASE ~v3[c]
    <3>1. PICK d \in Damages : d = m[2]
      BY <1>3, <1>6
    <3>2. PICK t : t = TheBoss!Death(c, d)
      OBVIOUS
    <3>3. TheBoss!Damaged(c, d) /\ TheBoss!Take(c, t)
      BY <1>6, <2>2, <3>1, <3>2 DEF TheBoss!RPCTakeDamageToOtherClient
    <3>4. /\ v1' \in [TheBoss!Client -> Nat] /\ v1'[o] = v1[o]
          /\ v3' \in [TheBoss!Client -> BOOLEAN] /\ v3'[o] = v3[o]
          /\ v3'[c] => t = <<<<"die">>>>
          /\ ~v3'[c] => t = << >> /\ v1'[c] = v1[c] - d
      BY <1>1, <2>2, <3>2, <3>3, BossDamaged
    <3>5. v3'[c] => t \in Seq(S) /\ DOMAIN t = {1} /\ t[1][1] = "die"
      <4>1. PICK x : x = <<"die">>
        OBVIOUS
      <4>2. x \in S /\ x[1] = "die"
        BY <1>1, BossCalls, <4>1
      <4>3. <<x>> \in Seq(S) /\ DOMAIN <<x>> = {1} /\ <<x>>[1] = x
        BY <4>2, QueueBlows
      <4>4. v3'[c] => t = <<x>>
        BY <3>4, <4>1
      <4> QED BY <4>2, <4>3, <4>4
    <3>6. t \in Seq(S) /\ (~v3'[c] => DOMAIN t = {} /\ t = << >>)
      BY <1>4, <3>4, <3>5
    <3>7. BossPasses(c, t, TRUE)
      BY <1>1, <3>3, <3>6, BossTakes
    <3>8. BossDies(c, t, TRUE)
      BY <3>5, <3>6, <1>2, <1>6, <1>1, <2>2, <3>4 DEF BossDies
    <3>9. BossLoses(c, t, TRUE)
      BY BossClients, <1>2, <1>3, <1>6, <3>1, <1>1, <3>4, <3>6 DEF BossLoses
    <3>10. BossTurns(c, t, TRUE)
      BY <3>5, <3>6, <1>2, <1>6, <1>1 DEF BossTurns
    <3> QED BY <1>1, <3>6, <3>7, <3>8, <3>9, <3>10 DEF BossActs
  <2> QED BY <2>1, <2>2
<1>7. ASSUME m[1] = "die", v3' = [v3 EXCEPT ![c] = TRUE], TheBoss!Take(c, << >>), v1' = v1, v2' = v2
      PROVE  BossActs(c)
  BY <1>1, <1>2, <1>4, <1>7, <1>5 DEF BossDies, BossLoses, BossTurns, BossActs
<1>8. ASSUME m[1] = "immortal", v2' = [v2 EXCEPT ![c] = m[2]], TheBoss!Take(c, << >>), v1' = v1, v3' = v3
      PROVE  BossActs(c)
  BY <1>2, <1>3, <1>4, <1>8, BossKeepsLife, <1>1, <1>5 DEF BossTurns, BossActs
<1>9. ASSUME m[1] = "shock", NEW near \in BOOLEAN, TheBoss!EMPShock(c, m[2], near),
             TheBoss!Take(c, TheBoss!ShockCalls(near)), v1' = v1, v3' = v3
      PROVE  BossActs(c)
  <2>1. /\ v2' \in [TheBoss!Client -> BOOLEAN] /\ v2'[o] = v2[o]
        /\ near => v2'[c] = FALSE
        /\ ~near => v2'[c] = v2[c]
    BY <1>1, <1>9, BossShocks
  <2>2. CASE near
    <3>1. PICK y : y = <<"immortal", FALSE>>
      OBVIOUS
    <3>2. y \in S /\ TheBoss!Cost(y) = 0 /\ y[1] = "immortal"
      BY <1>1, BossCalls, <3>1
    <3>3. PICK t : t = <<y>>
      OBVIOUS
    <3>4. t \in Seq(S) /\ DOMAIN t = {1} /\ t[1] = y /\ Len(t) = 1 /\ t # << >>
      BY <3>2, <3>3, QueueBlows
    <3>5. TheBoss!Take(c, t)
      BY <2>2, <3>1, <1>9, <3>3 DEF TheBoss!ShockCalls
    <3>6. BossPasses(c, t, TRUE)
      BY <1>1, <3>4, <3>5, BossTakes
    <3>7. \A j \in DOMAIN t : t[j][1] # "die" /\ TheBoss!Cost(t[j]) = 0
      BY <3>2, <3>4
    <3>8. BossDies(c, t, TRUE) /\ BossLoses(c, t, TRUE)
      BY <1>2, <1>3, <1>9, <3>7, BossKeepsLife
    <3>9. BossTurns(c, t, TRUE)
      BY <2>1, <2>2, <3>1, <3>4, <1>1 DEF BossTurns
    <3> QED BY <1>1, <3>4, <3>6, <3>8, <3>9 DEF BossActs
  <2>3. CASE ~near
    <3>1. TheBoss!Take(c, << >>)
      BY <1>9, <2>3 DEF TheBoss!ShockCalls
    <3>2. BossDies(c, << >>, TRUE) /\ BossLoses(c, << >>, TRUE)
      BY <1>2, <1>3, <1>4, <1>9, BossKeepsLife
    <3>3. BossTurns(c, << >>, TRUE)
      BY <1>1, <1>2, <1>4, <1>9, <2>1, <2>3 DEF BossTurns
    <3> QED BY <1>1, <1>4, <1>5, <3>1, <3>2, <3>3 DEF BossActs
  <2> QED BY <2>2, <2>3
<1>10. ASSUME m[1] = "shock", TheBoss!Take(c, << >>), v1' = v1, v2' = v2, v3' = v3
       PROVE  BossActs(c)
  BY <1>2, <1>3, <1>4, <1>10, BossKeepsLife, <1>1, <1>5 DEF BossTurns, BossActs
<1> QED BY <1>2, <1>6, <1>7, <1>8, <1>9, <1>10 DEF TheBoss!RecvRPC

LEMMA BossInit == TheBoss!Init => TheBoss!BossInv
<1> SUFFICES ASSUME TheBoss!Init
             PROVE  TheBoss!BossInv
  OBVIOUS
<1>1. /\ v1 = [c \in TheBoss!Client |-> BossHp] /\ v2 = [c \in TheBoss!Client |-> FALSE]
      /\ v3 = [c \in TheBoss!Client |-> FALSE] /\ v6 = [c \in TheBoss!Client |-> << >>] /\ v8 = FALSE
  BY DEF TheBoss!Init
<1>2. TheBoss!Typed
  BY <1>1, BossClients DEF TheBoss!Typed
<1>3. \A c \in TheBoss!Client : v6[c] = << >> /\ DOMAIN v6[c] = {} /\ Len(v6[c]) = 0 /\ ~v3[c] /\ v1[c] = BossHp /\ v2[c] = FALSE
  BY <1>1
<1>4. TheBoss!Dying
  BY <1>3, BossClients DEF TheBoss!Dying
<1>5. TheBoss!Counted
  <2>1. TheBoss!Remains(<< >>, BossHp, BossHp)
    <3> DEFINE run == [i \in 0 .. 0 |-> BossHp]
    <3>1. run \in [0 .. 0 -> Int] /\ run[0] = BossHp /\ Len(<< >>) = 0 /\ ~\E i \in 1 .. 0 : TRUE
      BY BossClients
    <3> HIDE DEF run
    <3> QED BY <3>1 DEF TheBoss!Remains
  <2>2. BossHp \in Int
    BY BossClients
  <2> QED BY <1>3, <2>1, <2>2 DEF TheBoss!Counted
<1>6. TheBoss!Settling
  BY <1>3, BossClients DEF TheBoss!Crossing, TheBoss!Ends, TheBoss!Settling
<1> QED BY <1>2, <1>4, <1>5, <1>6 DEF TheBoss!BossInv

LEMMA BossStep == BossInv /\ [Next]_vars => BossInv'
<1> SUFFICES ASSUME BossInv, [Next]_vars, part' = "boss"
             PROVE  TheBoss!BossInv'
  BY DEF BossInv
<1>1. TheBoss!BossInv /\ (TheBoss!Next \/ UNCHANGED vars)
  BY DEF Next, vars, BossInv
<1>2. TheBoss!Typed /\ TheBoss!Dying /\ TheBoss!Counted /\ TheBoss!Settling
  BY <1>1 DEF TheBoss!BossInv
<1>3. CASE TheBoss!Next
  <2>1. v8' = (v8 \/ TheBoss!Crossing') /\ TheBoss!Step
    BY <1>3 DEF TheBoss!Next
  <2>2. PICK c \in TheBoss!Client : BossActs(c)
    BY <1>2, <2>1, BossTakeDamage, BossRecvRPC, BossBreakPulse DEF TheBoss!Step
  <2>3. PICK t \in Seq(TheBoss!Message(TheBoss!Other(c))), take \in BOOLEAN :
          BossPasses(c, t, take) /\ BossDies(c, t, take) /\ BossLoses(c, t, take) /\ BossTurns(c, t, take)
    BY <2>2 DEF BossActs
  <2>4. TheBoss!Typed'
    <3>1. PICK o : o = TheBoss!Other(c)
      OBVIOUS
    <3>2. /\ DOMAIN v6' = TheBoss!Client
          /\ v6'[c] \in Seq(TheBoss!Message(c)) /\ v6'[o] \in Seq(TheBoss!Message(o))
      BY <1>2, <2>3, <3>1, BossQueues
    <3>3. \A d \in TheBoss!Client : v6'[d] \in Seq(TheBoss!Message(d))
      BY <3>1, <3>2, BossClients
    <3>4. v1' \in [TheBoss!Client -> Nat] /\ v2' \in [TheBoss!Client -> BOOLEAN] /\ v3' \in [TheBoss!Client -> BOOLEAN]
      BY <2>3 DEF BossDies, BossLoses, BossTurns
    <3> QED BY <3>2, <3>3, <3>4 DEF TheBoss!Typed, TheBoss!Client, TheBoss!Message, TheBoss!Master
  <2>5. TheBoss!Dying'
    BY <1>2, <2>3, BossStaysDying
  <2>6. TheBoss!Counted'
    BY <1>2, <2>3, BossStaysCounted
  <2>7. TheBoss!Settling'
    BY <1>2, <2>1, <2>3, BossStaysSettling
  <2> QED BY <2>4, <2>5, <2>6, <2>7 DEF TheBoss!BossInv
<1>4. CASE UNCHANGED vars
  <2>1. v1' = v1 /\ v2' = v2 /\ v3' = v3 /\ v6' = v6 /\ v8' = v8
    BY <1>4 DEF vars
  <2>2. TheBoss!Typed'
    BY <1>2, <2>1 DEF TheBoss!Typed, TheBoss!Client, TheBoss!Message, TheBoss!Master
  <2>3. TheBoss!Dying'
    BY <1>2, <2>1 DEF TheBoss!Dying, TheBoss!Client, TheBoss!Other
  <2>4. TheBoss!Counted'
    BY <1>2, <2>1 DEF TheBoss!Counted, TheBoss!Client, TheBoss!Remains, TheBoss!Cost
  <2>5. TheBoss!Settling'
    <3>1. TheBoss!Crossing' <=> TheBoss!Crossing
      BY <2>1 DEF TheBoss!Crossing, TheBoss!Ending, TheBoss!Other, TheBoss!Master
    <3>2. (\E on \in BOOLEAN : \A c \in TheBoss!Client : TheBoss!Ends(v6[c], v2[c], on))'
            <=> \E on \in BOOLEAN : \A c \in TheBoss!Client : TheBoss!Ends(v6[c], v2[c], on)
      BY <2>1 DEF TheBoss!Ends, TheBoss!Client
    <3> QED BY <1>2, <2>1, <3>1, <3>2 DEF TheBoss!Settling
  <2> QED BY <2>2, <2>3, <2>4, <2>5 DEF TheBoss!BossInv
<1> QED
  BY <1>1, <1>3, <1>4

\* When nothing is under way the two clients agree on the boss: whether he lives, what is left
\* of his health, and, unless calls to begin and to end it crossed, whether he can be hurt: for
\* any health, any damages and devices, and any number of hits that reach the other client late
\* (AMilitaryBossAI::TakeDamage, AElectroMagneticPulse::EMPShock).
THEOREM BossAgreesHolds == Spec => []BossAgrees
<1>1. Init => BossInv
  BY BossInit DEF Init, BossInv
<1>2. BossInv => BossAgrees
  <2> SUFFICES ASSUME TheBoss!BossInv, TheBoss!Quiet
               PROVE  /\ v3[0] = v3[1] /\ (v3[0] \/ v1[0] = v1[1])
                      /\ v8 \/ v2[0] = v2[1]
    BY DEF BossInv, BossAgrees, TheBoss!BossAgrees
  <2>1. /\ TheBoss!Client = {0, 1} /\ TheBoss!Other(0) = 1 /\ TheBoss!Other(1) = 0
        /\ \A c \in {0, 1} : v6[c] = << >> /\ DOMAIN v6[c] = {} /\ Len(v6[c]) = 0
        /\ v3[0] \in BOOLEAN /\ v3[1] \in BOOLEAN
    BY BossClients DEF TheBoss!Quiet, TheBoss!BossInv, TheBoss!Typed
  <2>2. v3[0] = v3[1]
    BY <2>1 DEF TheBoss!BossInv, TheBoss!Dying
  <2>3. ASSUME ~v3[0]
        PROVE  v1[0] = v1[1]
    <3>1. PICK left \in Int : TheBoss!Remains(v6[0], v1[0], left) /\ TheBoss!Remains(v6[1], v1[1], left)
      BY <2>1, <2>2, <2>3 DEF TheBoss!BossInv, TheBoss!Counted
    <3>2. \A c \in {0, 1} : TheBoss!Remains(v6[c], v1[c], left) => v1[c] = left
      BY <2>1 DEF TheBoss!Remains
    <3> QED BY <3>1, <3>2
  <2>4. ASSUME ~v8
        PROVE  v2[0] = v2[1]
    <3>1. PICK on \in BOOLEAN : TheBoss!Ends(v6[0], v2[0], on) /\ TheBoss!Ends(v6[1], v2[1], on)
      BY <2>1, <2>4 DEF TheBoss!BossInv, TheBoss!Settling
    <3> QED BY <2>1, <3>1 DEF TheBoss!Ends
  <2> QED BY <2>2, <2>3, <2>4
<1> QED
  BY <1>1, <1>2, BossStep, PTL DEF Spec
=============================================================================
