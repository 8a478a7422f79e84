------------------------------- MODULE Tutorial -------------------------------
(***************************************************************************)
(* The tutorial (Tutorial.cpp).  Each client takes both heroes through     *)
(* their lessons by what it sees: a lesson allows its skill, brings its    *)
(* enemies and is over when none of them is left.  Then both heroes learn  *)
(* together, and the end of it, or a command, skips to the shelter.        *)
(***************************************************************************)
EXTENDS Naturals, Sequences, FiniteSets

CONSTANTS Solo,      \* the lessons of each hero: all of Lessons, or some of them
          Spawns,    \* how many times more enemies come in the last of them
          MaxSkips   \* bound: skips by command

Lessons == <<"dash", "primary", "m2", "first", "second", "ultimate">>
Hero == {"esper", "crusher"}
Client == Hero               \* a client is named by the hero it plays
Other(h) == CHOOSE g \in Hero : g # h

TutorialAssumption ==
    /\ \A h \in Hero : /\ Solo[h] \in Seq({Lessons[i] : i \in 1 .. 6}) /\ Len(Solo[h]) > 2
                       /\ Solo[h][1] = "dash" /\ Solo[h][2] = "primary" /\ Solo[h][Len(Solo[h])] = "ultimate"
                       /\ \A i, j \in 1 .. Len(Solo[h]) : Solo[h][i] = Solo[h][j] => i = j
    /\ \A h \in Hero : Spawns[h] \in Nat
    /\ MaxSkips \in Nat

All == {"move", "turn", "attack"}
AllSkills == {"primary", "m2", "first", "second", "third", "dash", "ultimate"}

VARIABLES
    tuto,     \* tuto[c]: the tutorial on client c (Fresh)
    enemies,  \* enemies[c]: soldiers in the zones, by name and hero
    named,    \* named[c]: the enemies of the cooperation: "no", "alive", "dead"
    hero,     \* hero[h] on its own client: what it can do, its skills, ...
    chan,     \* chan[c]: calls on their way to client c
    skips,
    early     \* somebody skipped in the middle (history)

vars == <<tuto, enemies, named, hero, chan, skips, early>>

\* The flags of a client's tutorial: of each hero the lesson it is at, whether that is due, going on or
\* over (a timer runs), and the spawns left; who has dashed, or has come to the zone of the cooperation;
\* the lesson of the cooperation, and what it has asked for that was done.
Fresh == [begun |-> FALSE, nowOn |-> TRUE, spawned |-> 0,
          lesson |-> [h \in Hero |-> 1], step |-> [h \in Hero |-> "idle"], left |-> [h \in Hero |-> 0],
          dashed |-> {}, coop |-> {}, stage |-> 0, shared |-> "idle", done |-> {}, last |-> FALSE]

\* BeginPlay: nothing is allowed until the tutorial starts.
Init ==
    /\ tuto = [c \in Client |-> Fresh]
    /\ enemies = [c \in Client |-> {}] /\ named = [c \in Client |-> "no"]
    /\ hero = [h \in Hero |-> [can |-> {}, skills |-> {}, immortal |-> FALSE, place |-> "tutorial", full |-> FALSE]]
    /\ chan = [c \in Client |-> << >>] /\ skips = 0 /\ early = FALSE

Send(c, call) == chan' = [chan EXCEPT ![Other(c)] = Append(@, call)]
\* What the tutorial on client c does to hero h counts if h is played there.
Own(c, h, f) == hero' = IF c = h THEN [hero EXCEPT ![h] = f] ELSE hero
Lesson(c, h) == Solo[h][tuto[c].lesson[h]]
\* Names are given in the order of the spawns, on each client.
TutorialSpawner(c, h) ==
    enemies' = [enemies EXCEPT ![c] = @ \cup {[name |-> tuto[c].spawned + 1, zone |-> h]}]
ZoneEmpty(c, h) == \A e \in enemies[c] : e.zone # h
\* What ends a lesson (a missile on the barrier ends the Crusher's first skill).  The last one of the
\* Crusher needs his gauge as well, which rises on his own client alone (HACKED_AI.cpp:404): the other
\* one is told of the end.
Done(c, h) ==
    LET l == Lesson(c, h)
    IN  CASE l = "dash" -> h \in tuto[c].dashed
          [] <<h, l>> = <<"crusher", "first">> -> FALSE
          [] <<h, l>> = <<"crusher", "ultimate">> ->
               c = h /\ hero[h].full /\ tuto[c].left[h] = 0 /\ ZoneEmpty(c, h)
          [] OTHER -> tuto[c].left[h] = 0 /\ ZoneEmpty(c, h)
\* Client c has nothing to do at its next Tick.
Seen(c) ==
    /\ tuto[c].nowOn => \A h \in Hero : tuto[c].step[h] # "due" /\ (tuto[c].step[h] = "on" => ~Done(c, h))
    /\ tuto[c].shared # "due"
\* Calls arrive, and a client sees what has changed, in less than the two seconds of a timer, and
\* timers that start with the same call run out before a player has learnt the next lesson.
Settled == \A c \in Client : chan[c] = << >> /\ Seen(c)
Ready(h) == chan[Other(h)] = << >> /\ Seen(h) /\ \A c \in Client : tuto[c].step[h] # "clear"
-----------------------------------------------------------------------------
\* TutorialStart, and TutorialSequence five seconds later.
TutorialSequence(c) ==
    /\ ~tuto[c].begun /\ tuto[c].nowOn
    /\ tuto' = [tuto EXCEPT ![c].begun = TRUE, ![c].step = [h \in Hero |-> "on"]]
    /\ hero' = [hero EXCEPT ![c].immortal = TRUE, ![c].skills = {"dash"},
                            ![c].can = IF c = "esper" THEN All ELSE {"move", "turn"}]
    /\ UNCHANGED <<enemies, named, chan, skips, early>>

\* The skills a lesson allows.
Allowed(h, l) ==
    IF l = "ultimate" THEN IF h = "esper" THEN AllSkills ELSE AllSkills \ {"ultimate"} ELSE {l, "dash"}

\* EsperPrimaryQuest, ..., CrusherUltimateQuest.  The enemies of the first fight are there already, and
\* the Crusher's first skill is tried on missiles.
Brings(h, l) == l # "primary" /\ <<h, l>> # <<"crusher", "first">>
Quest(c, h) ==
    /\ tuto[c].nowOn /\ tuto[c].step[h] = "due"
    /\ LET l == Lesson(c, h)
       IN  /\ tuto' = [tuto EXCEPT ![c].step[h] = "on",
                                   ![c].left[h] = IF l = "ultimate" THEN Spawns[h] ELSE @,
                                   ![c].spawned = IF Brings(h, l) THEN @ + 1 ELSE @]
           /\ IF Brings(h, l) THEN TutorialSpawner(c, h) ELSE UNCHANGED enemies
           /\ Own(c, h, [hero[h] EXCEPT !.skills = Allowed(h, l),
                                        !.can = IF h = "crusher" /\ l = "primary" THEN All ELSE @])
    /\ UNCHANGED <<named, chan, skips, early>>

\* The lesson has been learnt: its end is two seconds away (four for the last).
Learnt(c, h) ==
    /\ tuto[c].nowOn /\ tuto[c].step[h] = "on"
    /\ Done(c, h)
    /\ Own(c, h, IF Lesson(c, h) = "ultimate" THEN [hero[h] EXCEPT !.can = {}] ELSE hero[h])
    /\ tuto' = [tuto EXCEPT ![c].step[h] = "clear"]
    /\ UNCHANGED <<enemies, named, chan, skips, early>>

\* EsperDashQuestClear, ..., CrusherSecondQuestClear
\* Mutant: the next lesson is not begun (_bEsperStartOnce stays false).
QuestClear_NotDue(t, h) == [t EXCEPT !.lesson[h] = @ + 1, !.step[h] = "on"]
QuestClear(t, h) == [t EXCEPT !.lesson[h] = @ + 1, !.step[h] = "due"]

SpawnTimer(c, h) ==
    /\ Settled /\ tuto[c].left[h] > 0 /\ Lesson(c, h) = "ultimate"
    /\ TutorialSpawner(c, h)
    /\ tuto' = [tuto EXCEPT ![c].left[h] = @ - 1, ![c].spawned = @ + 1]
    /\ UNCHANGED <<named, hero, chan, skips, early>>

\* EsperUltimateSkillQuestClear, CrusherUltimateQuestClear: into the zone of the cooperation.
EndSolo(c, h, t) ==
    /\ tuto' = [tuto EXCEPT ![c] = [t EXCEPT !.coop = t.coop \cup {h}]]
    /\ Own(c, h, [hero[h] EXCEPT !.place = "cooperation", !.can = All])

ClearTimer(c, h) ==
    /\ Settled /\ tuto[c].step[h] = "clear"
    /\ LET l == Lesson(c, h)
           t == [tuto[c] EXCEPT !.spawned = IF l = "dash" THEN @ + 1 ELSE @]
       IN  IF l = "ultimate"
           THEN /\ EndSolo(c, h, [tuto[c] EXCEPT !.step[h] = "idle"])
                /\ Send(c, <<"end", h>>) /\ UNCHANGED enemies
           ELSE /\ tuto' = [tuto EXCEPT ![c] = QuestClear(t, h)]
                /\ IF l = "dash" THEN TutorialSpawner(c, h) ELSE UNCHANGED enemies
                /\ UNCHANGED <<hero, chan>>
    /\ UNCHANGED <<named, skips, early>>

\* The Esper's gauge is full after the last spawn: only her ultimate, and the dash.
GaugeFull ==
    /\ tuto["esper"].nowOn /\ tuto["esper"].step["esper"] = "on" /\ Lesson("esper", "esper") = "ultimate"
    /\ tuto["esper"].left["esper"] = 0 /\ ~tuto["esper"].last /\ hero["esper"].full
    /\ tuto' = [tuto EXCEPT !["esper"].last = TRUE]
    /\ hero' = [hero EXCEPT !["esper"].skills = {"dash", "ultimate"}]
    /\ UNCHANGED <<enemies, named, chan, skips, early>>
-----------------------------------------------------------------------------
(* The cooperation.  Its lessons: the Crusher's ultimate, a fight, the Esper's shield, the Crusher's. *)
Asked == <<"surge", "fight", "shield", "vital">>

\* The lesson begins: CooperationFirstQuest (by a timer), ..., CooperationFinalQuest.
CoopSkills(h, stage) ==
    CASE stage = 1 -> AllSkills
      [] stage = 2 -> hero[h].skills
      [] stage = 3 -> IF h = "esper" THEN {"third"} ELSE {}
      [] stage = 4 -> IF h = "esper" THEN hero[h].skills ELSE {"third"}

CooperationQuest(c) ==
    LET stage == IF tuto[c].stage = 0 THEN 1 ELSE tuto[c].stage
    IN  /\ tuto[c].coop = Hero /\ stage < 5
        /\ IF tuto[c].stage = 0 THEN tuto[c].shared = "idle" ELSE tuto[c].shared = "due"
        /\ tuto' = [tuto EXCEPT ![c].stage = stage, ![c].shared = "on"]
        /\ hero' = [hero EXCEPT ![c].skills = CoopSkills(c, stage),
                                ![c].immortal = IF stage = 2 THEN FALSE ELSE @]
        /\ named' = IF stage = 2 THEN [named EXCEPT ![c] = "alive"] ELSE named
        /\ UNCHANGED <<enemies, chan, skips, early>>

CooperationLearnt(c) ==
    /\ tuto[c].shared = "on"
    /\ IF tuto[c].stage = 2 THEN named[c] = "dead" ELSE Asked[tuto[c].stage] \in tuto[c].done
    /\ tuto' = [tuto EXCEPT ![c].shared = "clear"]
    /\ UNCHANGED <<enemies, named, hero, chan, skips, early>>

\* CooperationFirstQuestClear, ..., CooperationThirdQuestClear
CooperationQuestClear(c) ==
    /\ Settled /\ tuto[c].shared = "clear" /\ tuto[c].stage < 4
    /\ tuto' = [tuto EXCEPT ![c].stage = @ + 1, ![c].shared = "due"]
    /\ UNCHANGED <<enemies, named, hero, chan, skips, early>>

\* Mutant: the skills stay as the lesson left them.
TutorialSkip_KeepsSkills(h) == [h EXCEPT !.can = All, !.immortal = FALSE, !.place = "shelter", !.full = FALSE]
TutorialSkip(h) ==
    [h EXCEPT !.can = All, !.skills = AllSkills, !.immortal = FALSE, !.place = "shelter", !.full = FALSE]

\* A skip before the start or at the end, with no timer of the lessons running.
Clean(c) ==
    /\ ~tuto[c].begun \/ tuto[c].stage = 5 \/ (tuto[c].stage = 4 /\ tuto[c].shared = "clear")
    /\ \A d \in Client, h \in Hero : tuto[d].step[h] # "clear"
Skipped(c, t) ==
    /\ tuto' = [tuto EXCEPT ![c] = [t EXCEPT !.nowOn = FALSE]]
    /\ hero' = [hero EXCEPT ![c] = TutorialSkip(@)]
    /\ early' = (early \/ ~Clean(c))

\* CooperationFinalQuestClear and ShelterSequence: twelve seconds after the last lesson, by which time
\* the shorter timers have run out.
CooperationEnd(c) ==
    /\ Settled /\ tuto[c].shared = "clear" /\ tuto[c].stage = 4
    /\ \A h \in Hero : tuto[c].step[h] # "clear"
    /\ Skipped(c, [tuto[c] EXCEPT !.stage = 5, !.shared = "idle"])
    /\ Send(c, <<"skip", c>>)
    /\ UNCHANGED <<enemies, named, skips>>

\* The command of the game mode, or bTutorialSkip, before the lessons.  (In the middle of them it leaves
\* timers running that move a hero back to the zone or take its skills, :700, :834, :936.)
Command(c) ==
    /\ Clean(c) /\ skips < MaxSkips /\ skips' = skips + 1
    /\ Skipped(c, tuto[c]) /\ Send(c, <<"skip", c>>)
    /\ UNCHANGED <<enemies, named>>
-----------------------------------------------------------------------------
(* What the players do; the call tells the other client. *)
Has(h, s) == s \in hero[h].skills
CanFight(h) == "attack" \in hero[h].can /\ hero[h].skills \cap {"primary", "m2", "first", "second"} # {}
CanUltimate(h) == "attack" \in hero[h].can /\ Has(h, "ultimate") /\ hero[h].full

\* Three dashes
CanDash(h) == Has(h, "dash") /\ "move" \in hero[h].can
Dash(h) ==
    /\ Ready(h) /\ CanDash(h) /\ tuto[h].nowOn /\ h \notin tuto[h].dashed
    /\ tuto' = [tuto EXCEPT ![h].dashed = @ \cup {h}]
    /\ Send(h, <<"dash", h>>)
    /\ UNCHANGED <<enemies, named, hero, skips, early>>

\* An enemy of its zone falls.  That may fill the gauge, the Crusher's in his last lesson only
\* (bCanTutoUltimate, HACKED_AI.cpp:520).
Kill(h) ==
    /\ Ready(h)
    /\ CanFight(h) \/ (h = "esper" /\ CanUltimate(h))
    /\ \E e \in {x \in enemies[h] : x.zone = h} :
           /\ enemies' = [enemies EXCEPT ![h] = @ \ {e}]
           /\ Send(h, <<"kill", e.name>>)
    /\ \E f \in {hero[h].full, h = "esper" \/ Lesson(h, h) = "ultimate" \/ hero[h].full} :
           hero' = [hero EXCEPT ![h].full = f /\ CanFight(h)]
    /\ UNCHANGED <<tuto, named, skips, early>>

\* A missile of a client meets the Crusher's barrier there; the timer of the missiles sees it.
Blocked(t) ==
    IF t.step["crusher"] = "on" /\ Solo["crusher"][t.lesson["crusher"]] = "first" THEN QuestClear(t, "crusher") ELSE t
CanBlock == Has("crusher", "first") /\ "attack" \in hero["crusher"].can
Block ==
    /\ Ready("crusher") /\ CanBlock /\ tuto["crusher"].step["crusher"] = "on" /\ Lesson("crusher", "crusher") = "first"
    /\ tuto' = [tuto EXCEPT !["crusher"] = Blocked(@)]
    /\ Send("crusher", <<"barrier", "crusher">>)
    /\ UNCHANGED <<enemies, named, hero, skips, early>>

Do(h, what) ==
    /\ Ready(h)
    /\ tuto' = [tuto EXCEPT ![h].done = @ \cup {what}]
    /\ Send(h, <<what, h>>)

\* The Crusher's ultimate and shield count from his coming to the zone; an Esper's shield from before
\* its lesson has run out.
CanSurge == CanUltimate("crusher") /\ "crusher" \in tuto["crusher"].coop
CanShield(h) == Has(h, "third") /\ "attack" \in hero[h].can
Surge ==
    /\ CanSurge /\ Do("crusher", "surge")
    /\ hero' = [hero EXCEPT !["crusher"].full = FALSE] /\ UNCHANGED <<enemies, named, skips, early>>
Vital ==
    /\ CanShield("crusher") /\ "crusher" \in tuto["crusher"].coop /\ "vital" \notin tuto["crusher"].done
    /\ Do("crusher", "vital") /\ UNCHANGED <<enemies, named, hero, skips, early>>
Shield ==
    /\ CanShield("esper") /\ tuto["esper"].stage > 2 /\ "shield" \notin tuto["esper"].done
    /\ Do("esper", "shield") /\ UNCHANGED <<enemies, named, hero, skips, early>>

KillNamed(h) ==
    /\ Ready(h) /\ named[h] = "alive" /\ CanFight(h)
    /\ named' = [named EXCEPT ![h] = "dead"]
    /\ Send(h, <<"named", h>>)
    /\ UNCHANGED <<tuto, enemies, hero, skips, early>>

\* A call arrives.
Recv(c) ==
    /\ chan[c] # << >>
    /\ chan' = [chan EXCEPT ![c] = Tail(@)]
    /\ LET what == Head(chan[c])[1]  arg == Head(chan[c])[2]
       IN  CASE what = "end" -> EndSolo(c, arg, tuto[c]) /\ UNCHANGED <<enemies, named, early>>
             [] what = "skip" -> Skipped(c, tuto[c]) /\ UNCHANGED <<enemies, named>>
             [] what = "kill" ->
                  /\ enemies' = [enemies EXCEPT ![c] = {e \in @ : e.name # arg}]
                  /\ UNCHANGED <<tuto, named, hero, early>>
             [] what = "named" ->
                  /\ named' = [named EXCEPT ![c] = IF @ = "alive" THEN "dead" ELSE @]
                  /\ UNCHANGED <<tuto, enemies, hero, early>>
             [] what = "dash" ->
                  /\ tuto' = [tuto EXCEPT ![c].dashed = IF tuto[c].nowOn THEN @ \cup {arg} ELSE @]
                  /\ UNCHANGED <<enemies, named, hero, early>>
             [] what = "barrier" -> tuto' = [tuto EXCEPT ![c] = Blocked(@)] /\ UNCHANGED <<enemies, named, hero, early>>
             [] OTHER ->
                  /\ tuto' = [tuto EXCEPT ![c].done = IF what = "shield" \/ arg \in tuto[c].coop THEN @ \cup {what} ELSE @]
                  /\ UNCHANGED <<enemies, named, hero, early>>
    /\ UNCHANGED skips

Next ==
    \/ \E c \in Client :
         \/ TutorialSequence(c) \/ CooperationQuest(c) \/ CooperationLearnt(c) \/ CooperationQuestClear(c)
         \/ CooperationEnd(c) \/ Command(c) \/ Recv(c) \/ Dash(c) \/ Kill(c) \/ KillNamed(c)
         \/ \E h \in Hero : Quest(c, h) \/ Learnt(c, h) \/ SpawnTimer(c, h) \/ ClearTimer(c, h)
    \/ GaugeFull \/ Block \/ Surge \/ Vital \/ Shield

Spec == Init /\ [][Next]_vars
-----------------------------------------------------------------------------
\* Where client c waits for its own player alone, he can do what the lesson asks for.
LessonPossible(h, l) ==
    CASE l = "dash" -> h \in tuto[h].dashed \/ CanDash(h)
      [] <<h, l>> = <<"crusher", "first">> -> CanBlock
      [] <<h, l>> = <<"crusher", "ultimate">> ->
           tuto[h].left[h] > 0 \/ IF ZoneEmpty(h, h) THEN hero[h].full ELSE CanFight(h)
      [] OTHER -> tuto[h].left[h] > 0 \/ ZoneEmpty(h, h) \/ CanFight(h) \/ (h = "esper" /\ CanUltimate(h))
SharedPossible(h, stage) ==
    CASE stage = 1 -> h = "esper" \/ CanSurge
      [] stage = 2 -> named[h] = "dead" \/ CanFight(h)
      [] stage = 3 -> h = "crusher" \/ CanShield("esper")
      [] stage = 4 -> h = "esper" \/ CanShield("crusher")
PlayerCan(h) ==
    tuto[h].nowOn =>
        /\ tuto[h].step[h] = "on" /\ h \notin tuto[h].coop => LessonPossible(h, Lesson(h, h))
        /\ tuto[h].shared = "on" /\ Asked[tuto[h].stage] \notin tuto[h].done => SharedPossible(h, tuto[h].stage)

\* The tutorial can always be gone on with: except where the Esper's ultimate did not kill all, or the
\* Crusher's gauge is not full when nobody is left to fill it (Tutorial.cpp:823, :918).
CanGoOn ==
    \A h \in Hero :
        \/ PlayerCan(h)
        \/ h = "esper" /\ tuto[h].last /\ tuto[h].stage = 0
        \/ /\ h = "crusher" /\ Lesson(h, h) = "ultimate" /\ tuto[h].step[h] = "on"
           /\ tuto[h].left[h] = 0 /\ ZoneEmpty(h, h) /\ ~hero[h].full

\* After the tutorial, or a skip before it, the heroes are free, mortal and in the shelter.
FreeAfterSkip ==
    (~early /\ \A c \in Client : ~tuto[c].nowOn) =>
        \A h \in Hero : hero[h].can = All /\ hero[h].skills = AllSkills /\ ~hero[h].immortal /\ hero[h].place = "shelter"
=============================================================================
