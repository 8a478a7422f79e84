------------------------------- MODULE Stages -------------------------------
(***************************************************************************)
(* The way from the shelter to the boss (Phase1.cpp, Phase2.cpp,           *)
(* Phase3.cpp, PhaseBoss.cpp and what they drive: HackingPanel.cpp,        *)
(* ExplosiveObject.cpp, DynamicPlayerBlocker.cpp, CoreBattery.cpp).  Each  *)
(* client takes its own way through it, by the heroes and enemies it sees; *)
(* a few turns are told: the press of the panel, the explosion that clears *)
(* the way, the film before the boss, and his death.                       *)
(***************************************************************************)
EXTENDS Naturals, Sequences

CONSTANT MaxPresses       \* bound: presses of the panel

StagesAssumption == MaxPresses \in Nat

Client == {0, 1}          \* client h owns hero h
Other(c) == 1 - c

\* The check points, in the order of the way, and the room of the boss before the last one.
\* Walking back changes nothing that the stages look at.
Shelter == 0
Sector1CP == 1
Phase1EndCP == 2
Phase2StartCP == 3
Phase3EnterCP == 4
Phase3StartCP == 5
BossRoom == 6
Phase3EndCP == 7

VARIABLES
    stage,     \* stage[c]: the stages on client c
    place,     \* place[h]: the last of these places hero h has come to
    view,      \* view[c][h]: the same, as client c sees it
    chan,      \* chan[c]: calls on their way to client c
    presses,
    starts     \* starts[c]: how often the boss was started on client c (history)

vars == <<stage, place, view, chan, presses, starts>>

Init ==
    /\ stage = [c \in Client |->
         [sector |-> 1, once |-> FALSE, panel |-> "off", timers |-> {}, blockers |-> "closed",
          complete |-> FALSE, phase2 |-> "off", phase3 |-> FALSE, explosive |-> "safe", fence |-> TRUE,
          behind |-> "open", start |-> FALSE, end |-> FALSE, film |-> "none",
          bossRunning |-> FALSE, bossDead |-> FALSE, bossOver |-> FALSE, over |-> FALSE]]
    /\ place = [h \in Client |-> Shelter] /\ view = [c \in Client |-> place]
    /\ chan = [c \in Client |-> << >>] /\ presses = 0
    /\ starts = [c \in Client |-> 0]
-----------------------------------------------------------------------------
IsAnyEntered(c, cp) == \E h \in Client : view[c][h] = cp
IsBothEntered(c, cp) == \A h \in Client : view[c][h] = cp

Becomes(c, s) == s # stage[c] /\ stage' = [stage EXCEPT ![c] = s]
Send(c, call) == chan' = [chan EXCEPT ![Other(c)] = Append(@, call)]

\* Phase1, sector 1: the first hero wakes the enemies, and the panel can be used.
RunningSector1(c) ==
    /\ stage[c].sector = 1 /\ IsAnyEntered(c, Sector1CP)
    /\ Becomes(c, [stage[c] EXCEPT !.panel = IF @ = "off" THEN "ready" ELSE @, !.sector = 2, !.once = FALSE])
    /\ UNCHANGED <<place, view, chan, presses, starts>>

\* Sector 2: when the panel runs, both of its timers are set.
RunningSector2(c) ==
    /\ stage[c].sector = 2 /\ ~stage[c].once /\ stage[c].panel = "running"
    /\ Becomes(c, [stage[c] EXCEPT !.timers = {"sector2", "sector3"}, !.once = TRUE])
    /\ UNCHANGED <<place, view, chan, presses, starts>>

\* The hacking ends, and the blockers go; DUMMY->OPEN() is told but only seen.
EndSector2(c) ==
    /\ "sector2" \in stage[c].timers
    /\ Becomes(c, [stage[c] EXCEPT !.timers = @ \ {"sector2"}, !.panel = "end", !.blockers = "open"])
    /\ UNCHANGED <<place, view, chan, presses, starts>>

StartSector3(c) ==
    /\ "sector3" \in stage[c].timers
    /\ Becomes(c, [stage[c] EXCEPT !.timers = @ \ {"sector3"}, !.sector = 3, !.once = FALSE])
    /\ UNCHANGED <<place, view, chan, presses, starts>>

\* Sector 3: the first one in the zone decides.  An enemy: wait.  A hero: the phase is complete, even
\* when enemies are there.  Nobody is there: wait.
RunningSector3(c) ==
    /\ stage[c].sector = 3
    /\ \E first \in {"enemy", "hero", "nobody"} :
         Becomes(c, [stage[c] EXCEPT !.once = TRUE, !.complete = @ \/ first = "hero"])
    /\ UNCHANGED <<place, view, chan, presses, starts>>

\* Phase2: begins at the end of phase 1, and with the hero in the tunnel a wave and a delay.
StartPhase2(c) ==
    /\ stage[c].phase2 = "off" /\ stage[c].complete /\ IsAnyEntered(c, Phase1EndCP)
    /\ Becomes(c, [stage[c] EXCEPT !.phase2 = "running"])
    /\ UNCHANGED <<place, view, chan, presses, starts>>

RunningPhase2(c) ==
    /\ stage[c].phase2 = "running" /\ IsAnyEntered(c, Phase2StartCP)
    /\ Becomes(c, [stage[c] EXCEPT !.phase2 = "delay"])
    /\ UNCHANGED <<place, view, chan, presses, starts>>

\* After the delay the phase ends as soon as the client sees no enemy; phase 3 begins.  The
\* explosive object may have gone: nothing is left to be armed, and the fence stays.
EndPhase2(c) ==
    /\ stage[c].phase2 = "delay"
    /\ Becomes(c, [stage[c] EXCEPT !.phase2 = "over", !.phase3 = TRUE, !.behind = "open",
                                   !.explosive = IF @ = "safe" THEN "armed" ELSE @])
    /\ UNCHANGED <<place, view, chan, presses, starts>>

\* ExplosiveObject: a hero or a bullet has hit it often enough.
Explode(c) ==
    /\ stage[c].explosive = "armed"
    /\ Becomes(c, [stage[c] EXCEPT !.explosive = "exploded"])
    /\ Send(c, "explode")
    /\ UNCHANGED <<place, view, presses, starts>>

\* The explosion ends and the object with it.  (In phase 3 every frame looks at it before.)
OnFinished(c) ==
    /\ stage[c].explosive = "exploded" /\ (stage[c].phase3 => ~stage[c].fence)
    /\ Becomes(c, [stage[c] EXCEPT !.explosive = "gone"])
    /\ UNCHANGED <<place, view, chan, presses, starts>>

\* The start and the end of the film, on one client.  Both go by one timer.
Fade(s) == [s EXCEPT !.film = "fade"]
Film(s) == [s EXCEPT !.film = "show"]

\* Mutant: a hero at the door ends the game although the boss is being fought.
AtTheEnd_Fighting(c, s) == IsAnyEntered(c, Phase3EndCP) /\ ~s.end
AtTheEnd(c, s) == IsAnyEntered(c, Phase3EndCP) /\ ~s.end /\ ~s.bossRunning

\* Phase3: one look, in the order of the code.
RunningPhase3(c) ==
    LET s == stage[c]
        fallen == IF s.explosive = "exploded" THEN [s EXCEPT !.fence = FALSE] ELSE s
        entered == IF IsBothEntered(c, Phase3EnterCP) THEN [fallen EXCEPT !.behind = "closed"] ELSE fallen
        starting == IsAnyEntered(c, Phase3StartCP) /\ ~s.start
        started == IF starting THEN Fade([entered EXCEPT !.start = TRUE]) ELSE entered
        done == IF AtTheEnd(c, s) THEN [started EXCEPT !.start = TRUE, !.end = TRUE] ELSE started
    IN  /\ s.phase3
        /\ Becomes(c, [done EXCEPT !.over = @ \/ (done.start /\ done.end)])
        /\ IF starting THEN Send(c, "start") ELSE UNCHANGED chan
        /\ UNCHANGED <<place, view, presses, starts>>

\* Calls and movements take less than the timers, three and eleven seconds.
Settled == \A c \in Client :
    /\ \A i \in DOMAIN chan[c] : chan[c][i] # "start"
    /\ ~(stage[c].phase3 /\ IsAnyEntered(c, Phase3StartCP) /\ ~stage[c].start)
    /\ \A h \in Client : place[h] = Phase3StartCP => view[c][h] = place[h]

\* The heroes are taken to the boss, by each client.
Moved == [h \in Client |-> IF place[h] < BossRoom THEN BossRoom ELSE place[h]]

BossProduction(c) ==
    /\ stage[c].film = "fade" /\ Settled
    /\ Becomes(c, Film(stage[c])) /\ Send(c, "film")
    /\ place' = Moved /\ view' = [d \in Client |-> Moved]
    /\ UNCHANGED <<presses, starts>>

BossProductionEnd(c) ==
    /\ stage[c].film = "show" /\ Settled
    /\ \A d \in Client : "film" \notin {chan[d][i] : i \in DOMAIN chan[d]} /\ stage[d].film # "fade"
    /\ Becomes(c, [stage[c] EXCEPT !.film = "none", !.bossRunning = TRUE])       \* StartBossPhase
    /\ starts' = [starts EXCEPT ![c] = @ + 1]
    /\ UNCHANGED <<place, view, chan, presses>>

\* PhaseBoss: the boss falls on one client, which tells the other; the stage sees it.
BossDies(c) ==
    /\ stage[c].bossRunning /\ ~stage[c].bossDead
    /\ Becomes(c, [stage[c] EXCEPT !.bossDead = TRUE]) /\ Send(c, "dies")
    /\ UNCHANGED <<place, view, presses, starts>>

RunningBossPhase(c) ==
    /\ stage[c].bossRunning /\ stage[c].bossDead /\ ~stage[c].bossOver
    /\ Becomes(c, [stage[c] EXCEPT !.bossRunning = FALSE, !.bossOver = TRUE])
    /\ UNCHANGED <<place, view, chan, presses, starts>>

\* HackingPanel::StartHacking, where a hero may be near on one client and not on the other.
StartHacking(s, near) == IF s.panel = "ready" /\ near THEN [s EXCEPT !.panel = "running"] ELSE s

Press(h) ==
    /\ presses < MaxPresses /\ presses' = presses + 1
    /\ place[h] = Sector1CP
    /\ \E near \in BOOLEAN : stage' = [stage EXCEPT ![h] = StartHacking(@, near)]
    /\ Send(h, "press")
    /\ UNCHANGED <<place, view, starts>>

RecvRPC(c) ==
    /\ chan[c] # << >> /\ chan' = [chan EXCEPT ![c] = Tail(@)]
    /\ LET s == stage[c]  m == Head(chan[c]) IN
       /\ \E near \in (IF m = "press" THEN BOOLEAN ELSE {TRUE}) :
            stage' = [stage EXCEPT ![c] =
                CASE m = "press" -> StartHacking(s, near)
                  [] m = "explode" -> [s EXCEPT !.explosive = IF @ = "gone" THEN @ ELSE "exploded"]
                  [] m = "start" -> Fade(s)
                  [] m = "film" -> Film(s)
                  [] m = "dies" -> [s EXCEPT !.bossDead = TRUE]]
       /\ place' = IF m = "film" THEN Moved ELSE place
       /\ view' = IF m = "film" THEN [d \in Client |-> Moved] ELSE view
    /\ UNCHANGED <<presses, starts>>

\* A hero goes on, where nothing is in the way on its own client.  (The other client has seen
\* the step before.  From the room of the boss on the films are over.)
Move(h) ==
    LET p == place[h] + 1 IN
    /\ p <= Phase3EndCP /\ p # BossRoom
    /\ view[Other(h)][h] = place[h]
    /\ stage[h].film # "show"
    /\ p = Phase1EndCP => stage[h].blockers = "open"
    /\ p = Phase3EnterCP => ~stage[h].fence
    /\ p = Phase3EndCP => \A c \in Client : starts[c] > 0 /\ stage[c].film = "none"
    /\ place' = [place EXCEPT ![h] = p]
    /\ view' = [view EXCEPT ![h][h] = p]
    /\ UNCHANGED <<stage, chan, presses, starts>>

See(c) ==
    /\ view[c] # place
    /\ view' = [view EXCEPT ![c] = place]
    /\ UNCHANGED <<stage, place, chan, presses, starts>>

Tick(c) ==
    \/ RunningSector1(c) \/ RunningSector2(c) \/ EndSector2(c) \/ StartSector3(c) \/ RunningSector3(c)
    \/ StartPhase2(c) \/ RunningPhase2(c) \/ EndPhase2(c) \/ OnFinished(c)
    \/ RunningPhase3(c) \/ BossProduction(c) \/ BossProductionEnd(c) \/ RunningBossPhase(c)

Next == \E c \in Client : Tick(c) \/ Explode(c) \/ BossDies(c) \/ Press(c) \/ RecvRPC(c) \/ Move(c) \/ See(c)

Spec == Init /\ [][Next]_vars
-----------------------------------------------------------------------------
\* The film before the boss is called by both clients, in any order and on top of one another,
\* but it starts the boss once on each, and the game is over only when he is dead
\* (APhase3::BossProductionStart, BossProduction, BossProductionEnd, RunningPhase3).
BossOnce ==
    \A c \in Client : starts[c] <= 1 /\ (stage[c].over => stage[c].bossDead)

(* Why it does (proved in GameProofs).  Stages only says what the clients call each other. *)
Call == {"press", "explode", "start", "film", "dies"}
Fields == {"sector", "once", "panel", "timers", "blockers", "complete", "phase2", "phase3", "explosive",
           "fence", "behind", "start", "end", "film", "bossRunning", "bossDead", "bossOver", "over"}
Place == Shelter .. Phase3EndCP
Typed ==
    /\ DOMAIN stage = Client /\ \A c \in Client : DOMAIN stage[c] = Fields
    /\ place \in [Client -> Place] /\ view \in [Client -> [Client -> Place]]
    /\ chan \in [Client -> Seq(Call)] /\ starts \in [Client -> Nat]

Called(call) == \E c \in Client : \E i \in DOMAIN chan[c] : chan[c][i] = call

\* Nobody is where the film is called any more, and no call for it is under way.
Gathered ==
    /\ \A h \in Client : place[h] >= BossRoom /\ \A c \in Client : view[c][h] >= BossRoom
    /\ ~Called("start")

\* Before the film, during it, and from the first end of it on.
Before == ~Called("film") /\ \A c \in Client : starts[c] = 0 /\ stage[c].film # "show"
Filming == Gathered /\ \A c \in Client : starts[c] = 0
Fighting ==
    /\ Gathered /\ ~Called("film")
    /\ \A c \in Client : stage[c].film # "fade" /\ starts[c] <= (IF stage[c].film = "show" THEN 0 ELSE 1)

\* Whoever is at the last door has seen both clients start the boss; the end is begun only there.
AtTheDoor ==
    \A c, h \in Client : place[h] = Phase3EndCP \/ view[c][h] = Phase3EndCP => \A d \in Client : starts[d] > 0
Fought ==
    \A c \in Client : /\ starts[c] > 0 => stage[c].bossRunning \/ stage[c].bossDead
                      /\ stage[c].end \/ stage[c].over => stage[c].bossDead

BossInv == Typed /\ (Before \/ Filming \/ Fighting) /\ AtTheDoor /\ Fought
=============================================================================
