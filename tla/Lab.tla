-------------------------------- MODULE Lab --------------------------------
(***************************************************************************)
(* The laboratory stage (Phase1_1.cpp, with HackingPanel.cpp,              *)
(* CheckPoint.cpp, the doors and WaveSystem.cpp).  Each client runs it for *)
(* itself, by where it sees the heroes; only the press of a panel and the  *)
(* state of the wave are told.  Three rooms follow one another: both       *)
(* heroes enter, somebody presses the panel, enemies come while it hacks,  *)
(* and the door to the next room opens.                                    *)
(***************************************************************************)
EXTENDS Naturals, Sequences

CONSTANTS HackingTime,   \* time a panel takes
          WaveTime,      \* time until all enemies of a wave have come
          MaxPresses     \* bound: panels pressed

LabAssumption == {HackingTime, WaveTime} \subseteq Nat \ {0} /\ MaxPresses \in Nat

Client == {0, 1}         \* client h owns hero h
Master == 0              \* the client in seat 0
Other(c) == 1 - c
Room == 1 .. 3

\* A hero is in the hall (0), in a room, or beyond the exit (4).  The plasma doors, by the place
\* behind which they are: number 2 of the code is never opened.
Plasma == {0, 1, 2, 3}
DoorAfter == [p \in {0, 1, 2} |-> IF p = 2 THEN 3 ELSE p]

VARIABLES
    lab,      \* lab[c]: the stage on client c
    place,    \* place[h]: where hero h is, on its own client
    view,     \* view[c][h]: where client c sees hero h
    wave,     \* wave[c]: the state of the WaveSystem
    left,     \* time until the current wave has come
    current,  \* its number (_currentWave)
    chan,     \* chan[c]: calls on their way to client c
    presses,
    spawned,  \* the waves that have come to the end (history)
    alone     \* the slave has gone on with a phase that the master had not begun (history)

vars == <<lab, place, view, wave, left, current, chan, presses, spawned, alone>>

Init ==
    /\ lab = [c \in Client |-> [phase |-> 1, stage |-> "idle", rate |-> 0, panel |-> [k \in Room |-> "off"],
                                prepared |-> {}, plasma |-> Plasma, exit |-> FALSE, done |-> FALSE]]
    /\ place = [h \in Client |-> 0] /\ view = [c \in Client |-> place]
    /\ wave = [c \in Client |-> "READY"] /\ left = 0 /\ current = 0
    /\ chan = [c \in Client |-> << >>] /\ presses = 0
    /\ spawned = {} /\ alone = FALSE
-----------------------------------------------------------------------------
(* One client, by what it sees. *)
IsAnyEntered(c, p) == \E h \in Client : view[c][h] = p
IsBothEntered(c, p) == \A h \in Client : view[c][h] = p

Prepare(l, k) ==
    [l EXCEPT !.prepared = @ \cup {k},
              !.panel[k] = IF @ = "off" THEN "ready" ELSE @,
              !.plasma = CASE k = 1 -> IF 1 \in l.prepared THEN @ ELSE @ \ {0}
                           [] k = 2 -> @ \cup {0, 1, 2}
                           [] k = 3 -> @]

Start(l, k) ==
    [l EXCEPT !.stage = "running",
              !.plasma = @ \cup (CASE k = 1 -> {0, 1, 2} [] k = 2 -> {} [] k = 3 -> {3})]

\* Mutant: it does not wait for the enemies.
Running_Unwatched(l, w) == IF l.rate >= HackingTime THEN [l EXCEPT !.stage = "clear", !.panel[l.phase] = "end"] ELSE l
Running(l, w) ==
    IF l.rate >= HackingTime /\ w = "SPAWN_END"
    THEN [l EXCEPT !.stage = "clear", !.panel[l.phase] = "end"] ELSE l

End(l, k) ==
    [l EXCEPT !.stage = "idle", !.rate = 0, !.phase = (k + 1) % 4,
              !.plasma = @ \ (IF k = 3 THEN {} ELSE {DoorAfter[k]}),
              !.exit = @ \/ k = 3]

\* Mutant: one hero in the room will do (the branch for debugging).
CanStart_Alone(c, l, k) == IsAnyEntered(c, k) /\ l.panel[k] = "running" /\ l.stage = "idle"
CanStart(c, l, k) == IsBothEntered(c, k) /\ l.panel[k] = "running" /\ l.stage = "idle"

\* Phase1Flow, Phase2Flow, Phase3Flow
PhaseFlow(c, l0, k) ==
    LET l == IF IsBothEntered(c, IF k = 1 THEN 0 ELSE k) /\ (k = 1 \/ k \notin l0.prepared) THEN Prepare(l0, k) ELSE l0
    IN  CASE CanStart(c, l, k) -> Start(l, k)
          [] l.stage = "running" -> Running(l, wave[c])
          [] l.stage = "clear" /\ l.panel[k] # "running" -> End(l, k)
          [] OTHER -> l

Lab1End(c, l) == IF IsBothEntered(c, 4) THEN [l EXCEPT !.exit = FALSE, !.done = TRUE] ELSE l

LabWaveTimers(l) ==
    IF l.phase # 0 /\ l.stage = "running" /\ l.rate < HackingTime /\ l.panel[l.phase] = "running"
    THEN [l EXCEPT !.rate = @ + 1] ELSE l
-----------------------------------------------------------------------------
Send(c, call) == chan' = [chan EXCEPT ![Other(c)] = Append(@, call)]

\* Calls and movements are seen, and a phase begun, in less than the time a panel takes.
Settled ==
    /\ \A c \in Client : chan[c] = << >> /\ view[c] = place
    /\ \A c \in Client : lab[c].phase # 0 => ~CanStart(c, lab[c], lab[c].phase)

Tick(c) ==
    LET timed == IF Settled THEN LabWaveTimers(lab[c]) ELSE lab[c]
        k == lab[c].phase
        l == IF lab[c].done \/ k = 0 THEN Lab1End(c, lab[c]) ELSE PhaseFlow(c, timed, k)
        starts == lab[c].stage = "idle" /\ l.stage = "running"
    IN  /\ lab' = [lab EXCEPT ![c] = l]
        /\ IF starts /\ c = Master                                 \* StartWave
           THEN /\ wave' = [wave EXCEPT ![c] = "RUNNING"] /\ left' = WaveTime /\ current' = k
                /\ Send(c, <<"wave", "RUNNING">>)
           ELSE UNCHANGED <<wave, left, current, chan>>
        /\ alone' = (alone \/ (timed # lab[c] /\ lab[Master].phase = k /\ lab[Master].stage = "idle"))
        /\ UNCHANGED <<place, view, presses, spawned>>

\* The wave goes on, on the master.
WaveTick ==
    /\ wave[Master] = "RUNNING"
    /\ left' = left - 1
    /\ IF left = 1
       THEN /\ wave' = [wave EXCEPT ![Master] = "SPAWN_END"] /\ Send(Master, <<"wave", "SPAWN_END">>)
            /\ spawned' = spawned \cup {current}
       ELSE UNCHANGED <<wave, chan, spawned>>
    /\ UNCHANGED <<lab, place, view, current, presses, alone>>

\* StartHacking on client c.  Of the heroes, one may be near the panel there, or none, or one has
\* just left, which counts as none.
StartHacking(c, k, near) ==
    IF lab[c].panel[k] = "ready" /\ near THEN [lab EXCEPT ![c].panel[k] = "running"] ELSE lab

Press(h) ==
    /\ place[h] \in Room /\ presses < MaxPresses /\ presses' = presses + 1
    /\ \E near \in BOOLEAN :
        /\ lab' = StartHacking(h, place[h], near)
        /\ Send(h, <<"press", place[h]>>)
    /\ UNCHANGED <<place, view, wave, left, current, spawned, alone>>

RecvRPC(c) ==
    /\ chan[c] # << >> /\ chan' = [chan EXCEPT ![c] = Tail(@)]
    /\ LET m == Head(chan[c]) IN
       IF m[1] = "wave"
       THEN wave' = [wave EXCEPT ![c] = m[2]] /\ UNCHANGED lab
       ELSE (\E near \in BOOLEAN : lab' = StartHacking(c, m[2], near)) /\ UNCHANGED wave
    /\ UNCHANGED <<place, view, left, current, presses, spawned, alone>>

\* A hero goes through a door that is open on its own client.
Move(h) ==
    /\ \E p \in 0 .. 4 :
        /\ p = place[h] + 1 \/ p + 1 = place[h]
        /\ LET first == IF p < place[h] THEN p ELSE place[h]       \* the place before the door
           IN  IF first = 3 THEN lab[h].exit ELSE DoorAfter[first] \notin lab[h].plasma
        /\ place' = [place EXCEPT ![h] = p]
        /\ view' = [view EXCEPT ![h][h] = p]
    /\ UNCHANGED <<lab, wave, left, current, chan, presses, spawned, alone>>

\* The other client sees it there; it may have missed the places in between.
See(c) ==
    /\ view' = [view EXCEPT ![c][Other(c)] = place[Other(c)]]
    /\ UNCHANGED <<lab, place, wave, left, current, chan, presses, spawned, alone>>

Next == WaveTick \/ \E c \in Client : Tick(c) \/ Press(c) \/ RecvRPC(c) \/ Move(c) \/ See(c)

Spec == Init /\ [][Next]_vars
-----------------------------------------------------------------------------
\* The phase the stage is in on client c; the end counts as a fourth one.
At(c) == IF lab[c].phase = 0 THEN 4 ELSE lab[c].phase

\* Nobody is left behind: when the stage begins a phase on one client, shutting the doors, the
\* other client has come as far, and nobody is on the wrong side of the own doors
\* (APhase1_1::StartPhase1, StartPhase3; each client only knows what it sees).
LabsInStep ==
    \A c \in Client : lab[c].stage = "running" \/ lab[c].done =>
        At(Other(c)) >= At(c) /\ place[c] = At(c)

\* No phase ends before all its enemies have come, although a client may know the state of the
\* wave before only (APhase1_1::RunningPhase1).  The slave is excepted once it has gone on with
\* a phase that the master had not begun: its panel refused the press, or its hero was leaving.
WaveBeforeEnd ==
    \A c \in Client : c = Master \/ ~alone => 1 .. At(c) - 1 \subseteq spawned

-----------------------------------------------------------------------------
(* Why the clients stay in step (proved in GameProofs). *)
Stages == [phase : 0 .. 3, stage : {"idle", "running", "clear"}, rate : Nat,
           panel : [Room -> {"off", "ready", "running", "end"}], prepared : SUBSET Room,
           plasma : SUBSET Plasma, exit : BOOLEAN, done : BOOLEAN]
Waves == {"READY", "RUNNING", "SPAWN_END"}
Call == ({"press"} \X Room) \cup ({"wave"} \X Waves)
Typed ==
    /\ lab \in [Client -> Stages] /\ place \in [Client -> 0 .. 4] /\ view \in [Client -> [Client -> 0 .. 4]]
    /\ wave \in [Client -> Waves] /\ chan \in [Client -> Seq(Call)] /\ alone \in BOOLEAN

\* A hero is nowhere, nor seen anywhere, where its own client has not opened the way to: the doors to a
\* room are opened by the end of the phase before, and shut when both heroes are in it.
Behind ==
    /\ \A c \in Client : view[c][c] = place[c] /\ \A h \in Client : view[c][h] <= At(h)
    /\ \A c \in Client :
         /\ 1 \notin lab[c].plasma => At(c) >= 2
         /\ 3 \notin lab[c].plasma => At(c) >= 3
         /\ lab[c].exit => At(c) = 4
         /\ \A k \in Room : lab[c].panel[k] # "off" => At(c) >= k
         /\ At(c) = 2 /\ lab[c].panel[2] # "off" => 1 \in lab[c].plasma

\* While a phase runs, and after the end, the own hero cannot leave.
Within ==
    \A c \in Client :
        /\ lab[c].stage = "running" =>
             /\ lab[c].phase # 0 /\ place[c] = At(c) /\ At(Other(c)) >= At(c) /\ lab[c].panel[lab[c].phase] # "off"
             /\ lab[c].phase = 1 => 0 \in lab[c].plasma
             /\ lab[c].phase = 3 => 3 \in lab[c].plasma
        /\ lab[c].done => lab[c].phase = 0 /\ place[c] = 4 /\ ~lab[c].exit /\ At(Other(c)) = 4
        /\ lab[c].stage = "clear" => lab[c].phase # 0
        /\ lab[c].stage = "idle" => lab[c].rate = 0

\* The wave of the master is the one of its phase.
Presses(ch) == \A i \in DOMAIN ch : ch[i][1] = "press"
MasterWaits ==
    LET m == lab[Master]
    IN  /\ Presses(chan[Master])
        /\ m.stage = "running" => current = m.phase /\ (wave[Master] = "RUNNING" \/ current \in spawned)
        /\ m.stage = "clear" => m.phase \in spawned
        /\ wave[Master] = "RUNNING" => m.stage = "running"
        /\ 1 .. At(Master) - 1 \subseteq spawned

\* The slave will know the state of the wave last.
Told ==
    LET ch == chan[Other(Master)]
    IN  /\ Presses(ch) => wave[Other(Master)] = wave[Master]
        /\ \A i \in DOMAIN ch : ch[i][1] = "wave" =>
             ch[i][2] = wave[Master] \/ \E j \in DOMAIN ch : i < j /\ ch[j][1] = "wave"

\* Once its panel has hacked for a while, the slave knows that the wave of its phase runs.
SlaveWaits ==
    LET s == lab[Other(Master)]
    IN  ~alone =>
          /\ s.stage = "running" /\ s.rate > 0 =>
               \/ s.phase \in spawned
               \/ /\ current = s.phase /\ wave[Master] = "RUNNING" /\ wave[Other(Master)] = "RUNNING"
                  /\ Presses(chan[Other(Master)])
          /\ s.stage = "clear" => s.phase \in spawned
          /\ 1 .. At(Other(Master)) - 1 \subseteq spawned

LabInv == Typed /\ Behind /\ Within /\ MasterWaits /\ Told /\ SlaveWaits
=============================================================================
