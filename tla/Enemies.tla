------------------------------ MODULE Enemies ------------------------------
(***************************************************************************)
(* The enemies of a stage on the two clients: the pools they are taken     *)
(* from (Spawner.cpp), their health and death (HACKED_AI.cpp), and the     *)
(* waves that bring them (WaveSystem.cpp; nothing calls StopWave, PauseWave*)
(* and ResumeWave, and a full WaveSystemLimiter only delays).  Each client *)
(* has an object for every enemy; the objects of both go by the same name. *)
(* The client in seat 0 is the master: it spawns, and takes the dead away. *)
(* While a client is away the game of the other stands still; it is the    *)
(* master.                                                                 *)
(***************************************************************************)
EXTENDS Integers, SequencesExt, FiniteSets

CONSTANTS PoolSize, AddAmount, MaxObject,  \* DEFAULT_OBJECT_BY_AI, OBJECT_ADD_AMOUNT, MAX_OBJECT
          MaxHp,
          WaveSize, WaveGap,               \* enemies of a wave, and how many come at a time
          EventSets,                       \* the sets of events that a behaviour may have
          Names,                           \* bound: names the objects of a pool can have
          MaxHits, MaxWaves, MaxLosses     \* bounds: hits, waves started, connections lost

\* Drop: a client loses its connection and comes back.  Crash: with a new process.
\* Rush: enemies are hit while calls that spawn them are under way.
Event == {"Drop", "Crash", "Rush"}
EnemiesAssumption ==
    /\ {PoolSize, AddAmount, MaxObject, MaxHp, WaveSize, WaveGap} \subseteq Nat \ {0}
    /\ EventSets \subseteq SUBSET Event
    /\ Names = 1 .. Cardinality(Names) /\ PoolSize \in Names

Client == {0, 1}
NoClient == 2
Other(c) == 1 - c

VARIABLES
    may,
    pool,      \* pool[c]: the lists of the Spawner and how many objects it has made
    die, hp,   \* die[c][e], hp[c][e]: enemy e on client c
    timer,     \* timer[c]: the enemies that client c will take away
    wave,      \* wave[c]: the state of the WaveSystem and what is left of the wave
    master,    \* the client in seat 0
    away,      \* the client that is away
    chan,      \* chan[c]: calls on their way to client c
    hits, waves, losses,
    came, cut, \* enemies of this wave that have come; its master was lost too early (history)
    clean      \* no return yet when the pools differed in size or an enemy had died (history)

vars == <<may, pool, die, hp, timer, wave, master, away, chan, hits, waves, losses, came, cut, clean>>

FreshPool == [spawned |-> << >>, free |-> [i \in 1 .. PoolSize |-> i], made |-> PoolSize]
FreshWave == [state |-> "READY", left |-> 0]

Init ==
    /\ may \in EventSets
    /\ pool = [c \in Client |-> FreshPool]
    /\ die = [c \in Client |-> [e \in Names |-> TRUE]]
    /\ hp = [c \in Client |-> [e \in Names |-> MaxHp]]
    /\ timer = [c \in Client |-> {}]
    /\ wave = [c \in Client |-> FreshWave]
    /\ master = 0 /\ away = NoClient
    /\ chan = [c \in Client |-> << >>]
    /\ hits = 0 /\ waves = 0 /\ losses = 0
    /\ came = 0 /\ cut = FALSE /\ clean = TRUE
-----------------------------------------------------------------------------
(* The Spawner of one client: w has the client's pool, and die and hp of    *)
(* its enemies; names are the enemies spawned, in order.                    *)

World(c) == [pool |-> pool[c], die |-> die[c], hp |-> hp[c], names |-> << >>]

_ResizePool(p) ==
    IF Len(p.free) >= MaxObject THEN p
    ELSE [p EXCEPT !.free = @ \o [i \in 1 .. AddAmount |-> p.made + i], !.made = @ + AddAmount]

\* Mutant: the health is not restored.
OnSpawn_KeepsHp(w, e) == [w EXCEPT !.die[e] = FALSE]

OnSpawn(w, e) == [w EXCEPT !.die[e] = FALSE, !.hp[e] = MaxHp]

Spawn(w) ==
    LET p == IF w.pool.free = << >> THEN _ResizePool(w.pool) ELSE w.pool
        e == Last(p.free)
    IN  OnSpawn([w EXCEPT !.pool = [p EXCEPT !.free = Front(@), !.spawned = Append(@, e)],
                          !.names = Append(@, e)], e)

\* On the slave.  An enemy that is not there yet is made, in at most five tries.
RPCSpawnObjectByName(w, e) ==
    LET Tried(k) == FoldLeft(LAMBDA p, i : _ResizePool(p), w.pool, [i \in 1 .. k |-> i])
        found == {k \in 0 .. 4 : e <= Tried(k).made}
        p == IF found = {} THEN Tried(5) ELSE Tried(CHOOSE k \in found : \A l \in found : k <= l)
    IN  IF found = {} THEN [w EXCEPT !.pool = p]
        ELSE OnSpawn([w EXCEPT !.pool =
                 IF e \in Range(p.free)
                 THEN [p EXCEPT !.free = SelectSeq(@, LAMBDA x : x # e), !.spawned = Append(@, e)]
                 ELSE p], e)

\* The enemy stays in the list of the spawned ones: it is removed from a copy.
DestroyObject(w, e) ==
    IF e \notin Range(w.pool.spawned) THEN w
    ELSE [w EXCEPT !.die[e] = TRUE, !.pool.free = Append(@, e)]

_SortEntries(p) == [p EXCEPT !.free = SortSeq(@, <)]

_DisableAll(w) ==
    [w EXCEPT !.die = [e \in Names |-> @[e] \/ e \in Range(w.pool.spawned)],
              !.pool = [@ EXCEPT !.free = @ \o Reverse(w.pool.spawned), !.spawned = << >>]]

\* As many enemies as the list of the other client has; the slave's own are spawned a second time.
RPCRefreshSpawner(w, n, isMaster) ==
    LET off == _DisableAll(w)
        One(v) == IF isMaster THEN Spawn(v) ELSE RPCSpawnObjectByName(Spawn(v), Last(Spawn(v).names))
    IN  FoldLeft(LAMBDA v, i : One(v), [off EXCEPT !.pool = _SortEntries(@)], [i \in 1 .. n |-> i])

Spawns(w, n) == FoldLeft(LAMBDA v, i : Spawn(v), w, [i \in 1 .. n |-> i])
SpawnCalls(names) == [i \in DOMAIN names |-> <<"spawn", names[i]>>]

\* Death on one client: it is reported in any case, and only the master takes the enemy away.
DieProcess(w, e) == [w EXCEPT !.die[e] = TRUE]
Mourns(c, w, e) == ~w.die[e] /\ c = master

HpTakeDamage(n, damage) == IF n < damage THEN 0 ELSE n - damage
-----------------------------------------------------------------------------
Running == away = NoClient

Becomes(c, w) ==
    /\ pool' = [pool EXCEPT ![c] = w.pool]
    /\ die' = [die EXCEPT ![c] = w.die]
    /\ hp' = [hp EXCEPT ![c] = w.hp]

\* Calls to a client that is away are lost.
Send(c, calls) == chan' = [chan EXCEPT ![Other(c)] = IF away = Other(c) THEN @ ELSE @ \o calls]

\* Client c: its own hit on an enemy, or one of the other client.  When it kills, the death is
\* told before the damage.
Damaged(c, e, damage) ==
    LET left == HpTakeDamage(hp[c][e], damage)
        w == [World(c) EXCEPT !.hp[e] = left]
    IN  /\ Becomes(c, IF left = 0 THEN DieProcess(w, e) ELSE w)
        /\ timer' = [timer EXCEPT ![c] = IF left = 0 /\ Mourns(c, w, e) THEN @ \cup {e} ELSE @]

DeathCall(c, e, damage) == IF HpTakeDamage(hp[c][e], damage) = 0 THEN <<<<"die", e>>>> ELSE << >>

TakeDamage(c, e) ==
    /\ Running /\ hits < MaxHits /\ hits' = hits + 1
    /\ ~die[c][e]
    /\ "Rush" \in may \/ \A i \in DOMAIN chan[c] : chan[c][i][1] \notin {"spawn", "refresh"}
    /\ \E damage \in 1 .. MaxHp :
         /\ Damaged(c, e, damage)
         /\ Send(c, DeathCall(c, e, damage) \o <<<<"hit", e, damage>>>>)
    /\ UNCHANGED <<may, wave, master, away, waves, losses, came, cut, clean>>

\* Five seconds after the death.  (Calls take less than that.)
RPCDestroyAI(c, e) ==
    /\ Running
    /\ e \in timer[c]
    /\ \A d \in Client : \A i \in DOMAIN chan[d] : chan[d][i][1] \in {"die", "hit"} => chan[d][i][2] # e
    /\ timer' = [timer EXCEPT ![c] = @ \ {e}]
    /\ Becomes(c, DestroyObject(World(c), e))
    /\ Send(c, <<<<"destroy", e>>>>)
    /\ UNCHANGED <<may, wave, master, away, hits, waves, losses, came, cut, clean>>

\* What is left of the wave before does not come any more.
StartWave ==
    /\ Running /\ waves < MaxWaves /\ waves' = waves + 1
    /\ wave' = [wave EXCEPT ![master] = [state |-> "RUNNING", left |-> WaveSize]]
    /\ Send(master, <<<<"wave", "RUNNING">>>>)
    /\ came' = 0 /\ cut' = FALSE
    /\ UNCHANGED <<may, pool, die, hp, timer, master, away, hits, losses, clean>>

\* Tick of the WaveSystem when the next enemies are due.
\* Mutant: it always spawns as many as come at a time.
Due_Gap(left) == IF left = 0 THEN 0 ELSE WaveGap
Due(left) == IF WaveGap < left THEN WaveGap ELSE left

WaveTick ==
    /\ Running /\ wave[master].state = "RUNNING"
    /\ LET left == wave[master].left
           w == Spawns(World(master), Due(left))
           end == left <= WaveGap
       IN  /\ w.pool.made \in Names
           /\ Becomes(master, w)
           /\ Send(master, SpawnCalls(w.names) \o IF end THEN <<<<"wave", "SPAWN_END">>>> ELSE << >>)
           /\ wave' = [wave EXCEPT ![master] =
                  [state |-> IF end THEN "SPAWN_END" ELSE @.state, left |-> IF end THEN 0 ELSE @.left - WaveGap]]
           /\ came' = came + Due(left)
    /\ UNCHANGED <<may, timer, master, away, hits, waves, losses, cut, clean>>
-----------------------------------------------------------------------------
(* Calls received.  A master that is told to spawn does nothing. *)
Called(c, kind) == chan[c] # << >> /\ Head(chan[c])[1] = kind

Received(c, calls) ==
    chan' = [chan EXCEPT ![c] = Tail(@), ![Other(c)] = IF away = Other(c) THEN @ ELSE @ \o calls]

RecvHit(c) ==
    /\ Called(c, "hit")
    /\ LET e == Head(chan[c])[2]
           damage == Head(chan[c])[3]
       IN  IF die[c][e] THEN Received(c, << >>) /\ UNCHANGED <<pool, die, hp, timer>>
           ELSE Damaged(c, e, damage) /\ Received(c, DeathCall(c, e, damage))
    /\ UNCHANGED <<may, wave, master, away, hits, waves, losses, came, cut, clean>>

RecvDie(c) ==
    /\ Called(c, "die")
    /\ LET e == Head(chan[c])[2] IN
         /\ Becomes(c, DieProcess(World(c), e))
         /\ timer' = [timer EXCEPT ![c] = IF Mourns(c, World(c), e) THEN @ \cup {e} ELSE @]
    /\ Received(c, << >>)
    /\ UNCHANGED <<may, wave, master, away, hits, waves, losses, came, cut, clean>>

RecvDestroy(c) ==
    /\ Called(c, "destroy")
    /\ Becomes(c, DestroyObject(World(c), Head(chan[c])[2]))
    /\ Received(c, << >>)
    /\ UNCHANGED <<may, timer, wave, master, away, hits, waves, losses, came, cut, clean>>

RecvSpawn(c) ==
    /\ Called(c, "spawn")
    /\ Becomes(c, IF c = master THEN World(c) ELSE RPCSpawnObjectByName(World(c), Head(chan[c])[2]))
    /\ Received(c, << >>)
    /\ UNCHANGED <<may, timer, wave, master, away, hits, waves, losses, came, cut, clean>>

RecvRefresh(c) ==
    /\ Called(c, "refresh")
    /\ LET w == RPCRefreshSpawner(World(c), Head(chan[c])[2], FALSE) IN
         Becomes(c, w) /\ Received(c, SpawnCalls(w.names))
    /\ UNCHANGED <<may, timer, wave, master, away, hits, waves, losses, came, cut, clean>>

RPCChangeState(c) ==
    /\ Called(c, "wave")
    /\ wave' = [wave EXCEPT ![c].state = Head(chan[c])[2]]
    /\ Received(c, << >>)
    /\ UNCHANGED <<may, pool, die, hp, timer, master, away, hits, waves, losses, came, cut, clean>>
-----------------------------------------------------------------------------
\* Client c is lost, with what is on its way to it and the end of what it has sent.
Lose(c) ==
    /\ Running /\ losses < MaxLosses /\ losses' = losses + 1
    /\ away' = c /\ master' = Other(c)
    /\ \E n \in 0 .. Len(chan[Other(c)]) :
         chan' = [chan EXCEPT ![c] = << >>, ![Other(c)] = SubSeq(@, 1, n)]
    /\ \/ "Drop" \in may /\ UNCHANGED <<pool, die, hp, timer, wave>>
       \/ /\ "Crash" \in may
          /\ pool' = [pool EXCEPT ![c] = FreshPool]
          /\ die' = [die EXCEPT ![c] = [e \in Names |-> TRUE]]
          /\ hp' = [hp EXCEPT ![c] = [e \in Names |-> MaxHp]]
          /\ timer' = [timer EXCEPT ![c] = {}]
          /\ wave' = [wave EXCEPT ![c] = FreshWave]
    /\ cut' = (cut \/ (c = master /\ (wave[c].state = "RUNNING" \/ wave[Other(c)].left > 0)))
    /\ UNCHANGED <<may, hits, waves, came, clean>>

\* Reconnected: the one that stayed lets both begin again with as many enemies as its list has.
\* (All that was under way has arrived.)
Reconnected ==
    /\ away # NoClient /\ away' = NoClient
    /\ chan[master] = << >>
    /\ LET n == Len(pool[master].spawned)
           w == RPCRefreshSpawner(World(master), n, TRUE)
       IN  /\ w.pool.made \in Names
           /\ Becomes(master, w)
           /\ chan' = [chan EXCEPT ![Other(master)] = <<<<"refresh", n>>>> \o SpawnCalls(w.names)]
    /\ clean' = (clean /\ pool[0].made = pool[1].made
                       /\ \A c \in Client : /\ IsInjective(pool[c].spawned)
                                           /\ \A e \in Range(pool[c].spawned) : ~die[c][e])
    /\ UNCHANGED <<may, timer, wave, master, hits, waves, losses, came, cut>>

Receive(c) ==
    \/ RecvHit(c) \/ RecvDie(c) \/ RecvDestroy(c) \/ RecvSpawn(c) \/ RecvRefresh(c) \/ RPCChangeState(c)

Next ==
    \/ StartWave \/ WaveTick \/ Reconnected
    \/ \E c \in Client : \/ Receive(c) \/ Lose(c)
                         \/ \E e \in Names : TakeDamage(c, e) \/ RPCDestroyAI(c, e)

Spec == Init /\ [][Next]_vars
-----------------------------------------------------------------------------
Quiet == away = NoClient /\ \A c \in Client : chan[c] = << >>
Alive(c) == {e \in Names : ~die[c][e]}

\* When nothing is under way both clients see the same enemies alive, with the same health, whoever
\* hit them and in whatever order, and after a return, too, unless an enemy had died before or the
\* pools had grown apart.
EnemiesAgree ==
    Quiet /\ clean => /\ Alive(0) = Alive(1)
             /\ \A e \in Alive(0) : hp[0][e] = hp[1][e]

\* WaveSystem: a wave that ran to its end has brought all its enemies, each once.  Not so when its
\* master was lost while it ran (the next one knows of no enemies to come and ends the wave), or
\* when the next one has been master before and was itself lost in the middle of a wave: what was
\* left of that one comes as well, unless it has heard that this one is over.
WaveComplete == wave[master].state = "SPAWN_END" /\ waves > 0 /\ ~cut => came = WaveSize
=============================================================================
