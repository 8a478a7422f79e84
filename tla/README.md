# TLA+ for JHNet

JHNet is a small network layer for a cooperative Unreal Engine game (HACKED): a
C++ server that keeps parties, matches them and relays game messages between the
two players of a game; the client side of the same protocol inside the game; and
a watchdog that restarts the server. This directory holds its specifications, the
TLC configurations that check them and the TLAPS proofs about them.

All paths below are relative to `src/`. The server sources are encoded in CP949;
quoted comments are given with a translation.

## 1. The system

| Part | Where | State | Operations |
|---|---|---|---|
| Player manager | `HACKEDNetworkServer/Processor/Manager/PlayerManager.cpp`, `DataType/Player.*` | vector `players`; per player: steam ID, socket, UDP address, state, ping times, delayed bytes; object pool | lookup by ID, socket, UDP address; `CreatePlayer`, `AddPlayer`, `RemovePlayer`, `AbsorbPlayer` |
| Room manager | `Processor/Manager/RoomManager.cpp`, `DataType/Room.*` | lists `rooms`, `matchRooms`, `gameRooms`; per room: number, two seats, state; object pool | create, delete, change state, move, kick, join, disconnect, `TryMatching`, `Update` |
| Game logic thread | `Processor/GameProcessor.cpp` | the message being handled | one handler per message (accept, TCP, UDP, close), periodic `Update` every 10 ms |
| TCP handlers | `Processor/TCP/TCPReceiveProcessor.cpp` | none of its own | framing; one handler per packet type |
| UDP handlers | `Processor/UDP/UDPReceiveProcessor.cpp` | none of its own | registration, heartbeat, RPC and SyncVar relay |
| Socket layer | `Server/IOCPServer.cpp`, `ServerNetworkSystem.cpp` | socket pool, `sockStates`, outstanding overlapped operations | accept, receive, send, close, each completed on one of several worker threads |
| Message queue | `NetworkModule/MessageQueue.h` | two `std::queue`s | workers enqueue, the logic thread swaps and drains |
| Client network | `HACKEDGame/Source/JHNET/Core/Network/NetworkSystem.cpp` | socket state, two receive threads, saved data | connect, reconnect, shutdown, receive |
| Client processors | `HACKEDGame/Source/JHNET/Common`, `Lobby`, `InGame` | remembered room, pause, screens, replicated objects | requests, pings, room messages, RPC and SyncVar dispatch, places of actors |
| Packets | `NetworkModule/` of both sides | none | serializers, packet structs, RPC macros |
| Watchdog | `HACKEDHeartbeatServer/MyHeartbeatServer/Program.cs` | server process, round counter | TCP and UDP probe, restart |
| Heroes | `HACKEDGame/Source/HACKED/InGame/Character` | health, shields, skills, input flags, on each client | hits, falls, skills, attacks, healing |
| Enemies, boss | `InGame/AI`, `InGame/Spawner` | health, minds, pools, waves, on each client | spawn, hits, stuns, death, attacks, choice of target |
| Stages | `InGame/Phase`, `InGame/Common` | phase, tutorial lessons, panels, doors, films | what each client lets happen next |

**How the parts interact.** Workers turn completions into messages
(`OnAccept`, `OnRecvTCP`, `OnClose`) and put them in the queue. The logic thread
is the only one that touches players and rooms: it empties the queue, then runs
`Update`, then sleeps. It calls back into the socket layer to send and to close.
So handlers are atomic with respect to each other, and the concurrency that
matters is between *what happened to a socket* and *when the thread hears of it*:
a `CLOSE` may be handled after the player it is about was absorbed, removed or
replaced, and `PostClose` answers each further close of a closing socket with
another `CLOSE` message.

On the client a thread connects, one receives by TCP and one by UDP; they hand
buffers to the main thread of the game, which alone runs the level's processor and
all game code. The two clients of a game share no state: each has an object for
every actor, RPCs and SyncVars relayed by the server keep them together, the client
in seat 0 (the master) decides for the world and each client for its own hero.
Timers and animations run on each client by its own clock, so any two clients may
see the same events in different orders; that is where the game's hazards are.

**What must be right.**

- Players: an object belongs to one connection or to the pool; a steam ID names
  one player; a client that comes back gets what it lost, and only that.
- Rooms: every seat holds a live player, nobody sits twice, no empty room stays,
  the three lists and the state of a room agree, and a room that waits for a
  match is ready for one.
- Games: a game starts full, keeps its party until it ends, and always has a
  connected master in seat 0, whose machine simulates it.
- Sockets: each close is noticed once and by the right player; dead connections
  are noticed eventually.
- The logic thread follows no null or stale pointer.
- Streams and packets: what one side writes, the other reads, wherever TCP cuts it.
- Clients: the threads of a connection join and end, a lost connection comes back,
  and the two clients agree on seats, pauses, parties, values and places.
- Game: the clients agree on who lives; a player never ends up without control, an
  enemy never stands still for ever, and each stage can be gone through to its end.

The list of hazards with their lines is in `PROJECT.json` (`hazards`). Where the code
does not survive a hazard, the property names it as a condition (an event of the
model that must not occur), so that what holds is stated exactly.

## 2. Modules

Server:

| Module | What it is |
|---|---|
| `Managers` | The functions of `CPlayerManager`, `CRoomManager` and `CRoom` as operators from one *world* (a record of all data of the logic thread) to the next. |
| `GameServer` | The state machine: variables, one action per message handler, per step of `Update` and per completion a worker handles; invariants and action properties. `MCGameServer`: symmetry. |
| `GameServerLiveness` | Fairness and the liveness property. |
| `GameServerProofs` | Type correctness, the agreement of the room lists, that no empty room waits for a match, that players, sockets and seats fit together, and the life of a game: proved. |
| `SocketServer` | `CIOCPServer`: worker threads and the logic thread between accesses to `sockStates`, the socket pool and the queue; the operating system completes operations in any order. `MCSocketServer`: the machines of its run. |
| `MessageQueue`, `Connections` | What the socket layer promises: one FIFO queue; each connection announced once, ended once, in order. `SocketServer` implements both (refinement). |
| `SocketServerProofs` | The two queues are one, the server accepts on, the pool is clean, bytes reach their owner, connections are announced and ended in order: proved. |
| `Framing`, `ServerStream`, `ClientStream` | A TCP stream as bytes that know their packet; the two receivers that find the packets in it. |
| `UDPRegistration` | How the server learns, keeps and looks up UDP addresses while clients reconnect and player objects are pooled. |

Client and protocol:

| Module | What it is |
|---|---|
| `ClientNetwork` | `UNetworkSystem`: the connecting thread, the receive threads and the main thread, a step up to the next access to a shared field. |
| `Packets` | Bytes of every packet struct on both sides, in both byte orders, RPC arguments, and the buffers of a tick. |
| `Lobby` | Parties on the server, requests and messages under way, and the screen of each player. |
| `Session` | Two clients and their room from lobby to game and back, with losses and crashes: seats, levels, pauses, resynchronisation. |
| `Replication` | SyncVars, RPCs, authority, saved messages, on two machines. |
| `Transforms` | Places, rotations and views by UDP. |
| `MCClient` | All of these (and the receivers and UDP registration) as parts of one run. |
| `ClientProofs` | No thread is joined twice; registered clients are told apart; machines agree on objects and places, and calls find their values: proved in `MCClient`. |
| `LobbyProofs` | What comes from the server: the packets in the stream are found, and a client shows its room as the server has it: proved in `MCClient`. |

Game:

| Module | What it is |
|---|---|
| `HeroHealth`, `Skills` | Health, falls and healing on both clients; what a player may do while skills, falls and cut animations overlap. |
| `CrusherAttacks`, `EsperAttacks` | What the heroes' attacks do to an enemy on both clients. |
| `Enemies`, `EnemyMind` | Pools, spawns, death and waves; what stops and restarts an enemy. |
| `Boss`, `BossAgro`, `BossMind` | His health and immortality; whom he goes for; his attacks. |
| `Stages`, `Lab`, `Tutorial`, `Selector` | The way to the boss, the laboratory, the tutorial, the choice of heroes. |
| `MCGame` | All of these as parts of one run. |
| `QueueProofs` | What `Append`, `Tail` and "for every element" do to a queue: lemmas for the next ones and `LobbyProofs`. |
| `TutorialProofs` | The tutorial, for any lessons and any number of enemies: proved. |
| `HeroesProofs` | Health, skills, choice, attacks and tutorial of the heroes, proved in `MCGame`. |
| `GameProofs` | Enemies, boss, stages and laboratory, proved in `MCGame`. |

**Parts of one run.** `MCClient` and `MCGame` instantiate modules that do not interact
and choose in `Init` which one runs; variables of the others stay 0. Each keeps its
own bounds, and one run answers the question for all of them.

**`Managers` and `GameServer`.** A C++ handler is a composition of manager
calls, each of which reads what the one before has written. `Managers` therefore
gives every function the same shape, `F(w, ...)` with a world in and a world out,
and a handler in `GameServer` is the composition, committed at the end. The
functions keep their names. `LeaveRoom` is one turn of the loop in `OutRoom`,
`Absorbed` is `CPlayerManager::AbsorbPlayer` as distinguished from
`CGameProcessor::AbsorbPlayer`, `DropRoom` the repeated "delete the room and throw
its players out", `Identified` the common start of `Common_AnswerId` and
`InGame_ReconnectServer`.

**State.** `players`, `rooms` are sequences (the lookups return the first match,
and which one is first matters); `matchRooms`, `gameRooms` are sets (their order
only decides which of several matches is made first). `sock[s]` and `inbox` are
the sockets and the `CLOSE` messages still in the queue; TCP and `ACCEPT` messages
change nothing before they are handled, so posting and handling them is one step.
`recv[s]` says that a receive is outstanding, `client[s]` who is at the other end;
only the client itself knows that, the server reads it from `AnswerId`. `pc` says
whether the thread is between passes of `CRoomManager::Update`, or dead.

**Crashes.** Where the code dereferences null (`GetRoomMemberCount(nullptr)`) or
goes on from the iterator of an erased element (`RoomManager.cpp:398`), the model
has the action `Crash`; for the iterator, which may also happen to work, it is one
of two outcomes. A crash loses all data, `Restart` is the watchdog.

**Assumed about the surroundings.**

- A client tells its own ID, is not invited by itself, and accepts invitations
  only after it identified itself (`InviteFriendRequest` finds it by its ID). The
  server checks whether an invitation exists nowhere, so any ID may be answered.
- What a client remembers of its room when the server is gone: any seats that
  contain itself and no one twice.
- An aborted receive completes before the close of its socket does. The socket
  layer's own races are in `SocketServer`.

**Abstractions.** Room numbers are room identity. UDP addresses (`UDPRegistration`),
delayed bytes (`ServerStream`), what is sent to clients (`Lobby`, `Session`) and ping
times are left out here. `TryMatching` is
modelled by the matches it can find: for `MAX_PLAYER = 2` one full room, or two
rooms with one player each. That a waiting room is never empty, on which this
rests, is a theorem (section 6).

**`SocketServer`.** A step is what one thread does up to its next access to
something shared: `sockStates`, the pool, the queue, or a call of the system. `at[t]`
is the place in the code that thread `t` has reached, `arg[t]` its local socket. The
operating system keeps the outstanding operations (`op`) and the completions nobody
has taken (`done`), both bags: any worker takes any of them. `AcceptEx` may fail at once,
and does on a socket that is still connected: then the worker closes the socket and resets
`isRun`, and posts no further accept. The main thread is left out; it ends the process the next
time it looks at `isRun` (JHNETGameServer.cpp:61), so what holds then is only that it was reset. `MessageQueue` and
`Connections` are the promises; the mapping of the first is `current \o queue`.

**Streams.** `Framing` makes a byte a pair of a packet and a place in it, so that reading
a length in the wrong place is visible. `ServerStream` is `ReceiveData` with
`PopDelayData` and `PushDelayData`, `ClientStream` is `TCPRecvThread` with
`AddSavedData` and `DelayData`; the network cuts the stream anywhere. `Packets`
writes out what each packet struct puts into its buffer, with numbers as sequences of
bytes in the order of the machine and texts by their length.

**`UDPRegistration`.** Player objects with the address they keep when they are pooled,
absorbed or removed; clients with connections and UDP sockets; registrations and
answers under way. Lookups return the first of the vector, as the code does.

**`ClientNetwork`.** The fields of `UNetworkSystem` that threads share (`state`,
`bOnServer`, the lock of `ShutdownSocket`, three thread handles), and per thread
the place reached. `join` is a place that is left when the thread joined is dead.
The server and the network answer, fail or lose as they like, up to a bound.

**`Session`.** Server: rooms with seats, who is lost, who holds which connection.
Client: level, slot, pause, believed server state, mode (whether it returns to a
game or to the lobby), the flags that wait for the next level. Each message is an
operator from one client to the next, named for the function it stands for; the
messages of one buffer are handled in one turn of `RecvProc`, with what the code does
at the change of a level.

**`Lobby`.** Server: parties, states, invitations. Client: what its screen shows. A
button names the seat the screen shows, not the player seen in it.

**`Replication` and `Transforms`.** A machine is a record: values, authority, objects
that play, saved messages. The RPC macro sends a call unless the same function of the
same object is just being run as received (`_INLOOP`), so calls nested in another
function's body are sent again; a multicast runs at home after it is sent (so that what
it writes itself follows it), a call to the master is dropped by the server when the master sent it. SyncVars are sent by the
machine with authority, when they changed. In `Transforms` a place is a number on a
line.

**The game modules** have one record per client (what its objects hold), one channel per
direction (`chan`, calls in order), and bounded inputs. Timers and the ends of
animations are steps of one client. Calls with the same caller and callee arrive in
order, since they go by TCP. The behaviour trees, widgets, levels and animations are
binary assets and therefore external: that the end of an animation is announced is
read from the notify functions in `src/`, that it comes unless the animation is cut
is assumed. Which enemy a swing meets, who sees what first, and where an actor stands
are choices.

## 3. Runs

| Run | Instance | Shows |
|---|---|---|
| `core` | 3 players, sockets, IDs, rooms; requests AnswerId, Match, EndGame; up to 2 waiting `CLOSE`s | Players, rooms, seats and games stay consistent as long as clients only connect, identify, ready up, play, end and lose connections. |
| `requests` | 3 players, 2 sockets, IDs and rooms; all requests | The lists, the pool, seats, IDs and the absence of empty rooms survive every request in every state. |
| `faults` | 3 players, 2 sockets, IDs, rooms; Kick and Ping; sockets reused at once | What survives repeated closes and reused sockets. |
| `liveness` | 2 of everything; AnswerId, Invite, Ping | A dead connection does not hold a player for ever. |
| `sockets` | 2 sockets and 2 workers, or 1 socket and 3 workers; 2 connections; five sets of events | Which failures the socket layer survives, and that it implements `MessageQueue` and `Connections`. |
| `client` | one of eight parts: the client's threads, streams, UDP, replication, places, sessions, packets, the lobby | Each part keeps its promise. |
| `game` | one of thirteen parts, two clients each | Each part of the game keeps in step. |
| `ready_rooms` | violation | A room with a member that is not ready waits for a match. |
| `lost_players` | violation | A second close takes a lost player away from its game. |
| `invitations` | violation | A member of a party is moved by an invitation. |
| `ghost_invitations` | violation | An invitation of a player without a room kills the server. |
| `server_stream` | violation | A packet that arrives in three pieces is lost on the server. |

**Why the properties of the server are split over runs.** Each request was added to
the core alone, and each property kept where it still holds. What fails, and why:

- *Ping* (closing unresponsive players) repeats closes. A lost player is then
  removed while seated (`lost_players`), after which `SeatsOK`, `GameKeepsParty`
  and more fail.
- *Recycles* lets a socket be reused while a lost player or a ghost still points to
  it. The next connection is then taken for that player: `SeatsOK`, `UniqueIds`,
  `NoCrash` fail.
- *King* in a game can put a lost player in seat 0: `MasterPresent` fails, and the
  end of the game then leaves the connected player in seat 1 behind an empty seat 0.
- *Kick* in a game can leave a lost player alone in a room in state LOBBY, where the
  cleanup deletes it through the invalid iterator: `NoCrash` fails. With a reused
  socket even an empty room can stay: `NoEmptyRoom` fails in `faults`.
- *Reconnect* and *DebugRoom* put a player into a room without giving it the state
  of the room: `GameStatesAgree` fails.
- *Invite* with a ghost crashes (`ghost_invitations`).

The violation runs are those consequences that contradict a comment of the code;
`findings` in `PROJECT.json` quotes it.

**Events instead of runs.** In the other modules a behaviour chooses at its start what
may happen in it (`may`, a set of events from `...Events` of the cfg), and a property
says for which sets it holds. So one run covers many fault models, also those in which
only part of the properties hold.

**Bounds.**

- *Server.* Three players are the least with which two games, or a game and an
  intruder, compete; two sockets with three player objects are enough to lose, come
  back and be confused with oneself, since a removed object is reused. The pools
  are finite in the model and grow in the code; so a bounded instance can run out of
  objects where the program would go on, and deadlock is not checked. `MaxInbox`
  bounds the `CLOSE` messages waiting. Objects of one type are interchangeable, so
  the safety runs use symmetry; the liveness runs do not.
- *Sockets.* Two connections on two sockets, or one after the other on one, which is
  when a completion of the old one meets the new one. Three workers are enough for two
  receives and a close of one socket. One datum per connection, one close by the
  logic thread. Each set of faults is a start of its own; a set with two lets one fault meet
  data or another fault. In one of them `AcceptEx` fails by itself.
- *Client threads.* Two threads of each kind: a third is started only when the first
  has ended. One loss, two failures, two tries, one order.
- *Streams.* Lengths of two bytes, buffers of six, three packets: every cut of a
  packet, of its length, and of two packets in one buffer occurs.
- *UDP.* Two clients, two player objects, three connections, two sockets each: one
  client comes back while the other one takes a pooled object.
- *Replication, Transforms.* One object (objects do not affect each other), two writes
  and calls; places 0, 1, 3, 7 with gap 1 and limit 4 give moves below, at and above both.
- *Session.* Two losses, one end of a game; {Drop, Crash, Early, EndGame, Both} together
  was checked, too (526 thousand states).
- *Packets.* Two messages, all kinds, texts of 1 and 9 bytes, all eight byte orders; the
  two largest calls do not fit one buffer, so buffers are split.
- *Lobby.* Three players in rooms of two: invitations, kicks and moves compete. Three
  presses of a button (four also hold, 2.5 million states), one departure.
- *Game.* Two clients, always: the code has two heroes. Hits, presses and calls are bounded
  by 1 to 4; the numbers of the code (health, times, wave sizes) are scaled so that
  each threshold is passed. Larger instances were also run: `EnemyMind` with 3
  inputs (4.9 million states), `BossMind` (13 million), `Tutorial` with all its
  bounds one up (7.2 million), `CrusherAttacks` without bound on calls (3.3 million).

Deadlock is not checked: all these systems may stop, when inputs are used up or
everybody has left.

**Mutants.** The operators named `F_Something` beside `F` are plausible
bugs: a forgotten list, a swapped order, a missing call. For each property of each
passing run TLC finds the violation when the mutant takes the place of `F`.

## 4. Safety

**Server.** `ServerConsistent` is `RoomListsOK` (the three lists and the state agree),
`PlayersOK` (vector and pool share the objects out), `SeatsOK` (a seat holds a live
player, each in one seat of one room), `UniqueIds` and `NoEmptyRoom`.
`WaitingRoomsNotEmpty`, `MasterPresent`, `GameStatesAgree` and `NoCrash` are
invariants of their own. `GameKeepsParty`: nobody joins or leaves a running game; when
it ends the connected players stay together; it disappears only with its last
connection. `MatchingKeepsPlayers`: a match starts full games and loses no seated
player. `ReconnectResumes`: a lost player is resumed only by its own client, and
in the game it was lost from.

**Sockets.** `AlwaysAccepting`: exactly one accept is outstanding or in the hands of a
worker that will post the next, unless a client gives up before its accept is completed
(`AcceptError`) or the server says by `_bIsRun` that it has ended; and that happens only if
`AcceptEx` fails by itself, or because two threads closed at once, a close failed or a receive
context was reused, any of which can pool a socket that is still connected.
`PoolIsClean`: a pooled socket is there once, closed, and nothing refers to it, unless
two threads close at once (`ServerClose`), a close fails, or the receive context is
reused before its close completed. `DataReachesOwner`: bytes of a client go to the
player of that client (action property). `QueueIsFIFO`, `ConnectionsServed`:
refinements, the second under `OnlyClientsLeave`.

**Streams and packets.** `ArrivedAreHandled`: the client handles exactly the whole
packets that arrived, unless the buffer overflows or a receive ends inside a length. Of
the server the same fails at the second cut of one packet (`server_stream`).
`PacketsArrive`: requests, answers, calls and values are read as they were written,
in order, once, from buffers that keep their limits.

**UDP.** `RegisteredIsAttributed`: what a registered client sends is taken for its own,
unless a registration overtakes the TCP message that names the client, or is still under
way when its socket is gone.

**Client threads.** `JoinedOnce`: no thread joins itself or one that another one joins
(both would end the game), unless the main thread gives an order while the TCP
thread replaces a lost connection. With {Drop} and any of the orders it fails.

**Two clients.** `SlotsAgree`: when everything has arrived, exactly one of two connected
members takes itself for the master, unless a connection was lost before the game was
loaded; and who came back to a game has asked for its state. `PausedExactly`: a game
stands still exactly as long as one is away, unless both are lost at once (the
answer to the first that returns wakes it). `ScreensAgree`: the screens show the
parties as they are; a player's own button is right, and nobody is shown as ready who is
not, as long as the server does not take several requests in one turn before it looks
for matches (`Batch`). Somebody ready may be shown as not: a `RoomInfo` clears all flags.
`CallsSeeTheirState`: a call runs with the values it was made with, also when
synchronisation was stopped in between; not when a new message overtakes saved ones
(`Late`), one is thrown away (`Timeout`), or values go by UDP. `Converges`: two machines
never both have authority, and agree on it and on values; and an actor comes to stand where
its client has it when the last place that was sent arrived (`Transforms!Follows`).

**Game.**

| Property | Module | It says, and when it does not hold |
|---|---|---|
| `HealthOK` | `HeroHealth` | When both heroes lie, the game ends, though each fell before hearing of the other; health and shield are shown as they are after a hit. |
| `SkillsOK` | `Skills` | The fallen cannot attack, but for a Crusher whose ultimate goes on; who stands and does nothing may do everything, whatever overlapped. |
| `HitsCount` | `CrusherAttacks`, `EsperAttacks` | Both clients count the same damage; a swing that meets an enemy hurts it (two exceptions by early presses); the Esper's stack pays at four and falls to three; a drop that was cut floats for ever. |
| `EnemiesOK` | `Enemies` | Same enemies alive with the same health, and a finished wave brought each of its enemies once; not after a return when some had died (they are given out again), nor for a wave whose master was lost, or was lost to a client that still had enemies left of an earlier one. |
| `MindOK` | `EnemyMind` | A living enemy that was stopped has something that restarts it, and an attack waited for ends; not when a new master took over in between. |
| `BossAgrees` | `Boss` | Same life, health and immortality, unless he turned immortal again while the end of the last time was being told. |
| `BossFights` | `BossAgro`, `BossMind` | He does not stand before a fallen hero for more than two periods and one for each hit; what his mind waits for comes, and not before. |
| `BossOnce` | `Stages` | The film starts him once per client; the game is over only when he is dead. |
| `TutorialOK` | `Tutorial` | A player can always do what the lesson asks for (two exceptions: the Esper's ultimate did not kill all, `Tutorial.cpp:823`, or the Crusher's gauge is not full and no enemy is left to fill it, `:918`); afterwards heroes are free, mortal and in the shelter. |
| `LabOK` | `Lab` | Doors shut only with both heroes behind them, and no room ends before its enemies came; not when the slave went on alone. |
| `HeroesKept` | `Selector` | Each client plays a hero of its own and keeps it through losses, unless somebody changed its mind or was lost before the choice ended. |

The exceptions are what the code does, found by checking without them; each is named
in the comment of the property with its line.

## 5. Liveness and fairness

`DeadPlayersLeave` (`GameServerLiveness`): a listed player whose socket is not open, and
which is not marked lost, does not remain so for ever. A ghost (a player that lost its
connection in a lobby party and stays in the player manager) is removed only
because `Update` closes it again after the ping timeout.
Fairness: strong for a step of the logic thread or of a completion that
is enabled again and again, because `GameLogicThread` never stops, drains the whole
queue before each `Update`, and each `Update` looks at every player, so nothing
that waits is passed over; the operating system completes each pending receive
and close. Weak for matching, cleanup, end of `Update` and the restart by the
watchdog. Nothing is assumed of clients. To keep the check small the fair actions
are named by when they are enabled and by the variable that tells their steps
apart (`CloseHandled`, `GameStarted`, `RoomCleaned`).

`ConnectionsServed` (`SocketServer` implements `Connections`): each end of a connection is
handled in the end. Weak fairness for the logic thread, for each worker, and
for the system ending receives of lost connections and closes: the threads loop
without a condition, and take what there is.

`StaysOnline`, `OffEndsAll` (`ClientNetwork`): a client comes back and listens again
whenever it lost its connection; when the game gives up or quits, its threads end.
Weak fairness for each thread and for the main thread's turn, which Unreal calls
each tick. Nothing is assumed of the network, but the number of failures is bounded.
`StaysOnline` does not hold when the connection is lost while the client registers for
UDP (`EarlyDrop`: nobody notices), nor after an order for UDP that fails
(`UDPRequest` leaves `bOnServer` set, state FAILED and two UDP threads). `OffEndsAll`
does not hold when the game quits while the connecting thread is in its own
`ShutdownSocket`, which the second caller does not wait for.

## 6. Proofs

What a run shows on a small instance a theorem states for every value of the
constants: any numbers of players, rooms, sockets, workers, threads and clients, any health,
times and sizes, any number of hits, presses, calls and losses. Beside the named assumptions
on the constants, which TLC evaluates in every run, nothing is assumed; theorems about the
server that do not hold for every set of `Events` name in a hypothesis those they hold for.

Each proof has the same shape: an inductive invariant that implies the property, a lemma for
the initial states, a lemma per action, and the temporal step. Each invariant was checked
by TLC on the run's instance before it was proved. Where it explains the code it stands in the
module of the model (the sections "Why ...").

**Rooms and players** (`GameServer`).

- `TypeCorrect`: `Spec => []TypeOK`.
- `RoomListsCorrect`: `Spec => []RoomListsOK`. `RoomListsOK` is not
  inductive: `Erase` removes one occurrence, so a room listed twice would stay
  in `rooms` after `DeleteRoom` took it off the other lists. The inductive
  invariant is `IInv == TypeOK /\ RoomListsOK /\ Distinct(rooms)`, theorem
  `Inductive`.
- `WaitingRoomsCorrect`: `Spec => []WaitingRoomsNotEmpty`. Only
  `CheckAndRestateRoom` makes a room wait, and it does so for an empty room too
  (`CanMatching` is vacuously true): the proof has to show that each caller either
  leaves a player in the room or deletes it.
- `PlayersCorrect`: `NoJoins => (Spec => []PlayersOK)`: vector and pool share the player objects
  out, with Kick, Ping and reused sockets. `NoJoins` excludes what puts a player into a room
  by a steam ID (`Reconnect`, `DebugRoom`, `DebugGame`): with reused sockets a request can then
  come from a removed object.
- `ServerConsistentCorrect`: `Exclusive => (Spec => []ServerConsistent)`, for all requests.
  `Exclusive` is "no `Ping`, no reused sockets"; without it the property is false
  (section 3). Seats and IDs are not inductive by themselves: that the close of a socket takes
  the right player away once depends on how many `CLOSE` messages can still come for it.
  The invariant `Sound` adds that (`Served`): one while the player is connected, none once it
  is lost.
- `MasterPresentCorrect`, `GameStatesAgreeCorrect`, `NoCrashCorrect`, and the action properties
  `GameKeepsPartyCorrect`, `MatchingKeepsPlayersCorrect`, `ReconnectResumesCorrect`: the life of a
  game, for the requests of the run `core` (`Plays`), which are those under which they
  hold: each other request breaks one of them (section 3; `DebugGame` starts games that are
  not full). The invariant adds `Playing` (a
  room and its players agree on the game; a lost player is in a room) and `Known`
  (what the logic thread knows of the client at a socket). `Known` is needed for
  `CGameProcessor::AbsorbPlayer`: the connection that is absorbed leaves its room, which must not
  be a game.

For each operator of `Managers` a lemma says that it maps a good world to a good world and
what it does to rooms and seats; for each action a lemma composes them, as the handlers do.

**Sockets** (`SocketServer`), for any events and faults.

- `MessagesAreFIFO`: `FairSpec => QueueIsFIFO`, the refinement of `MessageQueue`. Each
  action appends one message to `queue`, takes the head of `current`, exchanges an
  empty `current` with `queue`, or leaves both alone; the last two are what a mapping
  to `current \o queue` must not see.
- `AlwaysAcceptingCorrect`: exactly one accept. It is in the system, completed, or in the
  hands of one worker, and each step hands it on (`AcceptInv`), but for the one that resets
  `isRun`. Without faults that step is impossible: the pool is clean (below), so the socket
  taken from it carries no connection.
- `PoolIsCleanCorrect`: the invariant gives each socket one place (pooled, outstanding,
  completed, in the hands of one worker, or lost), which determines its state and its
  connection (`Phase`).
- `DataReachesOwnerCorrect` (action property): the messages of one socket in the queue are, in
  order, those of one connection after the other (`Told`); which of them may still come follows
  from the place of the socket.
- `ConnectionsKeepOrder`: `Spec => ConnectionsInOrder`, the refinement of `Connections` without
  its liveness. What an `ACCEPT` in the queue announces has begun, and whomever the logic thread knows by
  a socket when it reaches a `CLOSE` for it has ended (`LinesInv`); the second needs that whom it
  will know when it has taken all messages has ended or is still carried by that socket.

**Client** (`ClientProofs`).

- `JoinedOnceHolds`: at most one thread holds the lock of `ShutdownSocket`, and the others are
  where the fields do not refer to a thread it joins. Without orders one thread at a time is
  in charge (`InCharge`); without losses the TCP threads only receive (`OnlyReceive`). With both
  the property is false.
- `RegisteredIsAttributedHolds`: no two players have a name or connection in common, and the
  address of a socket in use is at its own player only, not at pooled ones, which keep
  their addresses.
- `CallsSeeTheirStateHolds`, `ConvergesHolds`: one invariant (`RepState`) of two machines. A machine has saved
  exactly the messages that do not reach their object yet (`RepResting`). Authority over an object is
  given once, by one order, and both machines have it as the order says when it is handled
  (`RepOwned`). Nobody sends values to the owner; the other machine will have the owner's
  value when it has handled what is under way (`RepValued`), and a call in a queue will find
  the values it was made with (`RepRuns`). Each is kept by every message that is sent,
  received, saved, or taken up again by `Retry`; that its recursion ends is proved by a least
  number of messages for which it would not. Of a place (`MovGood`), the last datagram sent carries it.

**Streams** (`LobbyProofs`).

- `ArrivedAreHandledHolds`: of the stream so far, the packets that are there in whole were handled and the
  rest is saved (`StrAt`). The stream is the packets laid one behind the other (`StrLays`), `Walk` finds those
  in a piece that begins with one (`StrFinds`), and a receive that does not end inside a length field
  leaves such a piece (`StrWhere`). The recursions of the flattened stream and of `Walk` end by
  least counterexamples. It needs that packets fit into a buffer (`PacketAssumption`): the
  receiver takes a longer one for a bad length, and the server sends from buffers of the same size.

**Lobby** (`LobbyProofs`), for any players, requests and leaves.

- `ScreensAgreeHolds`: the invariant (`LobbyInv`) follows the mail to its end. The last room info
  in it, or the screen if there is none, is the room (`Told`, `Ends`). Without `Batch` a run of
  views leads from the screen through all messages (`Leads`) to one that fits the server
  (`Fits`), until the game starts (`Started`), and whoever waits alone for a game is ready
  (`Right`). It needs that a match is made before the next request: then no full room waits, so a
  member that joins or leaves never gives the others a state that they have not asked for.
  One lemma per operator of the room manager says which rooms it makes of which, whom it tells,
  and for whom nothing changes.

**Heroes** (`HeroesProofs`): these and the next ones for the run of all parts; a part never
becomes another one.

- `SkillsHold`: that who stands with nothing going on may do everything is not inductive: a
  skill that takes nothing and gives nothing back (`SkillFree`: the dash and the vitality shield)
  may be the last to end. The invariant (`SkillAwaited`) says that whoever has less than
  everything has a rush, or a skill that is not free, before it.
- `HealthHolds`: the last report of a hero's health in the queue is what its own client shows
  (`Reports`), and when both have fallen one of them still hears of it (`Ending`).
- `HeroesKeptHolds`: the master never has both heroes chosen from one seat (`Decided`), and what the
  slave will show when it has handled the calls before the one that ends its choice is what the
  master has decided (`WillShow`, `Followed`). After a loss the client that stayed is the master, and
  the other one is away, is told its hero, or knows it (`Staying`).
- `TutorialHolds` (from `TutorialGoesOn` in `TutorialProofs`, which holds for any lessons that begin with
  dash and primary, end with the ultimate and do not repeat, and any number of spawns): each client takes
  both heroes through their lessons with its own timers, its own enemies and names for them that need not
  agree. What keeps them together is that no client finishes a lesson of the other's hero before that
  one's own client does: whatever ends it there is told by a call (a dash, a kill, the end of the lesson) that the other
  one receives in order. So the invariant (`TutorialInv`) reads the calls under way: which lesson the other client is at, once it
  has handled them, which enemies it will still see, and what of the cooperation it has heard. With it no call of the
  other one takes a lesson, a skill or an enemy away from a player who still needs it. The gauges are a part of their
  own (`GaugeInv`): a hero's gauge counts on its own client, only its own ultimate empties it, and the last lesson of the Crusher is ended only by his
  own client with his gauge full, so he comes to the cooperation, which asks for his ultimate, with a full one. He can be
  left in that last lesson with a gauge that is not full, and the Esper after an ultimate that did not kill all; these
  are the two states named.
- `HitsCountHolds`: the damage counted on one client is that of the other one and of the calls under
  way (`Owes`). Of the swings (`SwingInv`), the number of the hit follows the part of the combination that
  is played (`Numbered`) and the trace is on between its two notifies (`Traces`), so that what it met it
  hurt (`Deals`). Of the stack (`StackInv`), its count is that of the hits (`Round`), a drop of her own
  floats between its two notifies (`Floats`), and on the other client it follows from the order of the
  calls (`Follows`, `Due`).

**Enemies, boss and stages** (`GameProofs`).

- `BossAgreesHolds`: what will be left of the health when the queues are empty is the same on
  both clients (`Remains`), a death is known or told (`Dying`), and the last call about the
  immortality in each queue says the same as long as none crossed (`Settling`).
- `BossFightsHold`: of the agro, how often a fallen hero may still be waited for (`Left`) and
  was, is bounded together; of the attacks, the mind waits for what is shown or was.
- `MindHolds`: a living enemy that stands has a reason, and its attack ends or is over (`WellOff`).
- `BossOnceHolds`: before the film, during it, and after its first end nobody is where it is
  called (`Gathered`), and whoever reaches the last door has seen both start the boss.
- `LabHolds`: the slave learns the state of the wave last (`Told`), and by the time its
  panel has hacked a while it knows that the wave of its phase runs (`SlaveWaits`).

**Only model-checked.** Liveness (`DeadPlayersLeave`, `StaysOnline`, `OffEndsAll`, and that of
`ConnectionsServed`): out of the prover's reach. `SlotsAgree`, `PausedExactly`, `PacketsArrive` and
`EnemiesOK`: they compute by folds over rooms, inboxes, buffers and pools of enemies. What one recursive
function does for every input was proved by least counterexamples (`Walk`, `Retry`, the
flattened stream); for these, one would be needed for each fold and each of its operators.

## 7. Not modelled, and the plan

Left out, and why:

- **Epoll server**: not built, and its calls do not match the current processors.
- **Log, configuration, debug console**: no state the other parts depend on.
- **Watchdog** (`Program.cs`): planned. Only its effect, a restart, is in `GameServer`. Its
  one hazard (the round counter) is the only one listed without a property.
- **Matching for `MAX_PLAYER` other than 2**: the code is compiled with 2.
- **Object pools** as concurrent queues: a library's.
- **The ends of animations, behaviour trees, levels and widgets**: binary assets. What the
  code calls on them is external in the map.
- **Movement, physics, cameras, effects, subtitles**: no state that a property needs; where
  movement matters (`Transforms`, `Stages`, `Lab`) it is a choice.
- **Spawning over the network**: no class is registered for it.
- **Values as text** (`SyncVarByString`): they go the way of other values.

Known simplifications: what one client receives in a tick counts as one buffer
(`Session`); self-invitations and inviters that left are excluded, and leaving is final
(`Lobby`); the 0.1 s check `_ReconnectJHNET_CHECK` is left out, as it finds nothing
in any behaviour without debug commands; the number of lessons and of spawns of the tutorial
is cut down (the lessons are alike); calls that only play a sound or show a text are
not sent.

Plan, in this order:

1. Watchdog, and the recovery of rooms after a restart: clients that come back in any
   order end in one room with the old master.
2. Composition of `Session` with `ClientNetwork`, and of `EnemyMind` with `Enemies`.
3. What the boss's missiles and bullets hit.
