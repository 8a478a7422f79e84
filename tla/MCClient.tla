------------------------------- MODULE MCClient -------------------------------
(***************************************************************************)
(* The parts of the client, each checked on its own in the behaviours of   *)
(* one run: which part runs is chosen at the beginning.  Variables of the  *)
(* same name are shared, as only one part uses them; 0: not in use.        *)
(***************************************************************************)
EXTENDS Integers, Sequences, TLC

CONSTANTS
    InitThread, TcpThread, UdpThread, None, NetEvents, MaxFaults, MaxOrders, MaxDrops, MaxTries,
    LengthSize, BufSize, PayloadLens, MaxPackets, CutSets,
    Client, Player, NoOne, UdpEvents, MaxConnections, MaxSockets,
    Object, RepEvents, MaxWrites, MaxCalls,
    SessionEvents, MaxLosses, MaxGames,
    MaxString, SingleBuf, PacketBuf, TextSizes, MaxMessages,
    Member, BatchSets, MaxPresses, MaxLeaves,
    Kinds, Places, Gap, Limit, Steps, MaxMoves, MaxThrows

VARIABLES
    part, may,
    state, onServer, locker, hInit, hTcp, hUdp, at, ret, on, tries, faults, drops, orders,
    tcp, udp, saved,
    cuts, lens, unread, pooled, handled, running,
    inGame, players, info, open, connection, named, socket, registered, regs, answers,
    connections, sockets,
    machine, writes, calls,
    rooms, lost, held, request, inbox, pc, losses, games,
    big, wire, relay, sent, served, told, heard, called, ran,
    parties, status, asks, mail, screen, presses, leaves,
    kind, mover, shadow, up, down, relayed, last, moves, throws

Net == INSTANCE ClientNetwork WITH EventSets <- NetEvents
Stream == INSTANCE ClientStream
Udp == INSTANCE UDPRegistration WITH EventSets <- UdpEvents
Rep == INSTANCE Replication WITH EventSets <- RepEvents
Ses == INSTANCE Session WITH EventSets <- SessionEvents
Bytes == INSTANCE Packets WITH BufSize <- PacketBuf
Mov == INSTANCE Transforms
Lob == INSTANCE Lobby WITH Player <- Member, Nobody <- NoOne

ASSUME ClientAssumption ==
    /\ Net!NetworkAssumption /\ Stream!SizeAssumption /\ Stream!CutAssumption /\ Stream!PacketAssumption
    /\ Udp!RegistrationAssumption /\ Rep!ReplicationAssumption /\ Ses!SessionAssumption
    /\ Bytes!PacketsAssumption /\ Lob!LobbyAssumption /\ Mov!TransformsAssumption

netOnly == <<state, onServer, locker, hInit, hTcp, hUdp, at, ret, on, tries, faults, drops, orders>>
streamOnly == <<cuts, lens, unread, saved, pooled, handled, running>>
udpOnly == <<inGame, players, info, open, connection, named, socket, registered, regs, answers,
             connections, sockets>>
repOnly == <<machine, writes, calls>>
sesOnly == <<rooms, lost, held, request, inbox, pc, losses, games>>
bytesOnly == <<big, wire, relay, sent, served, told, heard, called, ran>>
lobbyOnly == <<parties, status, asks, mail, screen, presses, leaves>>
movOnly == <<kind, mover, shadow, up, down, relayed, last, moves, throws>>
vars == <<part, may, tcp, udp, netOnly, streamOnly, udpOnly, repOnly, sesOnly, bytesOnly, lobbyOnly,
          movOnly>>

NetOff ==
    /\ state = 0 /\ onServer = 0 /\ locker = 0 /\ hInit = 0 /\ hTcp = 0 /\ hUdp = 0 /\ at = 0
    /\ ret = 0 /\ on = 0 /\ tries = 0 /\ faults = 0 /\ drops = 0 /\ orders = 0
StreamOff ==
    /\ cuts = 0 /\ lens = 0 /\ unread = 0 /\ saved = 0 /\ pooled = 0 /\ handled = 0 /\ running = 0
UdpOff ==
    /\ inGame = 0 /\ players = 0 /\ info = 0 /\ open = 0 /\ connection = 0 /\ named = 0
    /\ socket = 0 /\ registered = 0 /\ regs = 0 /\ answers = 0 /\ connections = 0 /\ sockets = 0
RepOff == machine = 0 /\ writes = 0 /\ calls = 0
SesOff ==
    /\ rooms = 0 /\ lost = 0 /\ held = 0 /\ request = 0 /\ inbox = 0 /\ pc = 0
    /\ losses = 0 /\ games = 0
BytesOff ==
    /\ big = 0 /\ wire = 0 /\ relay = 0 /\ sent = 0 /\ served = 0 /\ told = 0 /\ heard = 0
    /\ called = 0 /\ ran = 0
LobbyOff ==
    /\ parties = 0 /\ status = 0 /\ asks = 0 /\ mail = 0 /\ screen = 0 /\ presses = 0 /\ leaves = 0
MovOff ==
    /\ kind = 0 /\ mover = 0 /\ shadow = 0 /\ up = 0 /\ down = 0 /\ relayed = 0 /\ last = 0
    /\ moves = 0 /\ throws = 0

Init ==
    \/ /\ part = "net" /\ Net!Init
       /\ StreamOff /\ UdpOff /\ RepOff /\ SesOff /\ BytesOff /\ LobbyOff /\ MovOff
    \/ /\ part = "stream" /\ Stream!Init /\ may = 0 /\ tcp = 0 /\ udp = 0
       /\ NetOff /\ UdpOff /\ RepOff /\ SesOff /\ BytesOff /\ LobbyOff /\ MovOff
    \/ /\ part = "udp" /\ Udp!Init /\ tcp = 0 /\ udp = 0
       /\ NetOff /\ StreamOff /\ RepOff /\ SesOff /\ BytesOff /\ LobbyOff /\ MovOff
    \/ /\ part = "rep" /\ Rep!Init
       /\ NetOff /\ StreamOff /\ UdpOff /\ SesOff /\ BytesOff /\ LobbyOff /\ MovOff
    \/ /\ part = "ses" /\ Ses!Init /\ tcp = 0 /\ udp = 0
       /\ NetOff /\ StreamOff /\ UdpOff /\ RepOff /\ BytesOff /\ LobbyOff /\ MovOff
    \/ /\ part = "bytes" /\ Bytes!Init /\ may = 0 /\ tcp = 0 /\ udp = 0
       /\ cuts = 0 /\ lens = 0 /\ unread = 0 /\ pooled = 0 /\ handled = 0 /\ running = 0
       /\ NetOff /\ UdpOff /\ RepOff /\ SesOff /\ LobbyOff /\ MovOff
    \/ /\ part = "lobby" /\ Lob!Init /\ tcp = 0 /\ udp = 0
       /\ NetOff /\ StreamOff /\ UdpOff /\ RepOff /\ SesOff /\ BytesOff /\ MovOff
    \/ /\ part = "move" /\ Mov!Init /\ may = 0 /\ tcp = 0 /\ udp = 0
       /\ NetOff /\ StreamOff /\ UdpOff /\ RepOff /\ SesOff /\ BytesOff /\ LobbyOff

Next ==
    \/ /\ part = "net" /\ Net!Next
       /\ UNCHANGED <<part, streamOnly, udpOnly, repOnly, sesOnly, bytesOnly, lobbyOnly, movOnly>>
    \/ /\ part = "stream" /\ Stream!Next
       /\ UNCHANGED <<part, may, tcp, udp, netOnly, udpOnly, repOnly, sesOnly, bytesOnly, lobbyOnly, movOnly>>
    \/ /\ part = "udp" /\ Udp!Next
       /\ UNCHANGED <<part, tcp, udp, netOnly, streamOnly, repOnly, sesOnly, bytesOnly, lobbyOnly, movOnly>>
    \/ /\ part = "rep" /\ Rep!Next
       /\ UNCHANGED <<part, netOnly, streamOnly, udpOnly, sesOnly, bytesOnly, lobbyOnly, movOnly>>
    \/ /\ part = "ses" /\ Ses!Next
       /\ UNCHANGED <<part, tcp, udp, netOnly, streamOnly, udpOnly, repOnly, bytesOnly, lobbyOnly, movOnly>>
    \/ /\ part = "bytes" /\ Bytes!Next
       /\ UNCHANGED <<part, may, tcp, udp, netOnly, udpOnly, repOnly, sesOnly, lobbyOnly, movOnly,
                      cuts, lens, unread, pooled, handled, running>>
    \/ /\ part = "lobby" /\ Lob!Next
       /\ UNCHANGED <<part, tcp, udp, netOnly, streamOnly, udpOnly, repOnly, sesOnly, bytesOnly, movOnly>>
    \/ /\ part = "move" /\ Mov!Next
       /\ UNCHANGED <<part, may, tcp, udp, netOnly, streamOnly, udpOnly, repOnly, sesOnly, bytesOnly,
                      lobbyOnly>>

\* The threads of the client go on, as in ClientNetwork.
Spec ==
    /\ Init /\ [][Next]_vars
    /\ WF_<<may, tcp, udp, netOnly>>(part = "net" /\ Net!MainStep)
    /\ \A i \in InitThread : WF_<<may, tcp, udp, netOnly>>(part = "net" /\ Net!InitStep(i))
    /\ \A t \in TcpThread : WF_<<may, tcp, udp, netOnly>>(part = "net" /\ Net!TcpStep(t))
    /\ \A u \in UdpThread : WF_<<may, tcp, udp, netOnly>>(part = "net" /\ Net!UdpStep(u))

\* UNetworkSystem: no thread joins itself or a thread that another one joins.
JoinedOnce == part = "net" => Net!JoinedOnce

\* It comes back whenever its connection is lost.
StaysOnline ==
    part = "net" /\ Net!Persists => []<>(part = "net" /\ Net!Online)

\* When the game has given up or quit, its threads end.
OffEndsAll ==
    part = "net" /\ Net!GivesUp => ((part = "net" /\ Net!Off) ~> (part = "net" /\ Net!AllEnded))

\* AddSavedData and DelayData: exactly the packets that have arrived in whole are handled.
ArrivedAreHandled == part = "stream" => Stream!ArrivedAreHandled

\* What a registered client sends by UDP is taken for its own.
RegisteredIsAttributed == part = "udp" => Udp!RegisteredIsAttributed

\* An RPC runs with the values of the SyncVars it was called with.
CallsSeeTheirState == part = "rep" => Rep!CallsSeeTheirState

\* The machines agree on authority and on values when nothing is under way, and an actor stands
\* where its client has it when the last place sent has arrived.
Converges == (part = "rep" => Rep!Converges) /\ (part = "move" => Mov!Follows)

\* Of two connected members of a room exactly one takes itself for the master.
SlotsAgree == part = "ses" => Ses!SlotsAgree

\* The game stands still exactly as long as the other player is away.
PausedExactly == part = "ses" => Ses!PausedExactly

\* What one side writes into a packet is what the other side reads from it.
PacketsArrive == part = "bytes" => Bytes!PacketsArrive

\* The lobby shows each player its party as the server has it.
ScreensAgree == part = "lobby" => Lob!ScreensAgree
=============================================================================
