-------------------------------- MODULE Packets --------------------------------
(***************************************************************************)
(* The bytes of packets: Serializer, PacketStruct and PacketStructMacro of *)
(* server and client, the arguments of RPCs (NetworkBaseMacro.h), and the  *)
(* buffers in which a client sends all packets of a tick (SendProc).       *)
(*                                                                         *)
(* A caller sends packets to the server, which parses them one after the   *)
(* other - no packet says where its fields end - and passes calls and      *)
(* SyncVars on to the callee.  The three may order their bytes in two ways.*)
(***************************************************************************)
EXTENDS Integers, SequencesExt

CONSTANTS MaxString,     \* MAX_STRING_BUF: what an FSerializableBuf of a client holds
          SingleBuf,     \* SINGLE_PACKET_BUFSIZE: what one of the server holds
          BufSize,       \* PACKET_BUFSIZE
          TextSizes,     \* lengths of names and texts
          MaxMessages    \* bound: messages sent

PacketsAssumption ==
    /\ MaxString \in Nat /\ SingleBuf >= MaxString
    /\ TextSizes \subseteq 1 .. MaxString - 21      \* a name and the arguments of a call fit into one
    /\ BufSize >= 3 * MaxString + 25                \* and the largest packet fits
    /\ MaxMessages \in Nat

Host == {"caller", "server", "callee"}

\* A byte is known by the value it is from and its place in it (a digit here); what no one has
\* written is Stale.  A value is a sequence: of numbers, or the bytes of a text.
Byte(v, i) == 10 * v + i
Stale == -1
Junk == -2
Number(v, w) == [i \in 1 .. w |-> Byte(v, i)]                     \* the highest byte first
Text(t, n) == [i \in 1 .. n |-> Byte(t, i)]
At(buf, c, n) == [i \in 1 .. n |-> IF c + i \in DOMAIN buf THEN buf[c + i] ELSE Stale]

\* The types of messages, whose numbers are sent, and their fields.
MessageType == <<"Echo", "Ping", "UDPReg", "TCPReconnectRequest", "UDPReconnectRequest", "UDPResponse",
    "RequestId", "AnswerId", "DebugRoomStart", "DebugGameStart", "RoomInfo", "RoomChangeState",
    "C_InviteRequest", "S_InviteRequest", "InviteAnswer", "InviteFailed", "SetPartyKing", "FriendKick",
    "MatchRequest", "MatchAnswer", "GameStart", "C_RPC", "S_RPC", "C_SyncVar", "S_SyncVar",
    "DisconnectSlot", "ReconnectSlot", "Reconnect", "S_EndGame", "C_EndGame", "ReconnectServer">>

Empty(kinds) == [k \in kinds |-> << >>]

LobbyStruct ==
    [Echo |-> <<"buf">>, AnswerId |-> <<"u64">>, C_InviteRequest |-> <<"u64">>, S_InviteRequest |-> <<"u64">>,
     InviteAnswer |-> <<"bool", "u64">>, RoomInfo |-> <<"slots">>, RoomChangeState |-> <<"int", "u64">>,
     InviteFailed |-> <<"buf">>, SetPartyKing |-> <<"int">>, FriendKick |-> <<"int">>,
     MatchRequest |-> <<"bool">>, MatchAnswer |-> <<"bool", "int">>]
        @@ Empty({"Ping", "RequestId", "GameStart", "DebugRoomStart", "DebugGameStart"})

GameStruct ==
    [C_RPC |-> <<"char", "buf", "buf", "buf">>, S_RPC |-> <<"buf", "buf", "buf">>,
     C_SyncVar |-> <<"buf", "buf", "buf">>, S_SyncVar |-> <<"buf", "buf", "buf">>,
     UDPReg |-> <<"u64">>, DisconnectSlot |-> <<"int">>, ReconnectSlot |-> <<"int">>,
     Reconnect |-> <<"slots">>, ReconnectServer |-> <<"slots", "bool", "u64">>]
        @@ Empty({"TCPReconnectRequest", "UDPReconnectRequest", "UDPResponse", "C_EndGame", "S_EndGame"})

\* The client declares its own.  Mutant: with two fields of one the other way round.
ClientLobbyStruct == LobbyStruct
ClientGameStruct_Swapped == [GameStruct EXCEPT !["ReconnectServer"] = <<"slots", "u64", "bool">>]
ClientGameStruct == GameStruct

Struct(h) == IF h = "server" THEN LobbyStruct @@ GameStruct ELSE ClientLobbyStruct @@ ClientGameStruct
-----------------------------------------------------------------------------
(* Values, written by a host into a buffer and read from one.               *)

VARIABLES
    big,       \* the hosts that keep the highest byte of a number first
    saved,     \* the packets of this tick, and earlier ones that did not fit (_savedPackets)
    wire,      \* a buffer on its way to the server
    relay,     \* the bytes on their way to the callee
    sent, served,     \* messages the caller saved, and the server made of them (history)
    told, heard,      \* messages the server sent, and the callee made of them (history)
    called, ran       \* the calls among them (history)

vars == <<big, saved, wire, relay, sent, served, told, heard, called, ran>>

Init ==
    /\ big \in SUBSET Host
    /\ saved = << >> /\ wire = << >> /\ relay = << >>
    /\ sent = << >> /\ served = << >> /\ told = << >> /\ heard = << >> /\ called = << >> /\ ran = << >>

\* The types of a fixed size: how many numbers, and how many bytes each.
Count == [int |-> 1, float |-> 1, u64 |-> 1, bool |-> 1, char |-> 1, slots |-> 2, vector |-> 3, transform |-> 9]
Width == [int |-> 4, float |-> 4, u64 |-> 8, bool |-> 1, char |-> 1, slots |-> 8, vector |-> 4, transform |-> 4]

Memory(h, b) == IF h \in big THEN b ELSE Reverse(b)         \* a number as it lies in the memory of h

Serialize(h, b) == IF h \in big THEN b ELSE Reverse(b)
Deserialize(h, b) == IF h \in big THEN b ELSE Reverse(b)

NumberSerialize(h, v, w) == Serialize(h, Memory(h, Number(v, w)))

NumberDeserialize(h, buf, c, w) ==
    LET b == Memory(h, Deserialize(h, At(buf, c, w)))
    IN  IF b = Number(b[1] \div 10, w) THEN b[1] \div 10 ELSE Junk

BufSerialize(h, b) == IF Len(b) >= SingleBuf THEN << >> ELSE NumberSerialize(h, Len(b), 4) \o b
StringSerialize(h, b) == NumberSerialize(h, Len(b), 4) \o b          \* of an FString, of any length

ArraySerialize(h, vs, w) == FlattenSeq([i \in DOMAIN vs |-> NumberSerialize(h, vs[i], w)])

TSerialize(h, type, v) ==
    IF type = "buf" THEN BufSerialize(h, v)
    ELSE IF type = "string" THEN StringSerialize(h, v) ELSE ArraySerialize(h, v, Width[type])

\* A read yields the value and the place behind it.
TextDeserialize(h, buf, c, limit) ==
    LET len == NumberDeserialize(h, buf, c, 4)
    IN  IF len < 0 \/ len >= limit THEN [v |-> << Stale >>, at |-> 2 * BufSize]
        ELSE [v |-> At(buf, c + 4, len), at |-> c + 4 + len]

ArrayDeserialize(h, buf, c, n, w) ==
    [v |-> [i \in 1 .. n |-> NumberDeserialize(h, buf, c + (i - 1) * w, w)], at |-> c + n * w]

TDeserialize(h, type, buf, c) ==
    IF type = "buf" THEN TextDeserialize(h, buf, c, IF h = "server" THEN SingleBuf ELSE MaxString)
    ELSE IF type = "string" THEN TextDeserialize(h, buf, c, SingleBuf)
    ELSE ArrayDeserialize(h, buf, c, Count[type], Width[type])

\* What a field is taken to need.
GetSizeOf(type, v) == IF type \in {"buf", "string"} THEN 4 + Len(v) ELSE Count[type] * Width[type]

\* Values of these types are written one behind the other, and read so.
WriteAll(h, types, vs) == FlattenSeq([i \in DOMAIN types |-> TSerialize(h, types[i], vs[i])])

ReadAll(h, types, buf, c) ==
    LET Next1(r, type) == LET got == TDeserialize(h, type, buf, r.at)
                          IN  [v |-> Append(r.v, got.v), at |-> got.at]
    IN  FoldLeft(Next1, [v |-> << >>, at |-> c], types)

GetSize(types, vs) == FoldLeft(LAMBDA n, i : n + GetSizeOf(types[i], vs[i]), 0, [i \in DOMAIN types |-> i])
-----------------------------------------------------------------------------
(* Packets.                                                                 *)

NumberOf(kind) == (CHOOSE n \in DOMAIN MessageType : MessageType[n] = kind) - 1

\* GetSize() bytes are sent of the buffer into which a packet was serialized.
Pack(h, m) ==
    LET types == Struct(h)[m.kind]
        buf == NumberSerialize(h, NumberOf(m.kind), 4) \o WriteAll(h, types, m.fields)
    IN  At(buf, 0, 4 + GetSize(types, m.fields))

WithLength(h, bytes) == NumberSerialize(h, Len(bytes), 4) \o bytes

\* The packets in a buffer: the fields of each say where the next one begins.
Parse(h, buf) ==
    LET parse[c \in Nat] ==
            LET n == NumberDeserialize(h, buf, c + 4, 4) + 1
                got == ReadAll(h, Struct(h)[MessageType[n]], buf, c + 8)
            IN  IF c >= Len(buf) THEN << >>
                ELSE IF n \notin DOMAIN MessageType THEN << [kind |-> "unknown", fields |-> << >>] >>
                ELSE << [kind |-> MessageType[n], fields |-> got.v] >> \o parse[got.at]
    IN  parse[0]
-----------------------------------------------------------------------------
(* Calls.  Their object, function and arguments are a buf each.             *)

\* Functions with these arguments; a SyncVar is a float.
Function == << << >>, <<"bool", "bool">>, <<"string", "vector", "int">>, <<"u64", "int", "transform">> >>
NameOf(f) == Text(f, f)
ObjectName(n) == Text(10, n)

Value(type, n) == IF type \in {"buf", "string"} THEN Text(11, n) ELSE [i \in 1 .. Count[type] |-> i]

\* The arguments of a call, with strings of n bytes.
Arguments(f, n) == [i \in DOMAIN Function[f] |-> Value(Function[f][i], n)]

SendRPCToServer(object, f, args) ==
    [kind |-> "C_RPC",
     fields |-> << <<0>>, StringSerialize("caller", object), StringSerialize("caller", NameOf(f)),
                   WriteAll("caller", Function[f], args) >>]

SendSyncVarToServer(object, v) ==
    [kind |-> "C_SyncVar",
     fields |-> << StringSerialize("caller", object), StringSerialize("caller", NameOf(1)),
                   TSerialize("caller", "float", v) >>]

\* The server passes the bytes on.
InGame_RPC(m) == [kind |-> "S_RPC", fields |-> Tail(m.fields)]
InGame_SyncVar(m) == [kind |-> "S_SyncVar", fields |-> m.fields]

Relayed(m) ==
    IF m.kind = "C_RPC" THEN << InGame_RPC(m) >> ELSE IF m.kind = "C_SyncVar" THEN << InGame_SyncVar(m) >> ELSE << >>

BufToFString(h, buf) == TextDeserialize(h, buf, 0, SingleBuf).v

\* A function takes its arguments only if they are as long as what came.
RunFunction(types, buf) ==
    LET got == ReadAll("callee", types, buf, 0)
    IN  IF got.at = Len(buf) THEN got.v ELSE << << Stale >> >>

\* What the callee does with a message: the calls it runs.
Runs(m) ==
    IF m.kind \notin {"S_RPC", "S_SyncVar"} THEN << >>
    ELSE LET name == BufToFString("callee", m.fields[2])
             f == {g \in DOMAIN Function : NameOf(g) = name}
             types == IF m.kind = "S_SyncVar" THEN <<"float">> ELSE Function[CHOOSE g \in f : TRUE]
         IN  IF f = {} THEN << >>
             ELSE << [object |-> BufToFString("callee", m.fields[1]), kind |-> m.kind, name |-> name,
                      args |-> RunFunction(types, m.fields[3])] >>
-----------------------------------------------------------------------------
(* The caller saves packets, and sends those of a tick in one buffer.       *)

Save(m, calls) ==
    /\ Len(sent) + Len(told) < MaxMessages
    /\ saved' = Append(saved, Pack("caller", m))
    /\ sent' = Append(sent, m) /\ called' = called \o calls
    /\ UNCHANGED <<big, wire, relay, served, told, heard, ran>>

SendCall ==
    \E n \in TextSizes, f \in DOMAIN Function :
        Save(SendRPCToServer(ObjectName(n), f, Arguments(f, n)),
             << [object |-> ObjectName(n), kind |-> "S_RPC", name |-> NameOf(f), args |-> Arguments(f, n)] >>)

SendSyncVar ==
    \E n \in TextSizes :
        Save(SendSyncVarToServer(ObjectName(n), <<7>>),
             << [object |-> ObjectName(n), kind |-> "S_SyncVar", name |-> NameOf(1), args |-> << <<7>> >>] >>)

\* Any other message; its texts have n bytes.
Plain(kind, n) ==
    LET types == Struct("server")[kind]
    IN  [kind |-> kind, fields |-> [i \in DOMAIN types |-> Value(types[i], n)]]

FromClient == {"Echo", "Ping", "UDPReg", "AnswerId", "DebugRoomStart", "DebugGameStart", "C_InviteRequest",
               "InviteAnswer", "SetPartyKing", "FriendKick", "MatchRequest", "C_EndGame", "ReconnectServer"}
FromServer == {"Echo", "Ping", "TCPReconnectRequest", "UDPReconnectRequest", "UDPResponse", "RequestId", "RoomInfo",
               "RoomChangeState", "S_InviteRequest", "InviteFailed", "MatchAnswer", "GameStart", "DisconnectSlot",
               "ReconnectSlot", "Reconnect", "S_EndGame"}

Send == \E kind \in FromClient : \E n \in IF kind = "Echo" THEN TextSizes ELSE {1} : Save(Plain(kind, n), << >>)

\* How many of the saved packets fit: their lengths count, and five more than there are.
Joins(packets) ==
    LET bytes(n) == Len(FlattenSeq(SubSeq(packets, 1, n)))
        Fit(n) == bytes(n) + 4 * (n - 1 + 5) < BufSize
    IN  CHOOSE n \in 0 .. Len(packets) : (\A k \in 1 .. n : Fit(k)) /\ (n = Len(packets) \/ ~Fit(n + 1))

SendProc ==
    /\ saved # << >> /\ wire = << >>
    /\ LET n == Joins(saved)
       IN  /\ n > 0
           /\ wire' = FlattenSeq([i \in 1 .. n |-> WithLength("caller", saved[i])])
           /\ saved' = SubSeq(saved, n + 1, Len(saved))
    /\ UNCHANGED <<big, relay, sent, served, told, heard, called, ran>>

Tell(ms) ==
    /\ told' = told \o ms
    /\ relay' = relay \o FlattenSeq([i \in DOMAIN ms |-> WithLength("server", Pack("server", ms[i]))])

ReceiveData ==
    /\ wire # << >> /\ wire' = << >>
    /\ LET ms == Parse("server", wire)
       IN  served' = served \o ms /\ Tell(FlattenSeq([i \in DOMAIN ms |-> Relayed(ms[i])]))
    /\ UNCHANGED <<big, saved, sent, heard, called, ran>>

\* The server sends a packet of its own.
ServerSend ==
    /\ Len(sent) + Len(told) < MaxMessages
    /\ \E kind \in FromServer : \E n \in IF "buf" \in Range(Struct("server")[kind]) THEN TextSizes ELSE {1} :
        Tell(<< Plain(kind, n) >>)
    /\ UNCHANGED <<big, saved, wire, sent, served, heard, called, ran>>

RecvProc ==
    /\ relay # << >> /\ relay' = << >>
    /\ LET ms == Parse("callee", relay)
       IN  heard' = heard \o ms /\ ran' = ran \o FlattenSeq([i \in DOMAIN ms |-> Runs(ms[i])])
    /\ UNCHANGED <<big, saved, wire, sent, served, told, called>>

Next == SendCall \/ SendSyncVar \/ Send \/ SendProc \/ ReceiveData \/ ServerSend \/ RecvProc

Spec == Init /\ [][Next]_vars
-----------------------------------------------------------------------------
\* Every message is understood by the other side as it was meant, and every call is run with the
\* arguments it was made with, in order and once, whatever the byte orders, the packets that share
\* its buffer and the lengths of its texts; no buffer is longer than it may be, and no packet
\* too long to be sent at all.
PacketsArrive ==
    /\ IsPrefix(served, sent) /\ IsPrefix(heard, told) /\ IsPrefix(ran, called)
    /\ Len(wire) <= BufSize
    /\ saved # << >> => Joins(saved) > 0
=============================================================================
