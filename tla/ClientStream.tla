---------------------------- MODULE ClientStream ----------------------------
(***************************************************************************)
(* UNetworkSystem::TCPRecvThread finds the packets in what the server      *)
(* sent: AddSavedData puts the saved beginning of a packet in front of     *)
(* what was received, DelayData saves what follows the last whole packet.  *)
(* The rest is enqueued and handled by RecvProc of the main thread.        *)
(***************************************************************************)
EXTENDS Framing

CONSTANTS PayloadLens,   \* lengths of the packets the server may send
          MaxPackets,    \* bound: how many it sends
          CutSets        \* the sets of awkward cuts that a behaviour may have

\* "Overflow": saved and received bytes do not fit in one buffer.  "Length": a receive ends inside
\* a length field, which is then read with stale bytes behind it.
Cut == {"Overflow", "Length"}
CutAssumption == CutSets \subseteq SUBSET Cut

\* The server sends from buffers of the same size.
PacketAssumption == PayloadLens \subseteq 0 .. BufSize /\ MaxPackets \in Nat

VARIABLES cuts, lens, unread,
          saved,         \* savedData; empty: null
          pooled,        \* what a buffer from _dataPool may still contain
          handled, running

vars == <<cuts, lens, unread, saved, pooled, handled, running>>

Init ==
    /\ cuts \in CutSets
    /\ lens \in UNION {[1 .. n -> PayloadLens] : n \in 1 .. MaxPackets}
    /\ unread = Stream(lens)
    /\ saved = << >> /\ pooled = << >> /\ handled = << >> /\ running = TRUE

Bytes(buf, from, to) == SubSeq(buf, from + 1, to)

\* Everything fits into one buffer.
Joined(recv) == [data |-> saved \o recv, saved |-> << >>, crash |-> FALSE]

\* It does not: the received bytes are searched for the packet at which it overflows, as if they
\* began with a packet; they are split behind the length of that packet.
Split(recv, junk) ==
    LET search[c \in Nat] ==
            LET len == LengthAt(recv, c, junk)
                behind == c + LengthSize
            IN  IF BadLength(len)
                THEN [data |-> pooled, saved |-> << >>, crash |-> FALSE]
                ELSE IF Len(saved) + behind + len < BufSize THEN search[behind + len]
                ELSE IF behind > Len(recv)              \* memcpy of a negative size
                THEN [data |-> << >>, saved |-> << >>, crash |-> TRUE]
                ELSE [data |-> saved \o Bytes(recv, 0, behind),
                      saved |-> Bytes(recv, behind, Len(recv)), crash |-> FALSE]
    IN  search[0]

AddSavedData(recv, junk) ==
    IF Len(saved) + Len(recv) > BufSize THEN Split(recv, junk) ELSE Joined(recv)

\* Mutant: the bytes behind the length of the cut packet are saved.
DelayData_WithoutLength(old, data, index) ==
    [data |-> Bytes(data, 0, index),
     saved |-> old \o Bytes(data, index + LengthSize, Len(data))]

\* What does not fit is dropped.
DelayData(old, data, index) ==
    [data |-> Bytes(data, 0, index),
     saved |-> IF Len(old) + Len(data) - index > BufSize THEN old
               ELSE old \o Bytes(data, index, Len(data))]

\* The buffer for what was received, with what was saved in front.
Filled(recv, junk) ==
    IF saved = << >> THEN [data |-> recv, saved |-> << >>, crash |-> FALSE] ELSE AddSavedData(recv, junk)

\* What of it is enqueued, and what is saved.
Searched(in, junk) ==
    LET walk == Walk(in.data, Len(in.data), junk)
    IN  IF walk.stop = "cut" THEN DelayData(in.saved, in.data, walk.at)
        ELSE [data |-> IF walk.stop = "bad" THEN << >> ELSE in.data, saved |-> in.saved]

\* RecvProc of the main thread: the packets in a buffer that was enqueued.
RecvProc(data, junk) == Walk(data, Len(data), junk).found

TCPRecvThread(k, junk) ==
    /\ running
    /\ k \in 1 .. Len(unread)
    /\ Len(saved) + k > BufSize => "Overflow" \in cuts
    /\ (k < Len(unread) /\ unread[k + 1].at \in 2 .. LengthSize) => "Length" \in cuts
    /\ unread' = SubSeq(unread, k + 1, Len(unread))
    /\ LET in == Filled(Bytes(unread, 0, k), junk)
           out == Searched(in, junk)
       IN  /\ running' = ~in.crash
           /\ saved' = out.saved
           /\ handled' = handled \o RecvProc(out.data, junk)
           /\ pooled' = out.data
    /\ UNCHANGED <<cuts, lens>>

Next == \E k \in 1 .. BufSize, junk \in {-1, 0} : TCPRecvThread(k, junk)

Spec == Init /\ [][Next]_vars

\* As long as no receive overflows the buffer or ends inside a length field, exactly the packets
\* that have arrived in whole are handled, in their order, wherever the stream was cut.
ArrivedAreHandled ==
    cuts = {} =>
        LET arrived == SubSeq(Stream(lens), 1, Len(Stream(lens)) - Len(unread))
        IN  handled = Walk(arrived, Len(arrived), -1).found
=============================================================================
