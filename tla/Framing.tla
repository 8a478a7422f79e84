------------------------------- MODULE Framing -------------------------------
(***************************************************************************)
(* Both ends of a TCP connection send packets one after the other, each    *)
(* with its length in front, and both have to find them again in a stream  *)
(* that arrives cut anywhere.  A byte is known by the packet it is from:   *)
(* bytes 1 .. LengthSize of a packet are its length field.                 *)
(***************************************************************************)
EXTENDS Integers, SequencesExt

CONSTANTS LengthSize,   \* sizeof(int)
          BufSize       \* PACKET_BUFSIZE

SizeAssumption == LengthSize \in Nat \ {0} /\ BufSize \in Nat /\ LengthSize < BufSize

Packet(p, len) == [i \in 1 .. LengthSize + len |-> [packet |-> p, at |-> i, len |-> len]]

\* The packets with these payload lengths, and the stream they make.
Packets(lens) == [p \in DOMAIN lens |-> Packet(p, lens[p])]
Stream(lens) == FlattenSeq(Packets(lens))

\* The memory behind a received buffer is whatever was there before.
Stale == [packet |-> 0, at |-> 0, len |-> 0]

\* IntDeserialize at a cursor: the length if the whole field is there, else whatever number the
\* bytes make.
LengthAt(buf, cursor, junk) ==
    IF /\ cursor + LengthSize <= Len(buf)
       /\ \A i \in 1 .. LengthSize : buf[cursor + i] = [buf[cursor + 1] EXCEPT !.at = i]
    THEN buf[cursor + 1].len
    ELSE junk

\* A cursor runs from packet to packet through the first n bytes of buf.  It stops at the end, at
\* a length that cannot be, or at a packet that is not there in whole.
BadLength(len) == len < 0 \/ len > BufSize

Walk(buf, n, junk) ==
    LET walk[c \in Nat] ==
            LET len == LengthAt(buf, c, junk)
                next == c + LengthSize + len
            IN  IF c >= n THEN [stop |-> "end", at |-> c, found |-> << >>]
                ELSE IF BadLength(len) THEN [stop |-> "bad", at |-> c, found |-> << >>]
                ELSE IF next > n THEN [stop |-> "cut", at |-> c, found |-> << >>]
                ELSE LET rest == walk[next]
                     IN  [rest EXCEPT !.found = << SubSeq(buf, c + 1, next) >> \o @]
    IN  walk[0]

\* All that is handled is what was sent, packet by packet.
InOrder(handled, lens) == IsPrefix(handled, Packets(lens))
=============================================================================
