---------------------------- MODULE ServerStream ----------------------------
(***************************************************************************)
(* CTCPReceiveProcessor::ReceiveData finds the packets in what a client    *)
(* sent; CPlayer::PushDelayData keeps the beginning of a packet that is    *)
(* not there in whole, PopDelayData puts it in front of what comes next.   *)
(***************************************************************************)
EXTENDS Framing

CONSTANTS PayloadLens,   \* lengths of the packets a client may send
          MaxPackets     \* bound: how many it sends

VARIABLES lens,       \* the packets of this client
          unread,     \* bytes not received yet
          delayed,    \* CPlayer::delayedTCPData, delayedTCPDataLen
          handled,    \* what was handed to the handlers
          open

vars == <<lens, unread, delayed, handled, open>>

Init ==
    /\ lens \in UNION {[1 .. n -> PayloadLens] : n \in 1 .. MaxPackets}
    /\ unread = Stream(lens)
    /\ delayed = << >> /\ handled = << >> /\ open = TRUE

\* What there is to parse: the buffer, how much of it counts, and what stays delayed.
PopDelayData(old, recv) ==
    LET all == old \o recv
    IN  IF Len(all) < BufSize
        THEN [buf |-> all, len |-> Len(recv), delayed |-> << >>]
        ELSE [buf |-> SubSeq(all, 1, BufSize), len |-> BufSize,
              delayed |-> SubSeq(all, BufSize + 1, Len(all))]

\* tail goes in front of what is delayed, which is moved by as many bytes as tail has.
PushDelayData(old, tail) ==
    LET n == Len(tail)
    IN  [i \in 1 .. n + Len(old) |->
           IF i <= n THEN tail[i]
           ELSE IF i <= 2 * n THEN old[i - n]
           ELSE IF i <= Len(old) THEN old[i]
           ELSE Stale]

\* A receive of k bytes; false makes the game logic close the connection.
ReceiveData(k, junk) ==
    /\ open
    /\ k \in 1 .. Len(unread)
    /\ unread' = SubSeq(unread, k + 1, Len(unread))
    /\ LET recv == SubSeq(unread, 1, k)
           in == IF delayed = << >> THEN [buf |-> recv, len |-> k, delayed |-> << >>]
                                    ELSE PopDelayData(delayed, recv)
           walk == Walk(in.buf, in.len, junk)
       IN  /\ handled' = handled \o walk.found
           /\ open' = (walk.stop # "bad")
           /\ delayed' = IF walk.stop = "cut"
                         THEN PushDelayData(in.delayed, SubSeq(in.buf, walk.at + 1, in.len))
                         ELSE in.delayed
    /\ UNCHANGED lens

Next == \E k \in 1 .. BufSize, junk \in {-1, 0, BufSize} : ReceiveData(k, junk)

Spec == Init /\ [][Next]_vars

\* Bytes that are kept are put together with those that follow: whatever is handled are the
\* packets that were sent, each in whole and in their order.
PacketsInOrder == InOrder(handled, lens)
=============================================================================
