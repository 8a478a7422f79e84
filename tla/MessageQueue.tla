---------------------------- MODULE MessageQueue ----------------------------
(***************************************************************************)
(* What the message queue between the worker threads and the game logic    *)
(* thread promises: one queue, first in, first out.  Nothing posted is     *)
(* lost, duplicated or overtaken, although CMessageQueue keeps two queues  *)
(* and exchanges them.                                                     *)
(***************************************************************************)
EXTENDS Sequences

CONSTANT Message
VARIABLE fifo

Init == fifo = << >>

Enqueue == \E m \in Message : fifo' = Append(fifo, m)

Dequeue == fifo # << >> /\ fifo' = Tail(fifo)

Next == Enqueue \/ Dequeue

Spec == Init /\ [][Next]_fifo
=============================================================================
