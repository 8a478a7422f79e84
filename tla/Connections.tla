----------------------------- MODULE Connections -----------------------------
(***************************************************************************)
(* What the socket layer promises the game logic: every TCP connection is  *)
(* announced once, its end is announced once, after its announcement and   *)
(* after it really ended, and neither is forgotten.                        *)
(***************************************************************************)
CONSTANT Conn
VARIABLES line,      \* line[c]: the connection itself
          served     \* served[c]: whether the logic thread has a player for it

vars == <<line, served>>

Init ==
    /\ line = [c \in Conn |-> "idle"]
    /\ served = [c \in Conn |-> "no"]

Connect(c) ==
    /\ line[c] = "idle"
    /\ line' = [line EXCEPT ![c] = "up"]
    /\ UNCHANGED served

Break(c) ==
    /\ line[c] = "up"
    /\ line' = [line EXCEPT ![c] = "down"]
    /\ UNCHANGED served

Serve(c) ==
    /\ line[c] # "idle" /\ served[c] = "no"
    /\ served' = [served EXCEPT ![c] = "yes"]
    /\ UNCHANGED line

Drop(c) ==
    /\ line[c] = "down" /\ served[c] = "yes"
    /\ served' = [served EXCEPT ![c] = "done"]
    /\ UNCHANGED line

Next == \E c \in Conn : Connect(c) \/ Break(c) \/ Serve(c) \/ Drop(c)

Spec == Init /\ [][Next]_vars
FairSpec == Spec /\ \A c \in Conn : WF_vars(Serve(c)) /\ WF_vars(Drop(c))
=============================================================================
