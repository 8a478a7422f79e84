--------------------------- MODULE MCSocketServer ---------------------------
EXTENDS SocketServer

CONSTANTS s1, s2, w1, w2, w3

\* Two connections at a time, or one after the other on the same socket.
MCMachines == { [sockets |-> {s1, s2}, workers |-> {w1, w2}],
                [sockets |-> {s1}, workers |-> {w1, w2, w3}] }
=============================================================================
