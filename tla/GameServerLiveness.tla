------------------------- MODULE GameServerLiveness -------------------------
(***************************************************************************)
(* What the game server does eventually, under the fairness its threads    *)
(* give:                                                                   *)
(*  - the logic thread (GameLogicThread) never stops: it empties its queue *)
(*    before every Update and every Update runs to its end and looks at    *)
(*    every player, so whatever is waiting or timed out again and again    *)
(*    when it comes round is dealt with (SF);                              *)
(*  - the worker threads get the completions of a socket that is closed.   *)
(* Nothing makes clients connect, send, leave, or keep still.              *)
(*                                                                         *)
(* An action under fairness is named here by when it is enabled and by the *)
(* change that distinguishes its steps from those of any other action of   *)
(* GameServer; the full action would be evaluated on every transition.     *)
(***************************************************************************)
EXTENDS GameServer

\* Steps of OnCloseMessage.
CloseHandled ==
    /\ pc = "run"
    /\ inbox # << >>
    /\ inbox' = Tail(inbox)

\* Steps of UpdateMatch.
GameStarted ==
    /\ pc \in {"run", "update"}
    /\ \E m \in Matching(World) : gameRooms' = gameRooms \cup {m[1]}
    /\ pc' = "update"

\* Steps of UpdateCleanup.
RoomCleaned ==
    /\ pc \in {"run", "update"}
    /\ Matching(World) = {} /\ Deserted(World) # {}
    /\ \/ pc' = "crashed" /\ rooms' = << >>
       \/ /\ pc' = "update"
          /\ \E r \in Deserted(World) : rooms' = Erase(rooms, r)

\* The connection of a listed player is over and the player is not marked lost.
Dead(p) ==
    /\ p \in Listed
    /\ info[p].state # "ConnectionLost"
    /\ info[p].socket \notin {s \in Socket : sock[s] = "open"}

Fairness ==
    /\ \A s \in Socket : /\ SF_vars(sock[s] = "closing" /\ RecvFails(s))
                          /\ SF_vars(CloseDone(s))
    /\ \A p \in Player : SF_vars(Dead(p) /\ UpdatePing(p))
    /\ SF_inbox(CloseHandled)
    /\ WF_gameRooms(GameStarted) /\ WF_rooms(RoomCleaned) /\ WF_vars(UpdateEnd)
    /\ WF_vars(Restart)

FairSpec == Spec /\ Fairness

\* A connection that ended is noticed: its player is removed, marked lost in its game,
\* or taken over by a new connection.  No player object is held by a dead socket forever.
DeadPlayersLeave == \A p \in Player : Dead(p) ~> ~Dead(p)
=============================================================================
