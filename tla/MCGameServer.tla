---------------------------- MODULE MCGameServer ----------------------------
(***************************************************************************)
(* GameServer for TLC.  Objects of one type are interchangeable.  Rooms    *)
(* too: CreateRoom CHOOSEs among free rooms, which are all equal.          *)
(***************************************************************************)
EXTENDS GameServer, TLC

Interchangeable ==
    Permutations(Player) \cup Permutations(Room) \cup
    Permutations(Socket) \cup Permutations(SteamID)
=============================================================================
