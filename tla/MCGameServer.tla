---------------------------- MODULE MCGameServer ----------------------------
(***************************************************************************)
(* GameServer for TLC: sessions are interchangeable, and so are players.   *)
(***************************************************************************)
EXTENDS GameServer, TLC

SessionSymmetry == Permutations(Sessions) \cup Permutations(Players)
=============================================================================
