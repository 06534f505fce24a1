-------------------------- MODULE MCPlayerSession --------------------------
(***************************************************************************)
(* PlayerSession for TLC: players, logins and passwords are                *)
(* interchangeable.                                                        *)
(***************************************************************************)
EXTENDS PlayerSession, TLC

Symmetry == Permutations(Players) \cup Permutations(Logins) \cup Permutations(Passwords)
=============================================================================
