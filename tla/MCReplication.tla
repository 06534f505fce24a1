--------------------------- MODULE MCReplication ---------------------------
(***************************************************************************)
(* Instances of Replication for TLC.                                       *)
(***************************************************************************)
EXTENDS Replication, TLC

\* Nothing tells the states of an entity apart but whether they are equal.
ContentSymmetry == Permutations(Contents)
=============================================================================
