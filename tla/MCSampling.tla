---------------------------- MODULE MCSampling ----------------------------
(***************************************************************************)
(* Snakes on a grid, with a radius of 2.                                   *)
(***************************************************************************)
EXTENDS Sampling, Integers

CONSTANT Side   \* of the grid

MCPoints == (1 .. Side) \X (1 .. Side)

Square(x) == x * x

MCFar ==
  {<<p, q>> \in MCPoints \X MCPoints :
     Square(p[1] - q[1]) + Square(p[2] - q[2]) >= Square(2)}
=============================================================================
