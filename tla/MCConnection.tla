---------------------------- MODULE MCConnection ----------------------------
(* Connection on two interchangeable places.                               *)
EXTENDS Connection, TLC

Symmetry == Permutations(Conns)
============================================================================
