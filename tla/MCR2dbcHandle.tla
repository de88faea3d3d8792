---------------------------- MODULE MCR2dbcHandle ----------------------------
(* Three uses of connections to a database that accepts two.               *)
EXTENDS R2dbcHandle, TLC

\* The uses are interchangeable.
Symmetry == Permutations(Uses)
=============================================================================
