----------------------------- MODULE MCAggregate -----------------------------
(* Aggregate on one movie that up to two nodes run at the same time.        *)
EXTENDS Aggregate, TLC

\* The nodes are interchangeable, and so are the requests.
Symmetry == Permutations(Nodes) \cup Permutations(Requests)
=============================================================================
