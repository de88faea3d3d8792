--------------------------- MODULE MCMovieService ---------------------------
(* The service in front of the aggregates of two movies at two nodes.       *)
EXTENDS MovieService, TLC

\* Nodes, movies and requests are interchangeable; only the safety run uses it.
Symmetry == Permutations(Nodes) \cup Permutations(Movies) \cup Permutations(Requests)
=============================================================================
