------------------------- MODULE MCClusterRegistry -------------------------
(* Model-checking instance of ClusterRegistry. *)
EXTENDS ClusterRegistry, TLC

\* Calls and ids are interchangeable: the module names none of them.
Symmetry == Permutations(Calls) \cup Permutations(Ids)
=============================================================================
