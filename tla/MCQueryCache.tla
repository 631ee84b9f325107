---------------------------- MODULE MCQueryCache ----------------------------
(* Model-checking instance of QueryCache. *)
EXTENDS QueryCache, TLC

\* Calls are interchangeable: the module names none of them.
Symmetry == Permutations(Calls)
=============================================================================
