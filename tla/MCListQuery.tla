---------------------------- MODULE MCListQuery ----------------------------
(* Model-checking instance of ListQuery. *)
EXTENDS ListQuery, TLC

\* Namespaces other than the default one are interchangeable, and conditions.
Symmetry == Permutations(Namespaces \ {Default}) \cup Permutations(Preds)
=============================================================================
