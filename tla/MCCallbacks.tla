---------------------------- MODULE MCCallbacks ----------------------------
(* Model-checking instance of Callbacks. *)
EXTENDS Callbacks, TLC

\* Before or After, with a name or "*", or neither.
OneConstraint ==
    {order \in [before : Constraint, after : Constraint] :
        Unset \in {order.before, order.after}}

\* Names are interchangeable: the module names none of them.
Symmetry == Permutations(Names)
=============================================================================
