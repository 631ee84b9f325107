----------------------------- MODULE MCNodeOps -----------------------------
(* Model-checking instance of NodeOps: two goroutines of which one drains  *)
(* and the other one changes unschedulable too, or which both change       *)
(* taints, or which both make a shell.                                     *)
EXTENDS NodeOps

CONSTANTS c1, c2

MCOps == {c1, c2}

MCCalls ==
    {r \in [MCOps -> Request] :
        \/ r[c1].op = "drain" /\ r[c2].op \in {"drain", "cordon", "uncordon"}
        \/ r[c1].op = "taint" /\ r[c2].op \in {"taint", "untaint"}
        \/ r[c1].op = "nodeShell" /\ r[c2].op = "kubectlShell"}
=============================================================================
