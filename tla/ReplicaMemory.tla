---------------------------- MODULE ReplicaMemory ----------------------------
(***************************************************************************)
(* What Scale, Stop and Restore (kom/ctl_scale.go) promise to a user who   *)
(* is alone on a workload: Stop remembers how many replicas ran, Restore   *)
(* brings that many back and forgets, and nothing else touches the memory  *)
(* except a manifest that replaces the whole object.                       *)
(***************************************************************************)
EXTENDS Naturals

CONSTANTS
    Workload,
    NoNote      \* no count is remembered

VARIABLES
    running,    \* running[w]: the replicas asked for
    memory,     \* memory[w]: the count to restore, or NoNote
    last        \* last[w]: the operation that w has seen last

vars == <<running, memory, last>>

Init ==
    /\ running \in [Workload -> Nat]
    /\ memory = [w \in Workload |-> NoNote]
    /\ last = [w \in Workload |-> "none"]

\* Any number may be asked for.
Ask(w) ==
    /\ running'[w] \in Nat
    /\ running' = [running EXCEPT ![w] = running'[w]]

Scale(w) ==
    /\ Ask(w)
    /\ UNCHANGED memory
    /\ last' = [last EXCEPT ![w] = "scale"]

Stop(w) ==
    /\ running[w] > 0
    /\ running' = [running EXCEPT ![w] = 0]
    /\ memory' = [memory EXCEPT ![w] = running[w]]
    /\ last' = [last EXCEPT ![w] = "stop"]

Restore(w) ==
    /\ running' = [running EXCEPT ![w] = IF memory[w] = NoNote THEN 1 ELSE memory[w]]
    /\ memory' = [memory EXCEPT ![w] = NoNote]
    /\ last' = [last EXCEPT ![w] = "restore"]

Replace(w) ==
    /\ Ask(w)
    /\ memory' = [memory EXCEPT ![w] = NoNote]
    /\ last' = [last EXCEPT ![w] = "replace"]

\* Everything else that is done to a workload.
Other(w) ==
    /\ last' = [last EXCEPT ![w] = "other"]
    /\ UNCHANGED <<running, memory>>

Next == \E w \in Workload : Scale(w) \/ Stop(w) \/ Restore(w) \/ Replace(w) \/ Other(w)

Spec == Init /\ [][Next]_vars
=============================================================================
