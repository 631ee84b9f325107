---------------------------- MODULE MCWorkloads ----------------------------
(* Model-checking instance of Workloads: two clients and one workload of   *)
(* any kind, shared or not.                                                *)
EXTENDS Workloads

CONSTANTS i1, i2

MCManifest == {[replicas |-> 2, image |-> i2]}
=============================================================================
