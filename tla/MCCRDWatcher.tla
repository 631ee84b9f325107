---------------------------- MODULE MCCRDWatcher ----------------------------
(* Model-checking instance of CRDWatcher. *)
EXTENDS CRDWatcher
=============================================================================
