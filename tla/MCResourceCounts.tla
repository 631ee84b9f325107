---------------------------- MODULE MCResourceCounts ----------------------------
(* The resources differ by what they count only, and so do the calls. *)
EXTENDS ResourceCounts, TLC
=============================================================================
