---------------------------- MODULE MCEksTokens ----------------------------
(* One caller next to the registration and the two loops.                  *)
EXTENDS EksTokens
=============================================================================
