---------------------------- MODULE MCCollectives ----------------------------
(* Instances of the collective calls for TLC. *)
EXTENDS Collectives
=============================================================================
