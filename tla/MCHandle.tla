------------------------------ MODULE MCHandle ------------------------------
(* Instances of the threads on one handle for TLC. *)
EXTENDS Handle
=============================================================================
