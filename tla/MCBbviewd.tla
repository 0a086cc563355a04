------------------------------ MODULE MCBbviewd ------------------------------
(* Instances of the flush daemon for TLC. *)
EXTENDS Bbviewd
=============================================================================
