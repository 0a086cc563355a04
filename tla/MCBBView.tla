------------------------------ MODULE MCBBView ------------------------------
(* Values of BBView's constants for TLC. *)
EXTENDS BBView

\* One process, rank 0, and two views that share offset 2.
OneRank  == [p \in Procs |-> 0]
OneViews == [p \in Procs |-> {<<1, 2>>, <<2, 3>>}]
OneOwns  == [p \in Procs |-> Offsets]

\* Two processes; one sets two disjoint views, the other none.
First    == CHOOSE p \in Procs : TRUE
TwoRank  == [p \in Procs |-> IF p = First THEN 0 ELSE 1]
TwoViews == [p \in Procs |-> IF p = First THEN {<<1, 3>>, <<4>>} ELSE {}]
TwoOwns  == [p \in Procs |-> IF p = First THEN {1, 3, 4} ELSE {2}]
=============================================================================
