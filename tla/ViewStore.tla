----------------------------- MODULE ViewStore -----------------------------
(***************************************************************************)
(* What the local file promises as the channel for a view: the worker is   *)
(* given every published view whole, once and in order.  LocalFile         *)
(* implements it with extended attributes that are written and read one by *)
(* one.                                                                    *)
(***************************************************************************)
EXTENDS Sequences

CONSTANTS Views, None

VARIABLES published,  \* views not yet fetched
          given       \* what the last fetch returned

Whole(v) == [dest |-> v, disp |-> v, etype |-> v, filetype |-> v]

Init == published = << >> /\ given = None

Publish(v) == /\ published' = Append(published, v)
              /\ UNCHANGED given

Fetch == /\ published # << >>
         /\ given' = Whole(Head(published))
         /\ published' = Tail(published)

Next == Fetch \/ \E v \in Views : Publish(v)

Safe == Init /\ [][Next]_<<published, given>>

Spec == Safe /\ WF_<<published, given>>(Fetch)
=============================================================================
