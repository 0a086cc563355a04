----------------------------- MODULE FlushQueue -----------------------------
(***************************************************************************)
(* What the flush daemon promises to the processes that hand it buffered   *)
(* views: jobs go through a JobQueue, none enters it after the terminate   *)
(* command, and the daemon exits only when it was told to and is drained.  *)
(* Bbviewd shows that the threads, the mutex, the condition variable and   *)
(* the linked list of bbviewd.c implement this.                            *)
(***************************************************************************)
EXTENDS JobQueue

VARIABLES stopping, \* the terminate command was read
          stopped   \* the daemon exited

stopVars == <<stopping, stopped>>
vars     == <<pending, running, stopping, stopped>>

Init == Empty /\ stopping = FALSE /\ stopped = FALSE

Accept(j) == ~stopping /\ Put(j) /\ UNCHANGED stopVars

Begin(w) == Take(w) /\ UNCHANGED stopVars

End(w) == Finish(w) /\ UNCHANGED stopVars

Stop == /\ ~stopping
        /\ stopping' = TRUE
        /\ UNCHANGED <<pending, running, stopped>>

\* The daemon may exit once it is drained; nothing promises that it will.
Exit == /\ stopping
        /\ ~stopped
        /\ Drained
        /\ stopped' = TRUE
        /\ UNCHANGED <<pending, running, stopping>>

Next == \/ \E j \in Jobs : Accept(j)
        \/ \E w \in Workers : Begin(w) \/ End(w)
        \/ Stop
        \/ Exit

\* Some worker takes a waiting job, and a job that was taken ends.
Fairness == /\ WF_vars(\E w \in Workers : Begin(w))
            /\ \A w \in Workers : WF_vars(End(w))

SafeSpec == Init /\ [][Next]_vars
Spec == SafeSpec /\ Fairness
=============================================================================
