------------------------------ MODULE JobQueue ------------------------------
(***************************************************************************)
(* The flush daemon's queue as its clients and its workers see it: jobs    *)
(* wait first-in first-out, an idle worker takes the oldest one and runs   *)
(* it, one job at a time.  A job may be queued again.                      *)
(***************************************************************************)
EXTENDS Sequences

CONSTANTS Jobs,     \* what can be queued
          Workers,  \* the flush threads
          None      \* "no job", not one of them: an idle worker

VARIABLES pending,  \* accepted and not taken yet, oldest first
          running   \* the job each worker is flushing, or None

Empty == /\ pending = << >>
         /\ running = [w \in Workers |-> None]

\* A job is queued behind the others.
Put(j) == /\ pending' = Append(pending, j)
          /\ UNCHANGED running

\* An idle worker takes the oldest job.
Take(w) == /\ running[w] = None
           /\ pending # << >>
           /\ running' = [running EXCEPT ![w] = Head(pending)]
           /\ pending' = Tail(pending)

\* A worker is through with its job, whether or not the copy succeeded.
Finish(w) == /\ running[w] # None
             /\ running' = [running EXCEPT ![w] = None]
             /\ UNCHANGED pending

Drained == /\ pending = << >>
           /\ \A w \in Workers : running[w] = None
=============================================================================
