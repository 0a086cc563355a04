------------------------------- MODULE Bbviewd -------------------------------
(***************************************************************************)
(* The flush daemon, bbviewd.c: one listener thread that accepts requests  *)
(* from a Unix socket, a linked list of jobs guarded by q_mtx and q_cv,    *)
(* worker threads that take jobs from it, and the shutdown protocol that   *)
(* the "bbviewd wait" client starts with the "terminate" command.          *)
(*                                                                         *)
(* A request is one connection: a job (the flush of one buffered view) or  *)
(* a wait client.  The copy a worker makes is one step here, with its      *)
(* outcome; BBView.tla opens it up.                                        *)
(***************************************************************************)
EXTENDS Integers, Sequences, FiniteSets

CONSTANTS Workers,  \* the worker threads
          Jobs,     \* flush requests, one per connection made by a flush
          Waits,    \* "bbviewd wait" clients
          NULL,     \* the null pointer
          Backlog,  \* connections the socket queues before accept
          Faults    \* the failures the environment may inject

FaultKinds == {"accept", "calloc", "hangup"}

ASSUME DaemonAssumption ==
  /\ IsFiniteSet(Workers)
  /\ Workers # {}
  /\ Jobs \cap Waits = {}
  /\ NULL \notin Jobs \cup Waits
  /\ Backlog \in Nat \ {0}
  /\ Faults \subseteq FaultKinds

Requests == Jobs \cup Waits

VARIABLES
  client,         \* where each client program stands
  conns,          \* connections the listener has not accepted, oldest first
  lpc,            \* control point of the main thread
  cur,            \* the connection it serves (cfd, later term_client_fd)
  shutting_down,
  active_workers,
  q_head, q_tail,
  next,           \* the next field of each struct job
  wpc,            \* control point of each worker thread
  job,            \* the path each worker copied out of the queue
  accepted,       \* history: jobs in the order they entered the list
  started,        \* history: jobs in the order they left it
  outcome         \* what became of each job

clientVars == <<client, conns>>
listVars   == <<q_head, q_tail, next>>
workerVars == <<wpc, job, active_workers>>
histVars   == <<accepted, started, outcome>>
vars == <<client, conns, lpc, cur, shutting_down, active_workers, q_head,
          q_tail, next, wpc, job, accepted, started, outcome>>

ClientStates   == {"idle", "connected", "sent", "failed", "done"}
ListenerStates == {"accept", "read", "enqueue", "broadcast", "drain",
                   "close", "join", "exited"}
WorkerStates   == {"start", "dequeue", "towait", "waiting", "run", "leaving",
                   "exited"}
Outcomes       == {"none", "dropped", "flushed", "failed"}

Types ==
  /\ client \in [Requests -> ClientStates]
  /\ conns \in Seq(Requests)
  /\ lpc \in ListenerStates
  /\ cur \in Requests \cup {NULL}
  /\ shutting_down \in BOOLEAN
  /\ active_workers \in Int
  /\ q_head \in Jobs \cup {NULL}
  /\ q_tail \in Jobs \cup {NULL}
  /\ next \in [Jobs -> Jobs \cup {NULL}]
  /\ wpc \in [Workers -> WorkerStates]
  /\ job \in [Workers -> Jobs \cup {NULL}]
  /\ accepted \in Seq(Jobs)
  /\ started \in Seq(Jobs)
  /\ outcome \in [Jobs -> Outcomes]

\* active_workers counts threads: it is never negative and never more than
\* the threads there are (worker_fn adds and subtracts it once each).
TypeOK == Types /\ active_workers \in 0..Cardinality(Workers)

\* The socket is bound and the threads are created before the listener loop;
\* a thread that was created need not have run its first statement.
Init ==
  /\ client = [r \in Requests |-> "idle"]
  /\ conns = << >>
  /\ lpc = "accept"
  /\ cur = NULL
  /\ shutting_down = FALSE
  /\ active_workers = 0
  /\ q_head = NULL
  /\ q_tail = NULL
  /\ next = [j \in Jobs |-> NULL]
  /\ wpc = [w \in Workers |-> "start"]
  /\ job = [w \in Workers |-> NULL]
  /\ accepted = << >>
  /\ started = << >>
  /\ outcome = [j \in Jobs |-> "none"]

-----------------------------------------------------------------------------
(* Faulty forms of definitions below, each with one plausible bug; the      *)
(* specification does not use them.                                        *)

\* q_mtx is not held from the test of the list to the sleep.
UnheldMutexFree == TRUE

\* The new job is linked and nobody is told.
NoSignal(pc) == wpc' = pc

\* The new job goes to the front, as on a stack.
PushFront(j) == /\ q_head' = j
                /\ q_tail' = IF q_tail = NULL THEN j ELSE q_tail
                /\ next' = [next EXCEPT ![j] = q_head]

\* dequeue forgets to reset q_tail when it empties the list.
DanglingTail == q_tail

\* The flag alone makes a worker leave, whatever the list holds.
LeaveAtOnce == shutting_down

\* pthread_cond_signal in place of the broadcast.
WakeOne == IF \E w \in Workers : wpc[w] = "waiting"
           THEN [wpc EXCEPT ![CHOOSE w \in Workers : wpc[w] = "waiting"] = "dequeue"]
           ELSE wpc

\* A worker that starts is not counted.
NotCounted == active_workers

\* The listener answers without polling active_workers.
NoPoll == TRUE
-----------------------------------------------------------------------------
(* Clients: mca_io_bbview_file_flush for a job, "bbviewd wait" for the     *)
(* others.                                                                 *)

SocketOpen == lpc \notin {"join", "exited"}

\* connect() blocks while the backlog is full.
Connect(r) ==
  /\ client[r] = "idle"
  /\ SocketOpen
  /\ Len(conns) < Backlog
  /\ client' = [client EXCEPT ![r] = "connected"]
  /\ conns' = Append(conns, r)
  /\ UNCHANGED <<lpc, cur, shutting_down, listVars, workerVars, histVars>>

\* connect() finds no listener: a flush returns OMPI_ERROR, wait exits.
Refused(r) ==
  /\ client[r] = "idle"
  /\ ~SocketOpen
  /\ client' = [client EXCEPT ![r] = "failed"]
  /\ UNCHANGED <<conns, lpc, cur, shutting_down, listVars, workerVars, histVars>>

\* The path or "terminate\n" is written.  A flush returns OMPI_SUCCESS here,
\* before anything was read; a wait client goes on to read the answer.
Send(r) ==
  /\ client[r] = "connected"
  /\ client' = [client EXCEPT ![r] = "sent"]
  /\ UNCHANGED <<conns, lpc, cur, shutting_down, listVars, workerVars, histVars>>

\* write() fails or the process dies between connect and write.
HangUp(r) ==
  /\ "hangup" \in Faults
  /\ client[r] = "connected"
  /\ client' = [client EXCEPT ![r] = "failed"]
  /\ UNCHANGED <<conns, lpc, cur, shutting_down, listVars, workerVars, histVars>>
-----------------------------------------------------------------------------
(* The queue.  A critical section is one step, except that a worker keeps  *)
(* q_mtx from finding the list empty until pthread_cond_wait put it to     *)
(* sleep: shutting_down and the broadcast do not take q_mtx.               *)

MutexFree == \A w \in Workers : wpc[w] # "towait"

Sleepers == {w \in Workers : wpc[w] = "waiting"}

\* pthread_cond_signal: one waiter leaves the condition variable.
Signal(pc) ==
  \/ Sleepers = {} /\ wpc' = pc
  \/ \E w \in Sleepers : wpc' = [pc EXCEPT ![w] = "dequeue"]

Link(j) ==
  IF q_tail = NULL
  THEN q_head' = j /\ q_tail' = j /\ next' = next
  ELSE q_head' = q_head /\ q_tail' = j /\ next' = [next EXCEPT ![q_tail] = j]

TailAfterPop == IF next[q_head] = NULL THEN NULL ELSE q_tail
-----------------------------------------------------------------------------
(* The listener, which is the main thread.                                 *)

Accept ==
  /\ lpc = "accept"
  /\ conns # << >>
  /\ cur' = Head(conns)
  /\ conns' = Tail(conns)
  /\ lpc' = "read"
  /\ UNCHANGED <<client, shutting_down, listVars, workerVars, histVars>>

\* accept() fails for good: the loop ends, and shutting_down stays false.
AcceptFails ==
  /\ "accept" \in Faults
  /\ lpc = "accept"
  /\ lpc' = "close"
  /\ UNCHANGED <<clientVars, cur, shutting_down, listVars, workerVars, histVars>>

\* read() blocks until the client wrote or hung up (n <= 0).
ReadNothing ==
  /\ lpc = "read"
  /\ client[cur] = "failed"
  /\ lpc' = "accept"
  /\ cur' = NULL
  /\ UNCHANGED <<clientVars, shutting_down, listVars, workerVars, histVars>>

ReadPath ==
  /\ lpc = "read"
  /\ client[cur] = "sent"
  /\ cur \in Jobs
  /\ lpc' = "enqueue"
  /\ UNCHANGED <<clientVars, cur, shutting_down, listVars, workerVars, histVars>>

ReadTerminate ==
  /\ lpc = "read"
  /\ client[cur] = "sent"
  /\ cur \in Waits
  /\ shutting_down' = TRUE
  /\ lpc' = "broadcast"
  /\ UNCHANGED <<clientVars, cur, listVars, workerVars, histVars>>

Enqueue ==
  /\ lpc = "enqueue"
  /\ MutexFree
  /\ Link(cur)
  /\ Signal(wpc)
  /\ accepted' = Append(accepted, cur)
  /\ lpc' = "accept"
  /\ cur' = NULL
  /\ UNCHANGED <<clientVars, shutting_down, active_workers, job, started, outcome>>

\* calloc fails: the job is dropped with a log line.
EnqueueNoMemory ==
  /\ "calloc" \in Faults
  /\ lpc = "enqueue"
  /\ outcome' = [outcome EXCEPT ![cur] = "dropped"]
  /\ lpc' = "accept"
  /\ cur' = NULL
  /\ UNCHANGED <<clientVars, shutting_down, listVars, workerVars, accepted, started>>

WakeAll == [w \in Workers |-> IF wpc[w] = "waiting" THEN "dequeue" ELSE wpc[w]]

\* pthread_cond_broadcast, without q_mtx.
Broadcast ==
  /\ lpc = "broadcast"
  /\ wpc' = WakeAll
  /\ lpc' = "drain"
  /\ UNCHANGED <<clientVars, cur, shutting_down, active_workers, job, listVars, histVars>>

NoActiveWorker == active_workers <= 0

\* The polling loop reads zero: the wait client gets its "done".
Drained ==
  /\ lpc = "drain"
  /\ NoActiveWorker
  /\ client' = [client EXCEPT ![cur] = "done"]
  /\ lpc' = "close"
  /\ cur' = NULL
  /\ UNCHANGED <<conns, shutting_down, listVars, workerVars, histVars>>

\* Closing the socket resets what nobody accepted: a client that has not
\* written yet fails, what the others wrote is lost.
CloseSocket ==
  /\ lpc = "close"
  /\ client' = [r \in Requests |->
                  IF client[r] = "connected" THEN "failed" ELSE client[r]]
  /\ conns' = << >>
  /\ lpc' = "join"
  /\ UNCHANGED <<cur, shutting_down, listVars, workerVars, histVars>>

\* pthread_join of every worker, unlink and exit.
Join ==
  /\ lpc = "join"
  /\ \A w \in Workers : wpc[w] = "exited"
  /\ lpc' = "exited"
  /\ UNCHANGED <<clientVars, cur, shutting_down, listVars, workerVars, histVars>>
-----------------------------------------------------------------------------
(* The workers.                                                            *)

CountUp == active_workers + 1

Start(w) ==
  /\ wpc[w] = "start"
  /\ active_workers' = CountUp
  /\ wpc' = [wpc EXCEPT ![w] = "dequeue"]
  /\ UNCHANGED <<clientVars, lpc, cur, shutting_down, listVars, job, histVars>>

\* dequeue() pops the head, copies its path and frees it.
Take(w) ==
  /\ wpc[w] = "dequeue"
  /\ MutexFree
  /\ q_head # NULL
  /\ job' = [job EXCEPT ![w] = q_head]
  /\ started' = Append(started, q_head)
  /\ q_head' = next[q_head]
  /\ q_tail' = TailAfterPop
  /\ wpc' = [wpc EXCEPT ![w] = "run"]
  /\ UNCHANGED <<clientVars, lpc, cur, shutting_down, active_workers, next,
                 accepted, outcome>>

MayLeave == q_head = NULL /\ shutting_down

\* dequeue() returns 0: the worker leaves its loop.
GiveUp(w) ==
  /\ wpc[w] = "dequeue"
  /\ MutexFree
  /\ MayLeave
  /\ wpc' = [wpc EXCEPT ![w] = "leaving"]
  /\ UNCHANGED <<clientVars, lpc, cur, shutting_down, active_workers, job,
                 listVars, histVars>>

\* The list is empty and the flag was read false: the worker is going to
\* sleep, and holds q_mtx until it does.
FindEmpty(w) ==
  /\ wpc[w] = "dequeue"
  /\ MutexFree
  /\ q_head = NULL
  /\ ~shutting_down
  /\ wpc' = [wpc EXCEPT ![w] = "towait"]
  /\ UNCHANGED <<clientVars, lpc, cur, shutting_down, active_workers, job,
                 listVars, histVars>>

\* pthread_cond_wait blocks and releases q_mtx in one step.
Sleep(w) ==
  /\ wpc[w] = "towait"
  /\ wpc' = [wpc EXCEPT ![w] = "waiting"]
  /\ UNCHANGED <<clientVars, lpc, cur, shutting_down, active_workers, job,
                 listVars, histVars>>

\* pthread_cond_wait may return unasked, or a signal may wake more than one.
SpuriousWakeup(w) ==
  /\ wpc[w] = "waiting"
  /\ wpc' = [wpc EXCEPT ![w] = "dequeue"]
  /\ UNCHANGED <<clientVars, lpc, cur, shutting_down, active_workers, job,
                 listVars, histVars>>

Record(w) == \E o \in {"flushed", "failed"} : outcome' = [outcome EXCEPT ![job[w]] = o]

\* One turn of worker_fn's loop body: the job is copied, or it fails at the
\* extended attribute, at stat or in execute, whose result nobody looks at.
Run(w) ==
  /\ wpc[w] = "run"
  /\ Record(w)
  /\ job' = [job EXCEPT ![w] = NULL]
  /\ wpc' = [wpc EXCEPT ![w] = "dequeue"]
  /\ UNCHANGED <<clientVars, lpc, cur, shutting_down, active_workers, listVars,
                 accepted, started>>

Leave(w) ==
  /\ wpc[w] = "leaving"
  /\ active_workers' = active_workers - 1
  /\ wpc' = [wpc EXCEPT ![w] = "exited"]
  /\ UNCHANGED <<clientVars, lpc, cur, shutting_down, listVars, job, histVars>>
-----------------------------------------------------------------------------
ClientStep(r) == Connect(r) \/ Refused(r) \/ Send(r) \/ HangUp(r)

Listener == \/ Accept \/ ReadNothing \/ ReadPath \/ ReadTerminate
            \/ Enqueue \/ EnqueueNoMemory \/ Broadcast \/ Drained
            \/ CloseSocket \/ Join

Dequeue(w) == Take(w) \/ GiveUp(w) \/ FindEmpty(w)

Worker(w) == Start(w) \/ Dequeue(w) \/ Sleep(w) \/ Run(w) \/ Leave(w)

Next == \/ \E r \in Requests : ClientStep(r)
        \/ Listener \/ AcceptFails
        \/ \E w \in Workers : Worker(w) \/ SpuriousWakeup(w)

\* Threads are scheduled, and a thread that keeps asking for q_mtx gets it.
\* A client that connected goes on to write or to fail.  Nothing wakes a
\* worker spuriously for certain and accept() need not fail.
Fairness ==
  /\ WF_vars(Listener)
  /\ SF_vars(Enqueue)
  /\ \A w \in Workers : WF_vars(Start(w) \/ Sleep(w) \/ Run(w) \/ Leave(w))
  /\ \A w \in Workers : SF_vars(Dequeue(w))
  /\ \A r \in Requests : WF_vars(Send(r) \/ HangUp(r))

SafeSpec == Init /\ [][Next]_vars
Spec == SafeSpec /\ Fairness
-----------------------------------------------------------------------------
(* Correctness.                                                            *)

NPending == Len(accepted) - Len(started)

\* Workers take jobs in the order the listener queued them, none is skipped
\* and none is taken twice (enqueue appends at q_tail, dequeue pops q_head).
QueueIsFifo ==
  /\ Len(started) <= Len(accepted)
  /\ \A i \in 1..Len(started) : started[i] = accepted[i]

\* The linked list is exactly the jobs that were queued and not yet taken:
\* q_head is the oldest, next leads from each to its successor and ends at
\* q_tail, and neither pointer refers to a job dequeue has freed.
ListIsPending ==
  LET first == Len(started) + 1
      last  == Len(accepted)
  IN /\ q_head = IF first <= last THEN accepted[first] ELSE NULL
     /\ q_tail = IF first <= last THEN accepted[last] ELSE NULL
     /\ \A i \in first..last :
          next[accepted[i]] = IF i < last THEN accepted[i + 1] ELSE NULL

\* While a job is queued some worker is awake to take it, so no wakeup for a
\* job is lost: enqueue signals under q_mtx, and a worker goes to sleep or
\* leaves only with an empty list (the while and the if of dequeue).
NoLostSignal ==
  q_head # NULL => \E w \in Workers : wpc[w] \in {"start", "dequeue", "run"}

\* A worker leaves its loop only after the terminate command and when the
\* list is empty, and nothing is queued behind its back afterwards
\* (dequeue returns 0; the listener stops reading requests).
ExitOnlyDrained ==
  (\E w \in Workers : wpc[w] \in {"leaving", "exited"})
    => shutting_down /\ q_head = NULL /\ lpc # "enqueue"

\* When the wait client is told "done", every queued job has been run, unless
\* not one worker thread has executed its first statement yet: then
\* active_workers is 0 for the wrong reason (listener_loop polls it).
DoneIsHonest ==
  [][\A v \in Waits : client[v] # "done" /\ client'[v] = "done"
       => \/ \A i \in 1..Len(accepted) : outcome[accepted[i]] # "none"
          \/ \A w \in Workers : wpc[w] = "start"]_vars

GaveUp == lpc \in {"close", "join", "exited"} /\ ~shutting_down

\* A flush that returned OMPI_SUCCESS before any wait client connected has
\* its job attempted, or dropped for lack of memory; only a failed accept()
\* loses it.  The backlog is first-in first-out and workers drain the list
\* even when the daemon stops.
AckedJobsRun ==
  \A j \in Jobs : (client[j] = "sent" /\ \A v \in Waits : client[v] = "idle")
                    ~> (outcome[j] # "none" \/ GaveUp)

\* A job that entered the list is run, also during shutdown and after the
\* listener gave up.
QueuedJobsRun ==
  \A j \in Jobs : (\E i \in 1..Len(accepted) : accepted[i] = j)
                    ~> (outcome[j] \in {"flushed", "failed"})

\* If no worker is between its test of shutting_down and its sleep when the
\* terminate command is read, the workers drain, leave and are joined.
ShutdownWithoutRace ==
  (lpc = "broadcast" /\ MutexFree) ~> (lpc = "exited")

\* "wait for workers to drain and exit": once the terminate command is read
\* the main thread joins every worker and the daemon exits.
ShutdownCompletes == (lpc = "broadcast") ~> (lpc = "exited")

Pending == SubSeq(accepted, Len(started) + 1, Len(accepted))

FQ == INSTANCE FlushQueue
        WITH None <- NULL, pending <- Pending, running <- job,
             stopping <- shutting_down, stopped <- (lpc = "exited")

\* The threads, the list and the shutdown protocol implement the queue the
\* clients rely on (enqueue, dequeue, worker_fn, listener_loop, main).
ImplementsFlushQueue == FQ!Spec
=============================================================================
