--------------------------- MODULE BbviewdProofs ---------------------------
(***************************************************************************)
(* Theorems about the flush daemon, for every set of workers, jobs and     *)
(* wait clients.  Each invariant is proved from the ones before it:        *)
(*                                                                         *)
(*   Types, Control    types, and what the listener's control point says   *)
(*   Distinct          a request is in one place only                      *)
(*   List              the linked list is the history's pending part       *)
(*   Wakeups           who is awake, who may have left                     *)
(*   Counting          active_workers is a number of threads               *)
(*   Attempted         what left the list is being run or has an outcome   *)
(***************************************************************************)
EXTENDS Bbviewd, FiniteSetTheorems, SequenceTheorems, TLAPS

\* The connection the listener holds, by its control point.
Control ==
  /\ (lpc \in {"read", "enqueue", "broadcast", "drain"}) <=> (cur # NULL)
  /\ lpc = "enqueue" => cur \in Jobs
  /\ lpc \in {"broadcast", "drain"} => cur \in Waits /\ shutting_down
  /\ lpc \in {"accept", "read", "enqueue"} => ~shutting_down

TypesControl == Types /\ Control

\* The types and the control invariant hold at the start.
LEMMA TypesControlInit == Init => TypesControl
<1> SUFFICES ASSUME Init PROVE TypesControl
  OBVIOUS
<1> USE DEF Init
<1>1. /\ conns \in Seq(Requests)
      /\ accepted \in Seq(Jobs)
      /\ started \in Seq(Jobs)
  OBVIOUS
<1>2. Types
  <2>1. /\ client \in [Requests -> ClientStates]
        /\ next \in [Jobs -> Jobs \cup {NULL}]
        /\ wpc \in [Workers -> WorkerStates]
        /\ job \in [Workers -> Jobs \cup {NULL}]
        /\ outcome \in [Jobs -> Outcomes]
    BY DEF ClientStates, WorkerStates, Outcomes
  <2>2. /\ lpc \in ListenerStates
        /\ cur \in Requests \cup {NULL}
        /\ active_workers \in Int
        /\ q_head \in Jobs \cup {NULL}
        /\ q_tail \in Jobs \cup {NULL}
    BY DEF ListenerStates
  <2>3. shutting_down \in BOOLEAN
    OBVIOUS
  <2> HIDE DEF Init
  <2> QED
    BY <1>1, <2>1, <2>2, <2>3 DEF Types
<1>3. Control
  BY DEF Control
<1> QED
  BY <1>2, <1>3 DEF TypesControl

\* A client's step keeps the types and the control invariant.
LEMMA ClientTypes ==
  ASSUME TypesControl, NEW r \in Requests, ClientStep(r)
  PROVE  TypesControl'
<1> USE DEF TypesControl, Types, Control, ClientStates,
            clientVars, listVars, workerVars, histVars
<1>1. CASE Connect(r)
  BY <1>1 DEF Connect
<1>2. CASE Refused(r) \/ Send(r) \/ HangUp(r)
  BY <1>2 DEF Refused, Send, HangUp
<1> QED
  BY <1>1, <1>2 DEF ClientStep

\* A step of the listener keeps the types and the control invariant.
LEMMA ListenerTypes ==
  ASSUME TypesControl, Listener \/ AcceptFails
  PROVE  TypesControl'
<1> USE DEF TypesControl, Types, Control, Requests, ListenerStates,
            clientVars, listVars, workerVars, histVars
<1>1. CASE Accept
  <2>1. Head(conns) \in Requests /\ Tail(conns) \in Seq(Requests)
    BY <1>1 DEF Accept
  <2> HIDE DEF Requests
  <2>2. Types'
    BY <1>1, <2>1 DEF Accept
  <2>3. Control'
    BY <1>1, <2>1, DaemonAssumption DEF Accept, DaemonAssumption, Requests
  <2> HIDE DEF Types, Control
  <2> QED
    BY <2>2, <2>3
<1>2. CASE AcceptFails
  BY <1>2 DEF AcceptFails
<1>3. CASE ReadNothing
  BY <1>3 DEF ReadNothing
<1>4. CASE ReadPath
  BY <1>4 DEF ReadPath
<1>5. CASE ReadTerminate
  BY <1>5 DEF ReadTerminate
<1>6. CASE Enqueue
  BY <1>6 DEF Enqueue, Link, Signal, Sleepers, WorkerStates
<1>7. CASE EnqueueNoMemory
  BY <1>7 DEF EnqueueNoMemory, Outcomes
<1>8. CASE Broadcast
  BY <1>8 DEF Broadcast, WakeAll, WorkerStates
<1>9. CASE Drained
  BY <1>9 DEF Drained, ClientStates
<1>10. CASE CloseSocket
  BY <1>10 DEF CloseSocket, ClientStates
<1>11. CASE Join
  BY <1>11 DEF Join
<1> QED
  BY <1>1, <1>2, <1>3, <1>4, <1>5, <1>6, <1>7, <1>8, <1>9, <1>10, <1>11
  DEF Listener

\* A worker's step keeps the types and the control invariant.
LEMMA WorkerTypes ==
  ASSUME TypesControl, NEW w \in Workers, Worker(w) \/ SpuriousWakeup(w)
  PROVE  TypesControl'
<1> USE DEF TypesControl, Types, Control, WorkerStates,
            clientVars, listVars, workerVars, histVars
<1>1. CASE Start(w)
  <2>1. active_workers' \in Int
    BY <1>1 DEF Start, CountUp
  <2>2. wpc' \in [Workers -> WorkerStates]
    BY <1>1 DEF Start
  <2>3. Types'
    BY <1>1, <2>1, <2>2 DEF Start
  <2>4. Control'
    BY <1>1 DEF Start
  <2> HIDE DEF Types, Control
  <2> QED
    BY <2>3, <2>4
<1>2. CASE Take(w)
  <2>1. /\ q_head \in Jobs
        /\ q_head' \in Jobs \cup {NULL}
        /\ q_tail' \in Jobs \cup {NULL}
        /\ started' \in Seq(Jobs)
        /\ job' \in [Workers -> Jobs \cup {NULL}]
        /\ wpc' \in [Workers -> WorkerStates]
    BY <1>2 DEF Take, TailAfterPop
  <2>2. Types'
    BY <1>2, <2>1 DEF Take
  <2>3. Control'
    BY <1>2 DEF Take
  <2> HIDE DEF Types, Control
  <2> QED
    BY <2>2, <2>3
<1>3. CASE GiveUp(w) \/ FindEmpty(w) \/ Sleep(w) \/ SpuriousWakeup(w)
  <2>1. wpc' \in [Workers -> WorkerStates]
    BY <1>3 DEF GiveUp, FindEmpty, Sleep, SpuriousWakeup
  <2>2. UNCHANGED <<client, conns, lpc, cur, shutting_down, active_workers, q_head,
                    q_tail, next, job, accepted, started, outcome>>
    BY <1>3 DEF GiveUp, FindEmpty, Sleep, SpuriousWakeup
  <2>3. Types'
    BY <2>1, <2>2
  <2>4. Control'
    BY <2>2
  <2> HIDE DEF Types, Control
  <2> QED
    BY <2>3, <2>4
<1>4. CASE Run(w)
  <2>1. /\ outcome' \in [Jobs -> Outcomes]
        /\ job' \in [Workers -> Jobs \cup {NULL}]
        /\ wpc' \in [Workers -> WorkerStates]
    BY <1>4 DEF Run, Record, Outcomes
  <2>2. Types'
    BY <1>4, <2>1 DEF Run
  <2>3. Control'
    BY <1>4 DEF Run
  <2> HIDE DEF Types, Control
  <2> QED
    BY <2>2, <2>3
<1>5. CASE Leave(w)
  <2>1. active_workers' \in Int
    BY <1>5 DEF Leave
  <2>2. wpc' \in [Workers -> WorkerStates]
    BY <1>5 DEF Leave
  <2>3. Types'
    BY <1>5, <2>1, <2>2 DEF Leave
  <2>4. Control'
    BY <1>5 DEF Leave
  <2> HIDE DEF Types, Control
  <2> QED
    BY <2>3, <2>4
<1> QED
  BY <1>1, <1>2, <1>3, <1>4, <1>5 DEF Worker, Dequeue

\* Every step keeps the types and the control invariant.
LEMMA TypesControlStep == TypesControl /\ [Next]_vars => TypesControl'
<1> SUFFICES ASSUME TypesControl, [Next]_vars PROVE TypesControl'
  OBVIOUS
<1>1. CASE UNCHANGED vars
  BY <1>1 DEF TypesControl, Types, Control, vars
<1>2. CASE Next
  BY <1>2, ClientTypes, ListenerTypes, WorkerTypes DEF Next
<1> QED
  BY <1>1, <1>2

\* The types and the control invariant hold always.
LEMMA TypesControlHolds == SafeSpec => []TypesControl
BY TypesControlInit, TypesControlStep, PTL DEF SafeSpec
-----------------------------------------------------------------------------
\* A request is in the backlog, served, or queued, at most one of them and once.
Distinct ==
  /\ \A i, k \in 1..Len(conns) : conns[i] = conns[k] => i = k
  /\ \A i \in 1..Len(conns) : client[conns[i]] # "idle" /\ conns[i] # cur
  /\ cur # NULL => client[cur] # "idle"
  /\ \A i \in 1..Len(accepted) :
       /\ client[accepted[i]] # "idle"
       /\ accepted[i] # cur
       /\ \A k \in 1..Len(conns) : conns[k] # accepted[i]
  /\ \A i, k \in 1..Len(accepted) : accepted[i] = accepted[k] => i = k

\* No job entered the list at the start.
LEMMA DistinctInit == Init => Distinct
BY DEF Init, Distinct

\* Every step keeps the jobs in the list distinct: a connection is served once.
LEMMA DistinctStep ==
  ASSUME TypesControl, Distinct, [Next]_vars
  PROVE  Distinct'
<1> USE DEF TypesControl, Types, Control
<1>1. CASE UNCHANGED <<client, conns, cur, accepted>>
  BY <1>1 DEF Distinct
<1>2. ASSUME NEW r \in Requests, Connect(r) PROVE Distinct'
  <2>1. /\ conns' = Append(conns, r) /\ cur' = cur /\ accepted' = accepted
        /\ client' = [client EXCEPT ![r] = "connected"] /\ client[r] = "idle"
    BY <1>2 DEF Connect, histVars
  <2>2. /\ Len(conns') = Len(conns) + 1
        /\ conns'[Len(conns) + 1] = r
        /\ \A i \in 1..Len(conns) : conns'[i] = conns[i]
    BY <2>1
  <2>3. \A i \in 1..Len(conns) : conns[i] \in Requests
    OBVIOUS
  <2>4. \A i \in 1..Len(accepted) : accepted[i] \in Requests
    BY DEF Requests
  <2>5. Len(conns) \in Nat /\ (cur # NULL => cur \in Requests)
    OBVIOUS
  <2>6. \A i \in 1..Len(conns') : i \in 1..Len(conns) \/ i = Len(conns) + 1
    BY <2>2, <2>5
  <2>7. \A q \in Requests : q # r => client'[q] = client[q]
    BY <2>1
  <2>8. client'[r] # "idle" /\ r # NULL
    BY <2>1, DaemonAssumption DEF DaemonAssumption, Requests
  <2> HIDE DEF TypesControl, Types, Control
  <2>9. \A i, k \in 1..Len(conns') : conns'[i] = conns'[k] => i = k
    BY <2>1, <2>2, <2>3, <2>6 DEF Distinct
  <2>10. \A i \in 1..Len(conns') : client'[conns'[i]] # "idle" /\ conns'[i] # cur'
    BY <2>1, <2>2, <2>3, <2>5, <2>6, <2>7, <2>8 DEF Distinct
  <2>11. \A i \in 1..Len(accepted') :
           /\ client'[accepted'[i]] # "idle"
           /\ accepted'[i] # cur'
           /\ \A k \in 1..Len(conns') : conns'[k] # accepted'[i]
    BY <2>1, <2>2, <2>3, <2>4, <2>6, <2>7, <2>8 DEF Distinct
  <2>12. cur' # NULL => client'[cur'] # "idle"
    BY <2>1, <2>5, <2>7, <2>8 DEF Distinct
  <2> QED
    BY <2>1, <2>9, <2>10, <2>11, <2>12 DEF Distinct
<1>3. ASSUME NEW r \in Requests, Refused(r) \/ Send(r) \/ HangUp(r) PROVE Distinct'
  <2>1. PICK s \in {"sent", "failed"} : client' = [client EXCEPT ![r] = s]
    BY <1>3 DEF Refused, Send, HangUp
  <2>2. UNCHANGED <<conns, cur, accepted>>
    BY <1>3 DEF Refused, Send, HangUp, histVars
  <2>3. \A q \in Requests : client[q] # "idle" => client'[q] # "idle"
    BY <2>1
  <2>4. /\ \A i \in 1..Len(accepted) : accepted[i] \in Requests
        /\ \A i \in 1..Len(conns) : conns[i] \in Requests
        /\ cur # NULL => cur \in Requests
    BY DEF Requests
  <2> HIDE DEF TypesControl, Types, Control
  <2> QED
    BY <2>2, <2>3, <2>4 DEF Distinct
<1>4. CASE Accept
  <2>1. UNCHANGED <<client, accepted>> /\ cur' = conns[1] /\ conns' = Tail(conns)
    BY <1>4 DEF Accept, histVars
  <2>2. /\ Len(conns) > 0
        /\ Len(conns') = Len(conns) - 1
        /\ \A i \in 1..Len(conns') : conns'[i] = conns[i + 1]
    BY <1>4, <2>1 DEF Accept
  <2> QED
    BY <2>1, <2>2 DEF Distinct
<1>5. CASE ReadNothing \/ EnqueueNoMemory \/ Drained
  <2>1. UNCHANGED <<conns, accepted>> /\ cur' = NULL
    BY <1>5 DEF ReadNothing, EnqueueNoMemory, Drained, clientVars, histVars
  <2>2. client' = client \/ client' = [client EXCEPT ![cur] = "done"]
    BY <1>5 DEF ReadNothing, EnqueueNoMemory, Drained, clientVars
  <2>3. \A q \in Requests : client[q] # "idle" => client'[q] # "idle"
    BY <2>2
  <2>4. /\ \A i \in 1..Len(accepted) : accepted[i] \in Requests /\ accepted[i] # NULL
        /\ \A i \in 1..Len(conns) : conns[i] \in Requests /\ conns[i] # NULL
    BY DaemonAssumption DEF DaemonAssumption, Requests
  <2> HIDE DEF TypesControl, Types, Control
  <2> QED
    BY <2>1, <2>3, <2>4 DEF Distinct
<1>6. CASE Enqueue
  <2>1. /\ UNCHANGED <<client, conns>> /\ cur' = NULL
        /\ accepted' = Append(accepted, cur) /\ cur \in Jobs
    BY <1>6 DEF Enqueue, clientVars
  <2>2. /\ Len(accepted') = Len(accepted) + 1
        /\ accepted'[Len(accepted) + 1] = cur
        /\ \A i \in 1..Len(accepted) : accepted'[i] = accepted[i]
    BY <2>1
  <2>3. /\ \A i \in 1..Len(accepted) : accepted[i] # NULL
        /\ \A i \in 1..Len(conns) : conns[i] # NULL
        /\ cur # NULL
    BY <2>1, DaemonAssumption DEF DaemonAssumption, Requests
  <2>4. Len(accepted) \in Nat
    OBVIOUS
  <2>5. \A i \in 1..Len(accepted') : i \in 1..Len(accepted) \/ i = Len(accepted) + 1
    BY <2>2, <2>4
  <2> HIDE DEF TypesControl, Types, Control
  <2>6. \A i, k \in 1..Len(accepted') : accepted'[i] = accepted'[k] => i = k
    BY <2>2, <2>4, <2>5 DEF Distinct
  <2>7. \A i \in 1..Len(accepted') :
          /\ client'[accepted'[i]] # "idle"
          /\ accepted'[i] # cur'
          /\ \A k \in 1..Len(conns') : conns'[k] # accepted'[i]
    BY <2>1, <2>2, <2>3, <2>5 DEF Distinct
  <2> QED
    BY <2>1, <2>3, <2>6, <2>7 DEF Distinct
<1>7. CASE CloseSocket
  <2>1. UNCHANGED <<cur, accepted>> /\ conns' = << >>
    BY <1>7 DEF CloseSocket, histVars
  <2>2. \A q \in Requests : client[q] # "idle" => client'[q] # "idle"
    BY <1>7 DEF CloseSocket
  <2>3. \A i \in 1..Len(accepted) : accepted[i] \in Requests
    BY DEF Requests
  <2> QED
    BY <2>1, <2>2, <2>3 DEF Distinct
<1>8. CASE AcceptFails \/ ReadPath \/ ReadTerminate \/ Broadcast \/ Join
  BY <1>1, <1>8 DEF AcceptFails, ReadPath, ReadTerminate, Broadcast, Join,
                    clientVars, histVars
<1>9. ASSUME NEW w \in Workers, Worker(w) \/ SpuriousWakeup(w) PROVE Distinct'
  BY <1>1, <1>9 DEF Worker, Dequeue, Start, Take, GiveUp, FindEmpty, Sleep, Run,
                    Leave, SpuriousWakeup, clientVars, histVars
<1>10. CASE UNCHANGED vars
  BY <1>1, <1>10 DEF vars
<1> QED
  BY <1>2, <1>3, <1>4, <1>5, <1>6, <1>7, <1>8, <1>9, <1>10
  DEF Next, ClientStep, Listener
-----------------------------------------------------------------------------
\* A struct job that was not linked yet has a null next (calloc).
Fresh ==
  \A j \in Jobs : (\A i \in 1..Len(accepted) : accepted[i] # j) => next[j] = NULL

List == QueueIsFifo /\ ListIsPending /\ Fresh

\* The list is empty at the start.
LEMMA ListInit == Init => List
BY DEF Init, List, QueueIsFifo, ListIsPending, Fresh

\* Every step keeps the linked list and the history of the queue in accord.
LEMMA ListStep ==
  ASSUME TypesControl, Distinct, List, [Next]_vars
  PROVE  List'
<1> DEFINE m == Len(accepted)
           n == Len(started)
<1>1. CASE UNCHANGED <<q_head, q_tail, next, accepted, started>>
  BY <1>1 DEF List, QueueIsFifo, ListIsPending, Fresh
<1>2. /\ m \in Nat /\ n \in Nat /\ n <= m
      /\ \A i \in 1..m : accepted[i] \in Jobs /\ accepted[i] # NULL
      /\ next \in [Jobs -> Jobs \cup {NULL}]
  BY DaemonAssumption DEF DaemonAssumption, TypesControl, Types, List, QueueIsFifo
<1>3. /\ \A i, k \in 1..m : accepted[i] = accepted[k] => i = k
      /\ \A i \in 1..m : accepted[i] # cur
  BY DEF Distinct
<1>4. /\ q_head = IF n < m THEN accepted[n + 1] ELSE NULL
      /\ q_tail = IF n < m THEN accepted[m] ELSE NULL
      /\ \A i \in (n + 1)..m :
           next[accepted[i]] = IF i < m THEN accepted[i + 1] ELSE NULL
  BY <1>2 DEF List, ListIsPending
<1>5. CASE Enqueue
  <2>1. cur \in Jobs /\ Link(cur) /\ accepted' = Append(accepted, cur)
        /\ started' = started
    BY <1>5 DEF Enqueue, TypesControl, Control
  <2>2. /\ Len(accepted') = m + 1 /\ accepted'[m + 1] = cur /\ Len(started') = n
        /\ \A i \in 1..m : accepted'[i] = accepted[i]
    BY <2>1 DEF TypesControl, Types
  <2>3. next[cur] = NULL
    BY <1>3, <2>1 DEF List, Fresh
  <2>4. QueueIsFifo'
    BY <1>2, <2>1, <2>2 DEF List, QueueIsFifo
  <2> HIDE DEF m, n
  <2>5. CASE q_tail = NULL
    <3>1. n = m /\ q_head' = cur /\ q_tail' = cur /\ next' = next
      BY <1>2, <1>4, <2>1, <2>5 DEF Link
    <3>2. ListIsPending'
      BY <1>2, <2>2, <2>3, <3>1 DEF ListIsPending
    <3>3. Fresh'
      BY <1>2, <2>2, <3>1 DEF Fresh, List, m
    <3> QED
      BY <2>4, <3>2, <3>3 DEF List
  <2>6. CASE q_tail # NULL
    <3>1. /\ n < m /\ q_head' = q_head /\ q_tail' = cur /\ q_tail = accepted[m]
          /\ next' = [next EXCEPT ![accepted[m]] = cur]
      BY <1>2, <1>4, <2>1, <2>6 DEF Link
    <3>2. /\ next'[accepted[m]] = cur
          /\ \A j \in Jobs : j # accepted[m] => next'[j] = next[j]
      BY <1>2, <3>1
    <3>3. next'[cur] = NULL
      BY <1>2, <1>3, <2>1, <2>3, <3>1, <3>2
    <3>4. ASSUME NEW i \in (n + 1)..(m + 1)
          PROVE  next'[accepted'[i]] = IF i < m + 1 THEN accepted'[i + 1] ELSE NULL
      <4>1. CASE i < m
        BY <1>2, <1>3, <1>4, <2>2, <3>1, <3>2, <4>1
      <4>2. CASE i = m
        BY <1>2, <2>2, <3>1, <3>2, <4>2
      <4>3. CASE i = m + 1
        BY <1>2, <2>2, <3>3, <4>3
      <4> QED
        BY <1>2, <4>1, <4>2, <4>3
    <3>5. ListIsPending'
      BY <1>2, <1>4, <2>2, <3>1, <3>4 DEF ListIsPending
    <3>6. Fresh'
      BY <1>2, <2>2, <3>1, <3>2 DEF Fresh, List, m
    <3> QED
      BY <2>4, <3>5, <3>6 DEF List
  <2> QED
    BY <2>5, <2>6
<1>6. ASSUME NEW w \in Workers, Take(w) PROVE List'
  <2>1. /\ q_head # NULL /\ started' = Append(started, q_head)
        /\ q_head' = next[q_head] /\ q_tail' = TailAfterPop
        /\ next' = next /\ accepted' = accepted
    BY <1>6 DEF Take
  <2>2. n < m /\ q_head = accepted[n + 1] /\ q_tail = accepted[m]
    BY <1>4, <2>1
  <2>3. /\ Len(started') = n + 1 /\ started'[n + 1] = accepted[n + 1]
        /\ \A i \in 1..n : started'[i] = started[i]
    BY <2>1, <2>2, <1>2 DEF TypesControl, Types
  <2>4. QueueIsFifo'
    BY <1>2, <2>1, <2>2, <2>3 DEF List, QueueIsFifo
  <2> HIDE DEF m, n
  <2>5. next[q_head] = IF n + 1 < m THEN accepted[n + 2] ELSE NULL
    BY <1>2, <1>4, <2>2
  <2>6. /\ q_head' = IF n + 1 < m THEN accepted[n + 2] ELSE NULL
        /\ q_tail' = IF n + 1 < m THEN accepted[m] ELSE NULL
    BY <1>2, <2>1, <2>2, <2>5 DEF TailAfterPop
  <2>7. Len(accepted') = m
    BY <2>1 DEF m
  <2>8. ListIsPending'
    BY <1>2, <1>4, <2>1, <2>3, <2>6, <2>7 DEF ListIsPending
  <2>9. Fresh'
    BY <2>1 DEF Fresh, List
  <2> QED
    BY <2>4, <2>8, <2>9 DEF List
<1>7. ASSUME NEW r \in Requests, ClientStep(r) PROVE List'
  BY <1>1, <1>7 DEF ClientStep, Connect, Refused, Send, HangUp, listVars, histVars
<1>8. CASE (Listener \/ AcceptFails) /\ ~Enqueue
  BY <1>1, <1>8 DEF Listener, Accept, AcceptFails, ReadNothing, ReadPath, ReadTerminate,
                    EnqueueNoMemory, Broadcast, Drained, CloseSocket, Join,
                    listVars, histVars
<1>9. ASSUME NEW w \in Workers, Worker(w) \/ SpuriousWakeup(w), ~Take(w) PROVE List'
  BY <1>1, <1>9 DEF Worker, Dequeue, Start, GiveUp, FindEmpty, Sleep, Run, Leave,
                    SpuriousWakeup, listVars, histVars
<1>10. CASE UNCHANGED vars
  BY <1>1, <1>10 DEF vars
<1> QED
  BY <1>5, <1>6, <1>7, <1>8, <1>9, <1>10 DEF Next
-----------------------------------------------------------------------------
\* Who sleeps, who runs a job, and who may have left.
Wakeups ==
  /\ \A w \in Workers : wpc[w] = "run" <=> job[w] # NULL
  /\ \A w \in Workers : wpc[w] = "towait" => q_head = NULL
  /\ NoLostSignal
  /\ ExitOnlyDrained

\* No worker sleeps or leaves at the start.
LEMMA WakeupsInit == Init => Wakeups
BY DaemonAssumption DEF DaemonAssumption, Init, Wakeups, NoLostSignal, ExitOnlyDrained

\* Every step keeps some worker awake for a queued job.
LEMMA WakeupsStep ==
  ASSUME TypesControl, Wakeups, [Next]_vars
  PROVE  Wakeups'
<1> USE DEF Wakeups, NoLostSignal, ExitOnlyDrained
<1>1. CASE UNCHANGED <<wpc, job, q_head>> /\ (shutting_down' \/ UNCHANGED shutting_down)
           /\ (lpc' # "enqueue" \/ ~shutting_down)
  BY <1>1
<1>2. wpc \in [Workers -> WorkerStates] /\ job \in [Workers -> Jobs \cup {NULL}]
  BY DEF TypesControl, Types
<1>3. CASE Enqueue
  <2>1. /\ MutexFree /\ Signal(wpc) /\ job' = job /\ ~shutting_down
        /\ \A w \in Workers : wpc[w] \notin {"leaving", "exited", "towait"}
        /\ lpc' = "accept" /\ shutting_down' = shutting_down
    BY <1>3 DEF Enqueue, MutexFree, TypesControl, Control
  <2>2. CASE Sleepers = {} /\ wpc' = wpc
    <3>1. PICK w \in Workers : TRUE
      BY DaemonAssumption DEF DaemonAssumption
    <3>2. wpc[w] \in {"start", "dequeue", "run"}
      BY <1>2, <2>1, <2>2, <3>1 DEF Sleepers, WorkerStates
    <3> QED
      BY <2>1, <2>2, <3>2
  <2>3. ASSUME NEW w \in Sleepers, wpc' = [wpc EXCEPT ![w] = "dequeue"]
        PROVE  Wakeups'
    <3>1. w \in Workers /\ wpc[w] = "waiting" /\ wpc'[w] = "dequeue"
          /\ \A v \in Workers : v # w => wpc'[v] = wpc[v]
      BY <1>2, <2>3 DEF Sleepers
    <3> QED
      BY <2>1, <3>1
  <2> QED
    BY <2>1, <2>2, <2>3 DEF Signal
<1>4. CASE Broadcast
  <2>1. /\ \A w \in Workers : \/ wpc'[w] = wpc[w]
                              \/ wpc[w] = "waiting" /\ wpc'[w] = "dequeue"
        /\ UNCHANGED <<job, q_head, shutting_down>> /\ lpc' = "drain"
    BY <1>2, <1>4 DEF Broadcast, WakeAll, listVars
  <2> QED
    BY <2>1
<1>5. ASSUME NEW w \in Workers, Take(w) PROVE Wakeups'
  <2>1. /\ MutexFree /\ q_head # NULL /\ UNCHANGED <<lpc, shutting_down>>
        /\ wpc'[w] = "run" /\ job'[w] # NULL
        /\ \A v \in Workers : v # w => wpc'[v] = wpc[v] /\ job'[v] = job[v]
    BY <1>2, <1>5 DEF Take
  <2> QED
    BY <2>1 DEF MutexFree
<1>6. ASSUME NEW w \in Workers,
             Start(w) \/ GiveUp(w) \/ FindEmpty(w) \/ Sleep(w) \/ Leave(w)
               \/ SpuriousWakeup(w)
      PROVE  Wakeups'
  <2>1. /\ UNCHANGED <<job, q_head, lpc, shutting_down>>
        /\ \A v \in Workers : v # w => wpc'[v] = wpc[v]
    BY <1>2, <1>6 DEF Start, GiveUp, FindEmpty, Sleep, Leave, SpuriousWakeup, listVars
  <2>2. \/ wpc[w] \in {"start", "waiting"} /\ wpc'[w] = "dequeue"
        \/ /\ wpc[w] = "dequeue" /\ q_head = NULL
           /\ \/ wpc'[w] = "leaving" /\ shutting_down
              \/ wpc'[w] = "towait"
        \/ wpc[w] = "towait" /\ wpc'[w] = "waiting"
        \/ wpc[w] = "leaving" /\ wpc'[w] = "exited"
    BY <1>2, <1>6 DEF Start, GiveUp, FindEmpty, Sleep, Leave, SpuriousWakeup, MayLeave
  <2>3. shutting_down => lpc # "enqueue"
    BY DEF TypesControl, Control
  <2> QED
    BY <2>1, <2>2, <2>3
<1>7. ASSUME NEW w \in Workers, Run(w) PROVE Wakeups'
  <2>1. /\ UNCHANGED <<q_head, lpc, shutting_down>>
        /\ wpc'[w] = "dequeue" /\ job'[w] = NULL
        /\ \A v \in Workers : v # w => wpc'[v] = wpc[v] /\ job'[v] = job[v]
    BY <1>2, <1>7 DEF Run, listVars
  <2> QED
    BY <2>1
<1>8. ASSUME NEW r \in Requests, ClientStep(r) PROVE Wakeups'
  BY <1>8 DEF ClientStep, Connect, Refused, Send, HangUp, listVars, workerVars
<1>9. CASE (Listener \/ AcceptFails) /\ ~Enqueue /\ ~Broadcast
  <2>1. UNCHANGED <<wpc, job, q_head>>
    BY <1>9 DEF Listener, Accept, AcceptFails, ReadNothing, ReadPath, ReadTerminate,
                EnqueueNoMemory, Drained, CloseSocket, Join, listVars, workerVars
  <2>2. shutting_down' \/ UNCHANGED shutting_down
    BY <1>9 DEF Listener, Accept, AcceptFails, ReadNothing, ReadPath, ReadTerminate,
                EnqueueNoMemory, Drained, CloseSocket, Join
  <2>3. lpc' # "enqueue" \/ ~shutting_down
    BY <1>9 DEF Listener, Accept, AcceptFails, ReadNothing, ReadPath, ReadTerminate,
                EnqueueNoMemory, Drained, CloseSocket, Join, TypesControl, Control
  <2> QED
    BY <1>1, <2>1, <2>2, <2>3
<1>10. CASE UNCHANGED vars
  BY <1>10 DEF vars
<1> QED
  BY <1>3, <1>4, <1>5, <1>6, <1>7, <1>8, <1>9, <1>10 DEF Next, Worker, Dequeue
-----------------------------------------------------------------------------
\* The threads that are counted: past their first statement, not past their last.
Active == {w \in Workers : wpc[w] \notin {"start", "exited"}}

Counting == active_workers = Cardinality(Active)

\* No worker is counted at the start, and none has started.
LEMMA CountingInit == Init => Counting
<1> SUFFICES ASSUME Init PROVE Counting
  OBVIOUS
<1>1. Active = {}
  BY DEF Init, Active
<1> QED
  BY <1>1, FS_EmptySet DEF Init, Counting

\* The workers that are counted are finitely many.
LEMMA ActiveFinite == IsFiniteSet(Active)
BY FS_Subset, DaemonAssumption DEF DaemonAssumption, Active

\* Every step keeps active_workers the number of workers that count.
LEMMA CountingStep ==
  ASSUME TypesControl, Counting, [Next]_vars
  PROVE  Counting'
<1>0. wpc \in [Workers -> WorkerStates]
  BY DEF TypesControl, Types
<1>1. CASE Active' = Active /\ active_workers' = active_workers
  BY <1>1 DEF Counting
<1>2. ASSUME NEW w \in Workers, Start(w) PROVE Counting'
  <2>1. Active' = Active \cup {w} /\ w \notin Active
    BY <1>0, <1>2 DEF Start, Active
  <2>2. active_workers' = active_workers + 1
    BY <1>2 DEF Start, CountUp
  <2> QED
    BY <2>1, <2>2, ActiveFinite, FS_AddElement DEF Counting
<1>3. ASSUME NEW w \in Workers, Leave(w) PROVE Counting'
  <2>1. Active' = Active \ {w} /\ w \in Active
    BY <1>0, <1>3 DEF Leave, Active
  <2>2. active_workers' = active_workers - 1
    BY <1>3 DEF Leave
  <2> QED
    BY <2>1, <2>2, ActiveFinite, FS_RemoveElement DEF Counting
<1>4. ASSUME NEW w \in Workers,
             Dequeue(w) \/ Sleep(w) \/ Run(w) \/ SpuriousWakeup(w)
      PROVE  Counting'
  <2>1. active_workers' = active_workers
    BY <1>4 DEF Dequeue, Take, GiveUp, FindEmpty, Sleep, Run, SpuriousWakeup
  <2>2. Active' = Active
    BY <1>0, <1>4 DEF Dequeue, Take, GiveUp, FindEmpty, Sleep, Run, SpuriousWakeup, Active
  <2> QED
    BY <1>1, <2>1, <2>2
<1>5. CASE Enqueue \/ Broadcast
  <2>1. active_workers' = active_workers
    BY <1>5 DEF Enqueue, Broadcast
  <2>2. \A w \in Workers : \/ wpc'[w] = wpc[w]
                           \/ wpc[w] = "waiting" /\ wpc'[w] = "dequeue"
    BY <1>0, <1>5 DEF Enqueue, Signal, Sleepers, Broadcast, WakeAll
  <2>3. Active' = Active
    BY <2>2 DEF Active
  <2> QED
    BY <1>1, <2>1, <2>3
<1>6. CASE UNCHANGED <<wpc, active_workers>>
  BY <1>1, <1>6 DEF Active
<1>7. ASSUME NEW r \in Requests, ClientStep(r) PROVE Counting'
  BY <1>6, <1>7 DEF ClientStep, Connect, Refused, Send, HangUp, workerVars
<1>8. CASE (Listener \/ AcceptFails) /\ ~Enqueue /\ ~Broadcast
  BY <1>6, <1>8 DEF Listener, Accept, AcceptFails, ReadNothing, ReadPath, ReadTerminate,
                    EnqueueNoMemory, Drained, CloseSocket, Join, workerVars
<1>9. CASE UNCHANGED vars
  BY <1>6, <1>9 DEF vars
<1> QED
  BY <1>2, <1>3, <1>4, <1>5, <1>7, <1>8, <1>9 DEF Next, Worker
-----------------------------------------------------------------------------
\* A job that left the list is being run or has its outcome.
Attempted ==
  \A i \in 1..Len(started) : \/ outcome[started[i]] # "none"
                             \/ \E w \in Workers : job[w] = started[i]

\* No job was taken at the start.
LEMMA AttemptedInit == Init => Attempted
BY DEF Init, Attempted

\* Every step keeps a job that was taken at its worker until it has an outcome.
LEMMA AttemptedStep ==
  ASSUME TypesControl, Wakeups, Attempted, [Next]_vars
  PROVE  Attempted'
<1>0. /\ job \in [Workers -> Jobs \cup {NULL}]
      /\ outcome \in [Jobs -> Outcomes]
      /\ Len(started) \in Nat
      /\ \A i \in 1..Len(started) : started[i] \in Jobs /\ started[i] # NULL
  BY DaemonAssumption DEF TypesControl, Types, DaemonAssumption
<1>1. CASE UNCHANGED <<job, started, outcome>>
  BY <1>1 DEF Attempted
<1>2. ASSUME NEW w \in Workers, Take(w) PROVE Attempted'
  <2>1. /\ job'[w] = q_head /\ outcome' = outcome /\ started' = Append(started, q_head)
        /\ \A v \in Workers : v # w => job'[v] = job[v]
    BY <1>0, <1>2 DEF Take
  <2>2. /\ Len(started') = Len(started) + 1 /\ started'[Len(started) + 1] = q_head
        /\ \A i \in 1..Len(started) : started'[i] = started[i]
    BY <2>1, <1>2 DEF TypesControl, Types, Take
  <2>3. job[w] = NULL
    BY <1>2 DEF Take, Wakeups
  <2>4. \A i \in 1..Len(started') : i \in 1..Len(started) \/ i = Len(started) + 1
    BY <1>0, <2>2
  <2> QED
    BY <1>0, <2>1, <2>2, <2>3, <2>4 DEF Attempted
<1>3. ASSUME NEW w \in Workers, Run(w) PROVE Attempted'
  <2>1. job[w] \in Jobs
    BY <1>0, <1>3 DEF Run, Wakeups
  <2>2. /\ started' = started /\ outcome'[job[w]] # "none"
        /\ \A j \in Jobs : outcome[j] # "none" => outcome'[j] # "none"
        /\ \A v \in Workers : v # w => job'[v] = job[v]
    BY <1>0, <1>3, <2>1 DEF Run, Record
  <2> QED
    BY <1>0, <2>1, <2>2 DEF Attempted
<1>4. CASE EnqueueNoMemory
  <2>1. /\ UNCHANGED <<job, started>>
        /\ \A j \in Jobs : outcome[j] # "none" => outcome'[j] # "none"
    BY <1>0, <1>4 DEF EnqueueNoMemory, workerVars
  <2> QED
    BY <1>0, <2>1 DEF Attempted
<1>5. ASSUME NEW w \in Workers, Worker(w) \/ SpuriousWakeup(w), ~Take(w), ~Run(w)
      PROVE  Attempted'
  BY <1>1, <1>5 DEF Worker, Dequeue, Start, GiveUp, FindEmpty, Sleep, Leave,
                    SpuriousWakeup, histVars
<1>6. ASSUME NEW r \in Requests, ClientStep(r) PROVE Attempted'
  BY <1>1, <1>6 DEF ClientStep, Connect, Refused, Send, HangUp, workerVars, histVars
<1>7. CASE (Listener \/ AcceptFails) /\ ~EnqueueNoMemory
  BY <1>1, <1>7 DEF Listener, Accept, AcceptFails, ReadNothing, ReadPath, ReadTerminate,
                    Enqueue, Broadcast, Drained, CloseSocket, Join, workerVars, histVars
<1>8. CASE UNCHANGED vars
  BY <1>1, <1>8 DEF vars
<1> QED
  BY <1>2, <1>3, <1>4, <1>5, <1>6, <1>7, <1>8 DEF Next
-----------------------------------------------------------------------------
IInv == TypesControl /\ Distinct /\ List /\ Wakeups /\ Counting /\ Attempted

\* The inductive invariant holds: its parts are proved in the order above.
THEOREM Invariant == SafeSpec => []IInv
<1>1. Init => IInv
  BY TypesControlInit, DistinctInit, ListInit, WakeupsInit, CountingInit, AttemptedInit
  DEF IInv
<1>2. IInv /\ [Next]_vars => IInv'
  BY TypesControlStep, DistinctStep, ListStep, WakeupsStep, CountingStep, AttemptedStep
  DEF IInv
<1> QED
  BY <1>1, <1>2, PTL DEF SafeSpec

\* Every variable has its type and active_workers never leaves the range of a
\* count of threads (worker_fn's atomic increments and decrements match).
THEOREM TypeCorrect == SafeSpec => []TypeOK
<1>1. IInv => TypeOK
  <2> SUFFICES ASSUME IInv PROVE TypeOK
    OBVIOUS
  <2>1. /\ Cardinality(Active) \in Nat /\ Cardinality(Workers) \in Nat
        /\ Cardinality(Active) <= Cardinality(Workers)
    BY FS_Subset, FS_CardinalityType, ActiveFinite, DaemonAssumption
    DEF DaemonAssumption, Active
  <2>2. active_workers \in 0..Cardinality(Workers)
    BY <2>1 DEF IInv, Counting
  <2> QED
    BY <2>2 DEF IInv, TypesControl, TypeOK
<1> QED
  BY <1>1, Invariant, PTL

\* dequeue hands out jobs in the order enqueue linked them, each once.
THEOREM Fifo == SafeSpec => []QueueIsFifo
<1>1. IInv => QueueIsFifo
  BY DEF IInv, List
<1> QED
  BY <1>1, Invariant, PTL

\* q_head, q_tail and the next fields always hold exactly the pending jobs.
THEOREM ListCorrect == SafeSpec => []ListIsPending
<1>1. IInv => ListIsPending
  BY DEF IInv, List
<1> QED
  BY <1>1, Invariant, PTL

\* No wakeup for a job is lost, whatever the threads and the wakeups do.
THEOREM SignalNotLost == SafeSpec => []NoLostSignal
<1>1. IInv => NoLostSignal
  BY DEF IInv, Wakeups
<1> QED
  BY <1>1, Invariant, PTL

\* Workers leave only a daemon that was told to stop and has an empty list.
THEOREM LeaveOnlyDrained == SafeSpec => []ExitOnlyDrained
<1>1. IInv => ExitOnlyDrained
  BY DEF IInv, Wakeups
<1> QED
  BY <1>1, Invariant, PTL

\* The answer of the terminate command is true as soon as one worker started.
THEOREM DoneHonest == SafeSpec => DoneIsHonest
<1> DEFINE Honest == \A v \in Waits : client[v] # "done" /\ client'[v] = "done"
                       => \/ \A i \in 1..Len(accepted) : outcome[accepted[i]] # "none"
                          \/ \A w \in Workers : wpc[w] = "start"
<1>1. ASSUME IInv, Next PROVE Honest
  <2> SUFFICES ASSUME NEW v \in Waits, client[v] # "done", client'[v] = "done",
                      NEW x \in Workers, wpc[x] # "start",
                      NEW i \in 1..Len(accepted)
               PROVE  outcome[accepted[i]] # "none"
    OBVIOUS
  <2>1. client \in [Requests -> ClientStates] /\ v \in Requests
    BY <1>1 DEF IInv, TypesControl, Types, Requests
  <2>2. Drained
    <3>1. ASSUME NEW r \in Requests, ClientStep(r) PROVE FALSE
      BY <2>1, <3>1 DEF ClientStep, Connect, Refused, Send, HangUp
    <3>2. ASSUME NEW w \in Workers, Worker(w) \/ SpuriousWakeup(w) PROVE FALSE
      BY <3>2 DEF Worker, Dequeue, Start, Take, GiveUp, FindEmpty, Sleep, Run, Leave,
                  SpuriousWakeup, clientVars
    <3>3. ASSUME (Listener \/ AcceptFails) /\ ~Drained PROVE FALSE
      BY <2>1, <3>3 DEF Listener, Accept, AcceptFails, ReadNothing, ReadPath,
                        ReadTerminate, Enqueue, EnqueueNoMemory, Broadcast, CloseSocket,
                        Join, clientVars
    <3> QED
      BY <1>1, <3>1, <3>2, <3>3 DEF Next
  <2>3. Active = {}
    <3>1. Cardinality(Active) <= 0
      BY <1>1, <2>2 DEF IInv, Counting, Drained, NoActiveWorker
    <3>2. Cardinality(Active) \in Nat
      BY ActiveFinite, FS_CardinalityType
    <3>3. Cardinality(Active) = 0
      BY <3>1, <3>2
    <3> QED
      BY <3>3, ActiveFinite, FS_EmptySet
  <2>4. wpc[x] = "exited" /\ \A w \in Workers : job[w] = NULL
    BY <1>1, <2>3 DEF Active, IInv, Wakeups
  <2>5. q_head = NULL
    BY <1>1, <2>4 DEF IInv, Wakeups, ExitOnlyDrained
  <2>6. Len(started) = Len(accepted)
    <3>1. /\ Len(started) \in Nat /\ Len(accepted) \in Nat
          /\ \A k \in 1..Len(accepted) : accepted[k] # NULL
      BY <1>1, DaemonAssumption DEF DaemonAssumption, IInv, TypesControl, Types
    <3> QED
      BY <1>1, <2>5, <3>1 DEF IInv, List, QueueIsFifo, ListIsPending
  <2>7. started[i] = accepted[i] /\ i \in 1..Len(started)
    BY <1>1, <2>6 DEF IInv, List, QueueIsFifo
  <2>8. accepted[i] # NULL
    BY <1>1, DaemonAssumption DEF DaemonAssumption, IInv, TypesControl, Types
  <2> QED
    BY <1>1, <2>4, <2>7, <2>8 DEF IInv, Attempted
<1>2. IInv /\ [Next]_vars => [Honest]_vars
  BY <1>1
<1> QED
  BY <1>2, Invariant, PTL DEF DoneIsHonest, SafeSpec
-----------------------------------------------------------------------------
(* The daemon implements the safety part of FlushQueue.                    *)

\* The length and the entries of a slice of a sequence.
LEMMA Slice ==
  ASSUME NEW s \in Seq(Jobs), NEW n \in Nat, n <= Len(s)
  PROVE  LET t == SubSeq(s, n + 1, Len(s))
         IN /\ t \in Seq(Jobs)
            /\ Len(t) = Len(s) - n
            /\ \A i \in 1..(Len(s) - n) : t[i] = s[n + i]
<1> DEFINE t == SubSeq(s, n + 1, Len(s))
<1>1. n + 1 \in Int /\ Len(s) \in Int
  OBVIOUS
<1>2. \A i \in (n + 1)..Len(s) : s[i] \in Jobs
  OBVIOUS
<1>3. /\ t \in Seq(Jobs)
      /\ Len(t) = IF n + 1 <= Len(s) THEN Len(s) - (n + 1) + 1 ELSE 0
      /\ \A i \in 1..(Len(s) - (n + 1) + 1) : t[i] = s[(n + 1) + i - 1]
  BY <1>1, <1>2, SubSeqProperties
<1> HIDE DEF t
<1>4. Len(t) = Len(s) - n
  BY <1>1, <1>3
<1>5. ASSUME NEW i \in 1..(Len(s) - n) PROVE t[i] = s[n + i]
  <2>1. i \in 1..(Len(s) - (n + 1) + 1) /\ (n + 1) + i - 1 = n + i
    BY <1>1
  <2> QED
    BY <1>3, <2>1
<1> QED
  BY <1>3, <1>4, <1>5 DEF t

\* Linking a job at the tail appends it to what is pending.
LEMMA PendingAppend ==
  ASSUME TypesControl, List, NEW j \in Jobs,
         accepted' = Append(accepted, j), started' = started
  PROVE  Pending' = Append(Pending, j)
<1> DEFINE n == Len(started)
           m == Len(accepted)
<1>1. /\ accepted \in Seq(Jobs) /\ n \in Nat /\ m \in Nat /\ n <= m
  BY DEF TypesControl, Types, List, QueueIsFifo
<1>2. accepted' \in Seq(Jobs) /\ Len(accepted') = m + 1 /\ accepted'[m + 1] = j
      /\ \A i \in 1..m : accepted'[i] = accepted[i]
  BY <1>1
<1> HIDE DEF n, m
<1>3. /\ Pending \in Seq(Jobs) /\ Len(Pending) = m - n
      /\ \A i \in 1..(m - n) : Pending[i] = accepted[n + i]
  BY <1>1, Slice DEF Pending, n, m
<1>4. /\ Pending' \in Seq(Jobs) /\ Len(Pending') = m + 1 - n
      /\ \A i \in 1..(m + 1 - n) : Pending'[i] = accepted'[n + i]
  <2>1. n <= Len(accepted')
    BY <1>1, <1>2
  <2>2. Pending' = SubSeq(accepted', n + 1, Len(accepted'))
    BY DEF Pending, n
  <2>3. n \in Nat /\ accepted' \in Seq(Jobs)
    BY <1>1, <1>2
  <2>4. LET t == SubSeq(accepted', n + 1, Len(accepted'))
        IN /\ t \in Seq(Jobs)
           /\ Len(t) = Len(accepted') - n
           /\ \A i \in 1..(Len(accepted') - n) : t[i] = accepted'[n + i]
    BY <2>1, <2>3, Slice
  <2>5. Len(accepted') - n = m + 1 - n
    BY <1>1, <1>2
  <2> QED
    BY <2>2, <2>4, <2>5
<1>5. /\ Append(Pending, j) \in Seq(Jobs) /\ Len(Append(Pending, j)) = m - n + 1
      /\ Append(Pending, j)[m - n + 1] = j
      /\ \A i \in 1..(m - n) : Append(Pending, j)[i] = Pending[i]
  BY <1>3
<1>6. ASSUME NEW i \in 1..Len(Pending') PROVE Pending'[i] = Append(Pending, j)[i]
  <2>1. CASE i = m - n + 1
    <3>1. n + i = m + 1 /\ i \in 1..(m + 1 - n)
      BY <1>1, <2>1
    <3>2. Pending'[i] = accepted'[m + 1]
      BY <1>4, <3>1
    <3> QED
      BY <1>2, <1>5, <2>1, <3>2
  <2>2. CASE i \in 1..(m - n)
    <3>1. n + i \in 1..m /\ i \in 1..(m + 1 - n)
      BY <1>1, <2>2
    <3>2. Pending'[i] = accepted'[n + i]
      BY <1>4, <3>1
    <3>3. Append(Pending, j)[i] = accepted[n + i]
      BY <1>3, <1>5, <2>2
    <3> QED
      BY <1>2, <3>1, <3>2, <3>3
  <2>3. i \in 1..(m + 1 - n)
    BY <1>4
  <2>4. i = m - n + 1 \/ i \in 1..(m - n)
    BY <1>1, <2>3
  <2> QED
    BY <2>1, <2>2, <2>4
<1>7. Len(Pending') = Len(Append(Pending, j))
  BY <1>1, <1>4, <1>5
<1> QED
  BY <1>4, <1>5, <1>6, <1>7, SeqEqual

\* Popping the list takes the oldest pending job.
LEMMA PendingPop ==
  ASSUME TypesControl, List, q_head # NULL,
         started' = Append(started, q_head), accepted' = accepted
  PROVE  Pending # << >> /\ q_head = Head(Pending) /\ Pending' = Tail(Pending)
<1> DEFINE n == Len(started)
           m == Len(accepted)
<1>1. /\ accepted \in Seq(Jobs) /\ n \in Nat /\ m \in Nat /\ n <= m
      /\ Len(started') = n + 1
  BY DEF TypesControl, Types, List, QueueIsFifo
<1>2. n < m /\ q_head = accepted[n + 1]
  BY <1>1 DEF List, ListIsPending
<1>3. Pending = SubSeq(accepted, n + 1, m) /\ Pending' = SubSeq(accepted, n + 1 + 1, m)
  BY <1>1 DEF Pending
<1> HIDE DEF n
<1>4. n + 1 \in 1..Len(accepted) /\ m \in (n + 1)..Len(accepted)
  BY <1>1, <1>2
<1>5. Head(Pending) = accepted[n + 1] /\ Tail(Pending) = SubSeq(accepted, n + 1 + 1, m)
  BY <1>1, <1>3, <1>4, HeadTailOfSubSeq
<1> HIDE DEF m
<1>6. Pending # << >>
  <2>1. \A i \in (n + 1)..m : accepted[i] \in Jobs
    BY <1>1 DEF m
  <2>2. Len(Pending) = m - n
    BY <1>1, <1>2, <1>3, <2>1, SubSeqProperties
  <2> QED
    BY <1>1, <1>2, <2>2
<1> QED
  BY <1>2, <1>3, <1>5, <1>6

\* Every step of the threads is a step of FlushQueue or changes nothing there:
\* the mutex, the wakeups and the counter are invisible to the clients.
THEOREM Implementation == SafeSpec => FQ!SafeSpec
<1>1. Init => FQ!Init
  BY DEF Init, FQ!Init, FQ!Empty, Pending
<1>2. IInv /\ [Next]_vars => [FQ!Next]_FQ!vars
  <2> SUFFICES ASSUME IInv, [Next]_vars PROVE [FQ!Next]_FQ!vars
    OBVIOUS
  <2> USE DEF IInv
  <2>1. CASE /\ UNCHANGED <<accepted, started, job, shutting_down>>
             /\ (lpc = "exited") = (lpc' = "exited")
    BY <2>1 DEF FQ!vars, Pending
  <2>2. CASE Enqueue
    <3>1. /\ cur \in Jobs /\ ~shutting_down /\ lpc # "exited" /\ lpc' # "exited"
          /\ accepted' = Append(accepted, cur)
          /\ UNCHANGED <<started, job, shutting_down>>
      BY <2>2 DEF Enqueue, TypesControl, Control
    <3>2. Pending' = Append(Pending, cur)
      BY <3>1, PendingAppend
    <3>3. FQ!Accept(cur)
      BY <3>1, <3>2 DEF FQ!Accept, FQ!Put, FQ!stopVars
    <3> QED
      BY <3>1, <3>3 DEF FQ!Next
  <2>3. ASSUME NEW w \in Workers, Take(w) PROVE FQ!Next
    <3>1. /\ q_head # NULL /\ job' = [job EXCEPT ![w] = q_head]
          /\ started' = Append(started, q_head)
          /\ UNCHANGED <<accepted, lpc, shutting_down>>
      BY <2>3 DEF Take
    <3>2. job[w] = NULL
      BY <2>3 DEF Take, Wakeups
    <3>3. Pending # << >> /\ q_head = Head(Pending) /\ Pending' = Tail(Pending)
      BY <3>1, PendingPop
    <3>4. FQ!Begin(w)
      BY <3>1, <3>2, <3>3 DEF FQ!Begin, FQ!Take, FQ!stopVars
    <3> QED
      BY <3>4 DEF FQ!Next
  <2>4. ASSUME NEW w \in Workers, Run(w) PROVE FQ!Next
    <3>1. /\ job[w] # NULL /\ job' = [job EXCEPT ![w] = NULL]
          /\ UNCHANGED <<accepted, started, lpc, shutting_down>>
      BY <2>4 DEF Run, Wakeups
    <3>2. FQ!End(w)
      BY <3>1 DEF FQ!End, FQ!Finish, FQ!stopVars, Pending
    <3> QED
      BY <3>2 DEF FQ!Next
  <2>5. CASE ReadTerminate
    <3>1. /\ ~shutting_down /\ shutting_down' = TRUE
          /\ lpc # "exited" /\ lpc' # "exited"
          /\ UNCHANGED <<accepted, started, job>>
      BY <2>5 DEF ReadTerminate, TypesControl, Control, workerVars, histVars
    <3>2. FQ!Stop
      BY <3>1 DEF FQ!Stop, Pending
    <3> QED
      BY <3>2 DEF FQ!Next
  <2>6. CASE Join
    <3>1. /\ \A w \in Workers : wpc[w] = "exited"
          /\ lpc = "join" /\ lpc' = "exited"
          /\ UNCHANGED <<accepted, started, job, shutting_down>>
      BY <2>6 DEF Join, workerVars, histVars
    <3>2. shutting_down /\ q_head = NULL /\ \A w \in Workers : job[w] = NULL
      BY <3>1, DaemonAssumption DEF DaemonAssumption, Wakeups, ExitOnlyDrained
    <3>3. Pending = << >>
      <4>1. /\ Len(started) \in Nat /\ Len(accepted) \in Nat
            /\ \A k \in 1..Len(accepted) : accepted[k] # NULL
        BY DaemonAssumption DEF DaemonAssumption, TypesControl, Types
      <4>2. Len(accepted) < Len(started) + 1
        BY <3>2, <4>1 DEF List, QueueIsFifo, ListIsPending
      <4>3. Len(started) + 1 \in Int /\ Len(accepted) \in Int
        BY <4>1
      <4> QED
        BY <4>2, <4>3, SubSeqEmpty DEF Pending
    <3>4. FQ!Exit
      BY <3>1, <3>2, <3>3 DEF FQ!Exit, FQ!Drained, Pending
    <3> QED
      BY <3>4 DEF FQ!Next
  <2>7. ASSUME NEW r \in Requests, ClientStep(r) PROVE [FQ!Next]_FQ!vars
    BY <2>1, <2>7 DEF ClientStep, Connect, Refused, Send, HangUp, workerVars, histVars
  <2>8. CASE Accept \/ AcceptFails \/ ReadNothing \/ ReadPath \/ EnqueueNoMemory
             \/ Broadcast \/ Drained \/ CloseSocket
    BY <2>1, <2>8 DEF Accept, AcceptFails, ReadNothing, ReadPath, EnqueueNoMemory,
                      Broadcast, Drained, CloseSocket, workerVars, histVars
  <2>9. ASSUME NEW w \in Workers,
               Start(w) \/ GiveUp(w) \/ FindEmpty(w) \/ Sleep(w) \/ Leave(w)
                 \/ SpuriousWakeup(w)
        PROVE  [FQ!Next]_FQ!vars
    BY <2>1, <2>9 DEF Start, GiveUp, FindEmpty, Sleep, Leave, SpuriousWakeup, histVars
  <2>10. CASE UNCHANGED vars
    BY <2>1, <2>10 DEF vars
  <2> QED
    BY <2>2, <2>3, <2>4, <2>5, <2>6, <2>7, <2>8, <2>9, <2>10
    DEF Next, Listener, Worker, Dequeue
<1> QED
  BY <1>1, <1>2, Invariant, PTL DEF SafeSpec, FQ!SafeSpec
=============================================================================
