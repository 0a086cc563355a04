---------------------------- MODULE BBViewProofs ----------------------------
(***************************************************************************)
(* Theorems about the burst buffer, for any number of processes, views,    *)
(* workers and writes, and whatever of FaultKinds fails: a handle's        *)
(* descriptor matches its state; the local file of a waiting or running    *)
(* job is left alone as long as the application lets its jobs end before   *)
(* it reopens the file; the types; and a worker finds the local file of    *)
(* every job and a view in its attributes.                                 *)
(***************************************************************************)
EXTENDS BBView, FiniteSetTheorems, TLAPS

HandleTypes ==
  /\ isOpen \in [Procs -> BOOLEAN]
  /\ state \in [Procs -> States]
  /\ index \in [Procs -> Nat]
  /\ fd \in [Procs -> Paths \cup {Dest, None}]
  /\ sound \in [Procs -> BOOLEAN]
  /\ \A p \in Procs : ~isOpen[p] => state[p] = "DEFAULT" /\ sound[p]

Descriptors == HandleTypes /\ FdMatchesState

\* ompio's set_view touches the view and pointer of one handle, and sets them
\* when it succeeds.
LEMMA OmpioOutcome ==
  ASSUME NEW p \in Procs, NEW v, OmpioSetView(p, v),
         sound \in [Procs -> BOOLEAN]
  PROVE  /\ \E b \in BOOLEAN : sound' = [sound EXCEPT ![p] = b]
         /\ view' = view \/ view' = [view EXCEPT ![p] = v]
         /\ pos' = pos \/ pos' = [pos EXCEPT ![p] = 0]
         /\ sound'[p] => /\ view' = [view EXCEPT ![p] = v]
                         /\ pos' = [pos EXCEPT ![p] = 0]
<1>1. CASE sound' = [sound EXCEPT ![p] = TRUE] /\ view' = [view EXCEPT ![p] = v]
           /\ pos' = [pos EXCEPT ![p] = 0]
  BY <1>1
<1>2. CASE sound' = [sound EXCEPT ![p] = FALSE] /\ UNCHANGED <<view, pos>>
  BY <1>2
<1> QED
  BY <1>1, <1>2 DEF OmpioSetView

\* The types of what it touches.
LEMMA OmpioTypes ==
  ASSUME NEW p \in Procs, NEW v \in Views, OmpioSetView(p, v),
         view \in [Procs -> Views], pos \in [Procs -> Nat],
         sound \in [Procs -> BOOLEAN]
  PROVE  /\ view' \in [Procs -> Views] /\ pos' \in [Procs -> Nat]
         /\ sound' \in [Procs -> BOOLEAN]
<1>1. /\ \E b \in BOOLEAN : sound' = [sound EXCEPT ![p] = b]
      /\ view' = view \/ view' = [view EXCEPT ![p] = v]
      /\ pos' = pos \/ pos' = [pos EXCEPT ![p] = 0]
  BY OmpioOutcome
<1>2. view' \in [Procs -> Views]
  BY <1>1
<1>3. pos' \in [Procs -> Nat]
  BY <1>1
<1> QED
  BY <1>1, <1>2, <1>3

\* No handle is open at the start.
LEMMA DescriptorsInit == Init => Descriptors
BY DEF Init, Descriptors, HandleTypes, FdMatchesState, States

\* The name of the file SetView creates is a path of the model.
LEMMA NewPath ==
  ASSUME HandleTypes, NEW p \in Procs, NextIndex(p) <= MaxViews
  PROVE  <<RankOf[p], NextIndex(p)>> \in Paths
BY BBViewAssumption DEF BBViewAssumption, HandleTypes, NextIndex, Paths

\* Every call of a process keeps its descriptor on the file its state names.
LEMMA DescriptorsStep ==
  ASSUME Descriptors, [Next]_vars
  PROVE  Descriptors'
<1> USE DEF Descriptors, HandleTypes, FdMatchesState, States
<1>1. CASE UNCHANGED handle
  BY <1>1 DEF handle, LocalName
<1>2. ASSUME NEW p \in Procs, Open(p) PROVE Descriptors'
  BY <1>2 DEF Open, LocalName, Reopened
<1>3. ASSUME NEW p \in Procs, SetDefaultView(p) PROVE Descriptors'
  <2>1. /\ isOpen[p] /\ UNCHANGED <<isOpen, index>>
        /\ state' = [state EXCEPT ![p] = IF @ = "FALLBACK" THEN @ ELSE "DEFAULT"]
    BY <1>3 DEF SetDefaultView
  <2>2. PICK b \in BOOLEAN : sound' = [sound EXCEPT ![p] = b]
    BY <1>3 DEF SetDefaultView, OmpioSetView
  <2>3. CASE NeedsFlush(p)
    <3>1. PICK d \in Reopened : fd' = [fd EXCEPT ![p] = d]
      BY <1>3, <2>3 DEF SetDefaultView
    <3>2. Reopened \subseteq Paths \cup {Dest, None} /\ Reopened' = Reopened
      BY DEF Reopened
    <3> QED
      BY <2>1, <2>2, <2>3, <3>1, <3>2 DEF NeedsFlush, LocalName
  <2>4. CASE ~NeedsFlush(p)
    <3>1. fd' = fd
      BY <1>3, <2>4 DEF SetDefaultView
    <3>2. Reopened' = Reopened
      BY DEF Reopened
    <3> QED
      BY <2>1, <2>2, <2>4, <3>1, <3>2 DEF NeedsFlush, LocalName
  <2> QED
    BY <2>3, <2>4
<1>4. ASSUME NEW p \in Procs, SetAtomicity(p) PROVE Descriptors'
  BY <1>4 DEF SetAtomicity, MayFallBack, LocalName
<1>5. ASSUME NEW p \in Procs, NEW v \in ViewsOf[p], SetView(p, v) PROVE Descriptors'
  <2>1. <<RankOf[p], NextIndex(p)>> \in Paths
    BY <1>5, NewPath DEF SetView, BeginView
  <2>2. PICK b \in BOOLEAN : sound' = [sound EXCEPT ![p] = b]
    BY <1>5 DEF SetView, OmpioSetView
  <2> QED
    BY <1>5, <2>1, <2>2 DEF SetView, BeginView, NextIndex, LocalName
<1>6. ASSUME NEW p \in Procs, NEW v \in ViewsOf[p],
             PackFails(p, v) \/ LocalOpenFails(p, v)
      PROVE  Descriptors'
  <2>1. /\ isOpen[p] /\ UNCHANGED isOpen
        /\ state' = [state EXCEPT ![p] = "ACTIVE"]
        /\ index' = [index EXCEPT ![p] = NextIndex(p)]
        /\ sound' = [sound EXCEPT ![p] = FALSE]
    BY <1>6 DEF PackFails, LocalOpenFails, BeginView
  <2>2. \/ fd' = fd
        \/ fd' = [fd EXCEPT ![p] = None]
    BY <1>6 DEF PackFails, LocalOpenFails
  <2>3. NextIndex(p) \in Nat
    BY DEF NextIndex
  <2>4. HandleTypes'
    BY <2>1, <2>2, <2>3
  <2>5. ASSUME NEW q \in Procs, q # p
        PROVE  /\ isOpen'[q] = isOpen[q] /\ state'[q] = state[q]
               /\ sound'[q] = sound[q] /\ fd'[q] = fd[q]
               /\ LocalName(q)' = LocalName(q)
    BY <2>1, <2>2, <2>5 DEF LocalName
  <2>6. state'[p] = "ACTIVE" /\ ~sound'[p]
    BY <2>1
  <2>7. FdMatchesState'
    BY <2>5, <2>6
  <2> QED
    BY <2>4, <2>7
<1>7. ASSUME NEW p \in Procs, NEW v \in ViewsOf[p], SetViewFallback(p, v)
      PROVE  Descriptors'
  <2>1. PICK b \in BOOLEAN : sound' = [sound EXCEPT ![p] = b]
    BY <1>7 DEF SetViewFallback, OmpioSetView
  <2> QED
    BY <1>7, <2>1 DEF SetViewFallback, LocalName
<1>8. ASSUME NEW p \in Procs, NEW k, Write(p) \/ WriteAt(p, k) PROVE Descriptors'
  BY <1>8 DEF Write, WriteAt, WriteEntry, LocalName
<1>9. ASSUME NEW p \in Procs, Close(p) PROVE Descriptors'
  BY <1>9 DEF Close, LocalName
<1>10. ASSUME NEW p \in Procs, FlushFails(p) PROVE Descriptors'
  BY <1>1, <1>10 DEF FlushFails
<1>11. ASSUME NEW w \in Workers, TakeJob(w) \/ Worker(w) \/ JobFails(w)
       PROVE  Descriptors'
  BY <1>1, <1>11 DEF TakeJob, Worker, OpenJob, CopyChunk, EndJob, JobFails
<1>12. CASE UNCHANGED vars
  BY <1>1, <1>12 DEF vars, handle
<1> QED
  BY <1>2, <1>3, <1>4, <1>5, <1>6, <1>7, <1>8, <1>9, <1>10, <1>11, <1>12
  DEF Next, Process

\* A handle writes to the destination exactly when it does not buffer, and to
\* the file its next flush names when it does.
THEOREM DescriptorMatches == SafeSpec => []FdMatchesState
<1>1. Descriptors => FdMatchesState
  BY DEF Descriptors
<1> QED
  BY <1>1, DescriptorsInit, DescriptorsStep, PTL DEF SafeSpec
-----------------------------------------------------------------------------
(* The local file of a waiting or running job is left alone.               *)

\* No two handles of the model share a rank: their local files have
\* different names.
DistinctRanks == \A p, q \in Procs : RankOf[p] = RankOf[q] => p = q

\* A process opens the file once, or reopens it when its jobs are done.
OpensCarefully == "reopen" \in Rules \/ MaxOpens <= 1

\* The files whose data still counts: those of jobs and, when no process opens
\* the file again, those that failed jobs left.
Kept == (Busy \ {None}) \cup (IF MaxOpens <= 1 THEN failed ELSE {})

\* File f belongs to an earlier view than the one p buffers; once p stopped
\* buffering, the last view's file counts as earlier too.
Behind(f, p) == IF state[p] = "ACTIVE" THEN f[2] < index[p] ELSE f[2] <= index[p]

\* The kept files of an open handle are behind it, and a process that never
\* opened the file has none.
Ahead ==
  /\ pending \in Seq(Paths)
  /\ running \in [Workers -> Paths \cup {None}]
  /\ failed \subseteq Paths
  /\ opens \in [Procs -> Nat]
  /\ \A p \in Procs : state[p] = "ACTIVE" => LocalName(p) \in Paths
  /\ \A p \in Procs : \A f \in Kept : isOpen[p] /\ f[1] = RankOf[p] => Behind(f, p)
  /\ \A p \in Procs : opens[p] = 0 => ~isOpen[p] /\ \A f \in Kept : f[1] # RankOf[p]

\* Kept files are paths.
LEMMA KeptPaths == Ahead => Kept \subseteq Paths
BY DEF Ahead, Kept, Busy, ToSet

\* What a queue step does to the set of the jobs that wait or run.
LEMMA BusyPut ==
  ASSUME Ahead, NEW j \in Paths, Daemon!Put(j)
  PROVE  /\ Busy' = Busy \cup {j}
         /\ pending' \in Seq(Paths) /\ running' = running
<1>1. pending' = Append(pending, j) /\ running' = running
  BY DEF Daemon!Put
<1>2. pending \in Seq(Paths)
  BY DEF Ahead
<1>3. ToSet(pending') = ToSet(pending) \cup {j}
  BY <1>1, <1>2 DEF ToSet
<1> QED
  BY <1>1, <1>2, <1>3 DEF Busy

\* A worker that takes a job moves it from the queue to itself.
LEMMA BusyTake ==
  ASSUME Ahead, NEW w \in Workers, Daemon!Take(w)
  PROVE  /\ Busy' \ {None} \subseteq Busy
         /\ pending' \in Seq(Paths) /\ running' \in [Workers -> Paths \cup {None}]
<1>1. pending' = Tail(pending) /\ running' = [running EXCEPT ![w] = Head(pending)]
  BY DEF Daemon!Take
<1>2. pending \in Seq(Paths) /\ pending # << >>
  BY DEF Ahead, Daemon!Take
<1>3. running \in [Workers -> Paths \cup {None}]
  BY DEF Ahead
<1>4. ToSet(pending') \subseteq ToSet(pending)
  BY <1>1, <1>2 DEF ToSet
<1>5. Head(pending) \in ToSet(pending) /\ Head(pending) \in Paths
  BY <1>2 DEF ToSet
<1>6. pending' \in Seq(Paths)
  BY <1>1, <1>2
<1> QED
  BY <1>1, <1>3, <1>4, <1>5, <1>6 DEF Busy

\* A worker that is through with a job removes it, unless it waits again.
LEMMA BusyFinish ==
  ASSUME Ahead, NEW w \in Workers, Daemon!Finish(w)
  PROVE  /\ Busy' \ {None} \subseteq Busy
         /\ pending' \in Seq(Paths) /\ running' \in [Workers -> Paths \cup {None}]
BY DEF Ahead, Daemon!Finish, Busy

\* A flush queues the file of the view that ends, if there is one.
LEMMA BusyFlush ==
  ASSUME Ahead, NEW p \in Procs, Flush(p)
  PROVE  /\ Busy' = IF NeedsFlush(p) THEN Busy \cup {LocalName(p)} ELSE Busy
         /\ pending' \in Seq(Paths) /\ running' = running
<1>1. CASE NeedsFlush(p)
  <2>1. LocalName(p) \in Paths
    BY <1>1 DEF Ahead, NeedsFlush
  <2>2. Daemon!Put(LocalName(p))
    BY <1>1 DEF Flush, Enqueue
  <2> QED
    BY <1>1, <2>1, <2>2, BusyPut
<1>2. CASE ~NeedsFlush(p)
  BY <1>2 DEF Flush, queue, Busy, Ahead
<1> QED
  BY <1>1, <1>2

\* What a flush does to the files that are kept.
LEMMA KeptFlush ==
  ASSUME Ahead, NEW p \in Procs, Flush(p), UNCHANGED failed
  PROVE  Kept' = IF NeedsFlush(p) THEN Kept \cup {LocalName(p)} ELSE Kept
<1>1. Busy' = IF NeedsFlush(p) THEN Busy \cup {LocalName(p)} ELSE Busy
  BY BusyFlush
<1>2. NeedsFlush(p) => LocalName(p) # None
  BY BBViewAssumption DEF Ahead, NeedsFlush, BBViewAssumption
<1> QED
  BY <1>1, <1>2 DEF Kept

\* At the start no job waits or runs and no view was set.
LEMMA AheadInit == Init => Ahead
<1> SUFFICES ASSUME Init PROVE Ahead
  OBVIOUS
<1>1. /\ pending = << >> /\ running = [w \in Workers |-> None] /\ failed = {}
      /\ opens = [p \in Procs |-> 0] /\ isOpen = [p \in Procs |-> FALSE]
  BY DEF Init, Daemon!Empty
<1>2. ToSet(pending) = {}
  BY <1>1 DEF ToSet
<1>3. Kept = {}
  BY <1>1, <1>2 DEF Kept, Busy
<1>4. \A p \in Procs : state[p] # "ACTIVE"
  BY DEF Init
<1> QED
  BY <1>1, <1>3, <1>4 DEF Ahead

\* Steps that queue nothing and leave the handles' indexes alone.
LEMMA AheadKept ==
  ASSUME Ahead, Kept' \subseteq Kept, UNCHANGED <<opens, isOpen, state, index>>,
         pending' \in Seq(Paths), running' \in [Workers -> Paths \cup {None}],
         failed' \subseteq Paths
  PROVE  Ahead'
BY DEF Ahead, LocalName, Behind

\* A new view's index is above that of every kept file of the process, also
\* when the rest of set_view fails.
LEMMA BeginViewAhead ==
  ASSUME HandleTypes, Ahead, DistinctRanks,
         NEW p \in Procs, NEW v \in ViewsOf[p], BeginView(p, v)
  PROVE  Ahead'
<1>1. /\ isOpen[p] /\ NextIndex(p) <= MaxViews
      /\ UNCHANGED <<isOpen, opens, failed>>
      /\ state' = [state EXCEPT ![p] = "ACTIVE"]
      /\ index' = [index EXCEPT ![p] = NextIndex(p)]
  BY DEF BeginView, ghost
<1>2. /\ Kept' = IF NeedsFlush(p) THEN Kept \cup {LocalName(p)} ELSE Kept
      /\ pending' \in Seq(Paths) /\ running' = running
  BY <1>1, BusyFlush, KeptFlush DEF BeginView
<1>3. LocalName(p)' \in Paths
  BY <1>1, NewPath DEF LocalName, HandleTypes
<1>4. ASSUME NEW q \in Procs, q # p
      PROVE  /\ state'[q] = state[q] /\ index'[q] = index[q]
             /\ LocalName(q)' = LocalName(q) /\ RankOf[q] # RankOf[p]
  BY <1>1, <1>4 DEF LocalName, HandleTypes, DistinctRanks
<1>5. state'[p] = "ACTIVE" /\ index'[p] = index[p] + 1 /\ index[p] \in Nat
  BY <1>1 DEF HandleTypes, NextIndex
<1>6. ASSUME NEW f \in Kept', f[1] = RankOf[p]
      PROVE  f[2] < index'[p]
  <2>1. CASE f \in Kept
    <3>1. f[2] \in Nat
      BY <2>1, KeptPaths DEF Paths
    <3>2. f[2] <= index[p]
      BY <1>1, <1>5, <1>6, <2>1, <3>1 DEF Ahead, Behind
    <3> QED
      BY <1>5, <3>1, <3>2
  <2>2. CASE f = LocalName(p)
    BY <1>5, <2>2 DEF LocalName
  <2> QED
    BY <1>2, <1>6, <2>1, <2>2
<1>7. ASSUME NEW q \in Procs, q # p, NEW f \in Kept', f[1] = RankOf[q]
      PROVE  f \in Kept
  BY <1>2, <1>4, <1>7 DEF LocalName
<1>8. ASSUME NEW q \in Procs, NEW f \in Kept', isOpen'[q], f[1] = RankOf[q]
      PROVE  Behind(f, q)'
  <2>1. CASE q = p
    BY <1>5, <1>6, <1>8, <2>1 DEF Behind
  <2>2. CASE q # p
    BY <1>1, <1>4, <1>7, <1>8, <2>2 DEF Ahead, Behind
  <2> QED
    BY <2>1, <2>2
<1>9. \A q \in Procs : state'[q] = "ACTIVE" => LocalName(q)' \in Paths
  BY <1>3, <1>4 DEF Ahead
<1>10. ASSUME NEW q \in Procs, opens'[q] = 0
       PROVE  ~isOpen'[q] /\ \A f \in Kept' : f[1] # RankOf[q]
  BY <1>1, <1>7, <1>10 DEF Ahead
<1> QED
  BY <1>1, <1>2, <1>8, <1>9, <1>10 DEF Ahead

\* A handle starts at index 0 only when no kept file of its process is left.
LEMMA OpenAhead ==
  ASSUME Ahead, DistinctRanks, OpensCarefully, NEW p \in Procs, Open(p)
  PROVE  Ahead'
<1>1. /\ opens[p] < MaxOpens
      /\ opens' = [opens EXCEPT ![p] = @ + 1]
      /\ isOpen' = [isOpen EXCEPT ![p] = TRUE]
      /\ UNCHANGED <<state, index, pending, running, failed>>
  BY DEF Open, queue, ghost
<1>2. Kept' = Kept
  BY <1>1 DEF Kept, Busy
<1>3. ASSUME NEW f \in Kept PROVE f[1] # RankOf[p]
  <2>1. CASE MaxOpens <= 1
    <3>1. opens[p] = 0
      BY <1>1, <2>1, BBViewAssumption DEF Ahead, BBViewAssumption
    <3> QED
      BY <3>1 DEF Ahead
  <2>2. CASE ~(MaxOpens <= 1)
    <3>1. Settled(p) /\ f \in Busy /\ f \in Paths
      BY <2>2, KeptPaths DEF Open, Obeys, OpensCarefully, Kept
    <3> QED
      BY <3>1 DEF Settled, OwnPath
  <2> QED
    BY <2>1, <2>2
<1>4. ASSUME NEW q \in Procs, NEW f \in Kept, isOpen'[q], f[1] = RankOf[q]
      PROVE  Behind(f, q)'
  <2>1. q # p
    BY <1>3, <1>4
  <2>2. isOpen[q]
    BY <1>1, <1>4, <2>1
  <2> QED
    BY <1>1, <1>4, <2>2 DEF Ahead, Behind
<1>5. opens' \in [Procs -> Nat] /\ \A q \in Procs : opens'[q] = 0 => q # p /\ opens[q] = 0
  BY <1>1 DEF Ahead
<1>6. \A q \in Procs : opens'[q] = 0 => ~isOpen'[q] /\ \A f \in Kept : f[1] # RankOf[q]
  BY <1>1, <1>5 DEF Ahead
<1> QED
  BY <1>1, <1>2, <1>4, <1>5, <1>6 DEF Ahead, LocalName

\* SetDefaultView and Close: the handle flushes and stops buffering.
LEMMA StopBufferingAhead ==
  ASSUME HandleTypes, Ahead, DistinctRanks, NEW p \in Procs, isOpen[p], Flush(p),
         UNCHANGED <<opens, failed>>,
         state'[p] # "ACTIVE", isOpen'[p] => index'[p] = index[p],
         \A q \in Procs : q # p => /\ isOpen'[q] = isOpen[q]
                                  /\ state'[q] = state[q] /\ index'[q] = index[q]
  PROVE  Ahead'
<1>1. /\ Kept' = IF NeedsFlush(p) THEN Kept \cup {LocalName(p)} ELSE Kept
      /\ pending' \in Seq(Paths) /\ running' = running
  BY BusyFlush, KeptFlush
<1>2. \A q \in Procs : state'[q] = "ACTIVE" => LocalName(q)' \in Paths
  BY DEF Ahead, LocalName
<1>3. ASSUME NEW q \in Procs, q # p, NEW f \in Kept', f[1] = RankOf[q]
      PROVE  f \in Kept
  BY <1>1, <1>3 DEF LocalName, DistinctRanks
<1>4. ASSUME NEW f \in Kept', f[1] = RankOf[p]
      PROVE  f[2] <= index[p]
  <2>1. index[p] \in Nat
    BY DEF HandleTypes
  <2>2. CASE f = LocalName(p)
    BY <2>1, <2>2 DEF LocalName
  <2>3. CASE f \in Kept
    <3>1. f[2] \in Nat
      BY <2>3, KeptPaths DEF Paths
    <3> QED
      BY <1>4, <2>1, <2>3, <3>1 DEF Ahead, Behind
  <2> QED
    BY <1>1, <1>4, <2>2, <2>3
<1>5. ASSUME NEW q \in Procs, NEW f \in Kept', isOpen'[q], f[1] = RankOf[q]
      PROVE  Behind(f, q)'
  <2>1. CASE q = p
    BY <1>4, <1>5, <2>1 DEF Behind
  <2>2. CASE q # p
    BY <1>3, <1>5, <2>2 DEF Ahead, Behind
  <2> QED
    BY <2>1, <2>2
<1>6. ASSUME NEW q \in Procs, opens'[q] = 0
      PROVE  ~isOpen'[q] /\ \A f \in Kept' : f[1] # RankOf[q]
  <2>1. opens[q] = 0 /\ q # p
    BY <1>6 DEF Ahead
  <2> QED
    BY <1>3, <2>1 DEF Ahead
<1> QED
  BY <1>1, <1>2, <1>5, <1>6 DEF Ahead

\* Every step keeps the index of a handle ahead of the kept files of its
\* process.
LEMMA AheadStep ==
  ASSUME HandleTypes, Ahead, DistinctRanks, OpensCarefully, [Next]_vars
  PROVE  Ahead'
<1>1. ASSUME UNCHANGED <<opens, isOpen, state, index, pending, running, failed>>
      PROVE  Ahead'
  <2>1. Kept' = Kept
    BY <1>1 DEF Kept, Busy
  <2> QED
    BY <1>1, <2>1, AheadKept DEF Ahead
<1>2. ASSUME NEW p \in Procs, Open(p) PROVE Ahead'
  BY <1>2, OpenAhead
<1>3. ASSUME NEW p \in Procs, SetDefaultView(p) \/ Close(p) PROVE Ahead'
  <2>1. isOpen[p] /\ Flush(p) /\ UNCHANGED <<opens, failed>>
    BY <1>3 DEF SetDefaultView, Close, ghost
  <2>2. /\ state'[p] # "ACTIVE"
        /\ isOpen'[p] => index'[p] = index[p]
    BY <1>3 DEF SetDefaultView, Close, HandleTypes
  <2>3. \A q \in Procs : q # p => /\ isOpen'[q] = isOpen[q]
                                  /\ state'[q] = state[q] /\ index'[q] = index[q]
    BY <1>3 DEF SetDefaultView, Close, HandleTypes
  <2> QED
    BY <2>1, <2>2, <2>3, StopBufferingAhead
<1>4. ASSUME NEW p \in Procs, SetAtomicity(p) PROVE Ahead'
  <2>1. UNCHANGED <<opens, isOpen, index, pending, running, failed>>
    BY <1>4 DEF SetAtomicity, queue, ghost
  <2>2. Kept' = Kept
    BY <2>1 DEF Kept, Busy
  <2>3. /\ state[p] # "ACTIVE" /\ state'[p] = "FALLBACK"
        /\ \A q \in Procs : q # p => state'[q] = state[q]
    BY <1>4 DEF SetAtomicity, MayFallBack, HandleTypes
  <2>4. \A q \in Procs : state'[q] = "ACTIVE" <=> state[q] = "ACTIVE"
    BY <2>3
  <2> QED
    BY <2>1, <2>2, <2>4 DEF Ahead, LocalName, Behind
<1>5. ASSUME NEW p \in Procs, NEW v \in ViewsOf[p],
             SetView(p, v) \/ PackFails(p, v) \/ LocalOpenFails(p, v)
      PROVE  Ahead'
  BY <1>5, BeginViewAhead DEF SetView, PackFails, LocalOpenFails
<1>6. ASSUME NEW p \in Procs, NEW v \in ViewsOf[p], SetViewFallback(p, v) PROVE Ahead'
  BY <1>1, <1>6 DEF SetViewFallback, queue, ghost
<1>7. ASSUME NEW p \in Procs, NEW k, Write(p) \/ WriteAt(p, k) PROVE Ahead'
  BY <1>1, <1>7 DEF Write, WriteAt, WriteEntry, queue
<1>8. ASSUME NEW p \in Procs, FlushFails(p) PROVE Ahead'
  BY <1>1, <1>8 DEF FlushFails, handle, queue, ghost
<1>9. ASSUME NEW w \in Workers, TakeJob(w) PROVE Ahead'
  <2>1. UNCHANGED <<opens, isOpen, state, index, failed>> /\ Daemon!Take(w)
    BY <1>9 DEF TakeJob, handle, ghost
  <2>2. Kept' \subseteq Kept
    BY <2>1, BusyTake DEF Kept
  <2> QED
    BY <2>1, <2>2, BusyTake, AheadKept DEF Ahead
<1>10. ASSUME NEW w \in Workers, EndJob(w) \/ JobFails(w) PROVE Ahead'
  <2>1. /\ UNCHANGED <<opens, isOpen, state, index>> /\ Daemon!Finish(w)
        /\ running[w] # None /\ failed' \in {failed, failed \cup {running[w]}}
    BY <1>10 DEF EndJob, JobFails, Daemon!Finish, handle, ghost
  <2>2. running[w] \in Busy /\ running[w] \in Paths
    BY <2>1 DEF Busy, Ahead
  <2>3. Kept' \subseteq Kept
    BY <2>1, <2>2, BusyFinish DEF Kept
  <2> QED
    BY <2>1, <2>2, <2>3, BusyFinish, AheadKept DEF Ahead
<1>11. ASSUME NEW w \in Workers, OpenJob(w) \/ CopyChunk(w) PROVE Ahead'
  BY <1>1, <1>11 DEF OpenJob, CopyChunk, handle, queue, ghost
<1>12. CASE UNCHANGED vars
  BY <1>1, <1>12 DEF vars
<1> QED
  BY <1>2, <1>3, <1>4, <1>5, <1>6, <1>7, <1>8, <1>9, <1>10, <1>11, <1>12
  DEF Next, Process, Worker

\* The local files are a function on the paths.
LocalFcn == local = [f \in Paths |-> local[f]]

\* The local files are a function on the paths at the start.
LEMMA LocalFcnInit == Init => LocalFcn
BY DEF Init, LocalFcn

\* Every step leaves the local files a function on the paths.
LEMMA LocalFcnStep ==
  ASSUME LocalFcn, [Next]_vars
  PROVE  LocalFcn'
<1>1. ASSUME NEW g, NEW x, local' = [local EXCEPT ![g] = x] PROVE LocalFcn'
  BY <1>1 DEF LocalFcn
<1>2. CASE UNCHANGED local
  BY <1>2 DEF LocalFcn
<1>3. ASSUME NEW p \in Procs, NEW v \in ViewsOf[p],
             SetView(p, v) \/ PackFails(p, v) \/ LocalOpenFails(p, v)
      PROVE  LocalFcn'
  BY <1>1, <1>2, <1>3 DEF SetView, PackFails, LocalOpenFails
<1>4. ASSUME NEW p \in Procs, NEW k, WriteEntry(p, k) PROVE LocalFcn'
  <2>1. \/ UNCHANGED local
        \/ local' = [local EXCEPT ![fd[p]] = Put(local[fd[p]], k, writes')]
    BY <1>4 DEF WriteEntry
  <2> QED
    BY <1>1, <1>2, <2>1
<1> QED
  BY <1>2, <1>3, <1>4
  DEF Next, Process, Worker, Open, FlushFails, SetDefaultView, SetAtomicity,
      SetViewFallback, Write, WriteAt, Close, TakeJob, OpenJob, CopyChunk,
      EndJob, JobFails, vars

\* A local file that a handle buffers is not kept yet.
LEMMA BufferedNotKept ==
  ASSUME HandleTypes, Ahead, NEW p \in Procs, isOpen[p], state[p] = "ACTIVE"
  PROVE  LocalName(p) \notin Kept
<1> SUFFICES ASSUME LocalName(p) \in Kept PROVE FALSE
  OBVIOUS
<1>1. LocalName(p)[1] = RankOf[p] /\ LocalName(p)[2] = index[p] /\ index[p] \in Nat
  BY DEF LocalName, HandleTypes
<1>2. index[p] < index[p]
  BY <1>1 DEF Ahead, Behind
<1> QED
  BY <1>1, <1>2

\* A step that changes a local file changes that of the view a handle
\* buffers or is about to buffer: none that is kept.
LEMMA KeptUntouchedStep ==
  ASSUME Descriptors, Ahead, LocalFcn, [Next]_vars
  PROVE  \A f \in Kept : local'[f] = local[f]
<1> USE DEF Descriptors
<1>1. ASSUME NEW p \in Procs, NEW v \in ViewsOf[p], NEW f \in Kept,
             SetView(p, v) \/ PackFails(p, v) \/ LocalOpenFails(p, v)
      PROVE  local'[f] = local[f]
  <2>1. isOpen[p] /\ index[p] \in Nat
    BY <1>1 DEF SetView, PackFails, LocalOpenFails, BeginView, HandleTypes
  <2>2. f \in Paths
    BY KeptPaths
  <2>3. f[2] \in Nat
    BY <2>2 DEF Paths
  <2>4. f # <<RankOf[p], NextIndex(p)>>
    BY <2>1, <2>2, <2>3 DEF Ahead, Behind, NextIndex
  <2> QED
    BY <1>1, <2>2, <2>4 DEF SetView, PackFails, LocalOpenFails, LocalFcn
<1>2. ASSUME NEW p \in Procs, NEW k, NEW f \in Kept, WriteEntry(p, k)
      PROVE  local'[f] = local[f]
  <2>1. CASE fd[p] = Dest
    BY <1>2, <2>1 DEF WriteEntry
  <2>2. CASE fd[p] # Dest
    <3>1. isOpen[p] /\ sound[p] /\ state[p] = "ACTIVE" /\ fd[p] = LocalName(p)
      BY <1>2, <2>2 DEF WriteEntry, FdMatchesState, Reopened
    <3>2. f \in Paths /\ f # fd[p]
      BY <3>1, KeptPaths, BufferedNotKept
    <3> QED
      BY <1>2, <2>2, <3>2 DEF WriteEntry, LocalFcn
  <2> QED
    BY <2>1, <2>2
<1>3. ASSUME UNCHANGED local PROVE \A f \in Kept : local'[f] = local[f]
  BY <1>3
<1> QED
  BY <1>1, <1>2, <1>3
  DEF Next, Process, Worker, Open, FlushFails, SetDefaultView, SetAtomicity,
      SetViewFallback, Write, WriteAt, Close, TakeJob, OpenJob, CopyChunk,
      EndJob, JobFails, vars

\* Whatever fails, no local file is truncated or written before its job is
\* over, when an application opens the file once or reopens it only after its
\* jobs ended (open() with O_TRUNC in set_view names the file by rank and view
\* only).
THEOREM JobsLeftAlone ==
  ASSUME DistinctRanks, OpensCarefully
  PROVE  SafeSpec => JobsUntouched
<1>1. Init => Descriptors /\ Ahead /\ LocalFcn
  BY DescriptorsInit, AheadInit, LocalFcnInit
<1>2. Descriptors /\ Ahead /\ LocalFcn /\ [Next]_vars
      => (Descriptors /\ Ahead /\ LocalFcn)'
  BY DescriptorsStep, AheadStep, LocalFcnStep DEF Descriptors
<1>3. Descriptors /\ Ahead /\ LocalFcn /\ [Next]_vars
      => [\A f \in Busy \ {None} : local'[f] = local[f]]_vars
  BY KeptUntouchedStep DEF Kept
<1> QED
  BY <1>1, <1>2, <1>3, PTL DEF SafeSpec, JobsUntouched
-----------------------------------------------------------------------------
(* The types, and what every job needs.                                    *)

\* A local file that exists, with a view in its attributes.
Attached(f) == local[f] # None /\ attr[f] # None

\* Every job can be run.
JobsReady ==
  /\ \A i \in 1..Len(pending) : Attached(pending[i])
  /\ \A w \in Workers : running[w] # None => Attached(running[w])
  /\ \A w \in Workers : copy[w] # None => running[w] # None

\* What a handle that buffers would flush.
HandlesReady ==
  /\ \A p \in Procs : state[p] = "ACTIVE" => saved[p] # None /\ index[p] >= 1
  /\ \A p \in Procs : isOpen[p] /\ state[p] = "ACTIVE" /\ sound[p] => local[LocalName(p)] # None

DInv == TypeOK /\ Descriptors /\ LocalFcn /\ JobsReady /\ HandlesReady

\* Neither files nor attributes go away.
Stay == /\ \A f \in Paths : local[f] # None => local'[f] # None
        /\ \A f \in Paths : attr[f] # None => attr'[f] # None

\* It holds at the start.
LEMMA InitDInv == Init => DInv
<1> SUFFICES ASSUME Init PROVE DInv
  OBVIOUS
<1>1. pending = << >> /\ running = [w \in Workers |-> None]
  BY DEF Init, Daemon!Empty
<1>2. ByteView \in Views /\ Old \in Values
  BY BBViewAssumption DEF BBViewAssumption, Views, Old, Values
<1>3. TypeOK
  BY <1>1, <1>2, BBViewAssumption DEF BBViewAssumption, Init, TypeOK, States
<1>4. JobsReady /\ HandlesReady
  BY <1>1 DEF Init, JobsReady, HandlesReady
<1> QED
  BY <1>3, <1>4, DescriptorsInit, LocalFcnInit DEF DInv
-----------------------------------------------------------------------------
(* What steps of the queue and of the files do.                            *)

\* A buffering handle has a local file name and a view to save.
LEMMA LocalNames ==
  ASSUME DInv, NEW p \in Procs, state[p] = "ACTIVE"
  PROVE  LocalName(p) \in Paths /\ saved[p] \in Views
BY DEF DInv, TypeOK, HandlesReady, LocalName, Paths

\* A flush queues a job that can be run.
LEMMA FlushReady ==
  ASSUME DInv, NEW p \in Procs, Flush(p)
  PROVE  /\ attr' \in [Paths -> Views \cup {None}]
         /\ \A f \in Paths : attr[f] # None => attr'[f] # None
         /\ pending' \in Seq(Paths) /\ running' = running
         /\ \A i \in 1..Len(pending') : local[pending'[i]] # None /\ attr'[pending'[i]] # None
<1>1. pending \in Seq(Paths) /\ attr \in [Paths -> Views \cup {None}]
  BY DEF DInv, TypeOK
<1>2. CASE ~NeedsFlush(p)
  <2>1. UNCHANGED <<attr, pending, running>>
    BY <1>2 DEF Flush, queue
  <2> QED
    BY <1>1, <2>1 DEF DInv, JobsReady, Attached
<1>3. CASE NeedsFlush(p)
  <2> DEFINE f == LocalName(p)
  <2>1. f \in Paths /\ saved[p] \in Views /\ saved[p] # None
    BY <1>3, LocalNames, BBViewAssumption DEF NeedsFlush, BBViewAssumption
  <2>2. local[f] # None /\ attr' = [attr EXCEPT ![f] = saved[p]]
    BY <1>3 DEF Flush, Enqueue, SetAttributes
  <2>3. pending' = Append(pending, f) /\ running' = running
    BY <1>3 DEF Flush, Enqueue, Daemon!Put
  <2> HIDE DEF f
  <2>4. attr' \in [Paths -> Views \cup {None}]
    BY <1>1, <2>1, <2>2
  <2>5. \A g \in Paths : attr[g] # None => attr'[g] # None
    BY <1>1, <2>1, <2>2
  <2>6. /\ pending' \in Seq(Paths) /\ Len(pending') = Len(pending) + 1
        /\ pending'[Len(pending) + 1] = f
        /\ \A i \in 1..Len(pending) : pending'[i] = pending[i] /\ pending[i] \in Paths
    BY <1>1, <2>1, <2>3
  <2>7. attr'[f] # None
    BY <1>1, <2>1, <2>2
  <2>8. ASSUME NEW i \in 1..Len(pending')
        PROVE  local[pending'[i]] # None /\ attr'[pending'[i]] # None
    <3>1. CASE i = Len(pending) + 1
      BY <2>2, <2>6, <2>7, <3>1
    <3>2. CASE i \in 1..Len(pending)
      BY <2>5, <2>6, <3>2 DEF DInv, JobsReady, Attached
    <3> QED
      BY <1>1, <2>6, <3>1, <3>2
  <2> QED
    BY <2>3, <2>4, <2>5, <2>6, <2>8
<1> QED
  BY <1>2, <1>3

\* The jobs stay as they are while nothing goes away.
LEMMA JobsKept ==
  ASSUME DInv, Stay, UNCHANGED <<pending, running, copy>>
  PROVE  JobsReady'
<1>1. \A i \in 1..Len(pending) : pending[i] \in Paths
  BY DEF DInv, TypeOK
<1>2. \A w \in Workers : running[w] # None => running[w] \in Paths
  BY DEF DInv, TypeOK
<1> QED
  BY <1>1, <1>2 DEF DInv, JobsReady, Attached, Stay

\* They are ready after a flush too.
LEMMA JobsFlushed ==
  ASSUME DInv, NEW p \in Procs, Flush(p), UNCHANGED copy,
         \A f \in Paths : local[f] # None => local'[f] # None
  PROVE  JobsReady'
<1>1. /\ pending' \in Seq(Paths) /\ running' = running
      /\ \A i \in 1..Len(pending') : local[pending'[i]] # None /\ attr'[pending'[i]] # None
      /\ \A f \in Paths : attr[f] # None => attr'[f] # None
  BY FlushReady
<1>3. \A i \in 1..Len(pending') : local'[pending'[i]] # None
  BY <1>1
<1>2. \A w \in Workers : running[w] # None => running[w] \in Paths
  BY DEF DInv, TypeOK
<1> QED
  BY <1>1, <1>2, <1>3 DEF DInv, JobsReady, Attached
-----------------------------------------------------------------------------
(* The steps of a process.                                                 *)

\* set_view with the default view keeps types and jobs.
LEMMA SetDefaultViewData ==
  ASSUME DInv, NEW p \in Procs, SetDefaultView(p)
  PROVE  (TypeOK /\ JobsReady /\ HandlesReady)'
<1>1. Flush(p) /\ UNCHANGED <<opens, isOpen, index, local, dest, copy, writes, want, failed>>
  BY DEF SetDefaultView, ghost
<1>2. JobsReady'
  BY <1>1, JobsFlushed
<1>3. ByteView \in Views
  BY DEF Views
<1>4. sound \in [Procs -> BOOLEAN]
  BY DEF DInv, TypeOK
<1>5. /\ \E b \in BOOLEAN : sound' = [sound EXCEPT ![p] = b]
      /\ view' = view \/ view' = [view EXCEPT ![p] = ByteView]
      /\ pos' = pos \/ pos' = [pos EXCEPT ![p] = 0]
  BY <1>4, OmpioOutcome DEF SetDefaultView
<1>6. fd' \in [Procs -> Paths \cup {Dest, None}]
  <2>1. fd' = fd \/ fd' = [fd EXCEPT ![p] = Dest] \/ fd' = [fd EXCEPT ![p] = None]
    BY DEF SetDefaultView, Reopened
  <2>2. fd \in [Procs -> Paths \cup {Dest, None}]
    BY DEF DInv, TypeOK
  <2> QED
    BY <2>1, <2>2
<1>7. TypeOK'
  <2>1. /\ state' \in [Procs -> States]
        /\ saved' \in [Procs -> Views \cup {None}]
    BY DEF SetDefaultView, DInv, TypeOK, States
  <2>2. /\ view' \in [Procs -> Views] /\ pos' \in [Procs -> Nat]
        /\ sound' \in [Procs -> BOOLEAN]
    BY <1>3, OmpioTypes DEF SetDefaultView, DInv, TypeOK
  <2>3. /\ attr' \in [Paths -> Views \cup {None}] /\ pending' \in Seq(Paths)
        /\ running' = running
    BY <1>1, FlushReady
  <2> QED
    BY <1>1, <1>6, <2>1, <2>2, <2>3 DEF DInv, TypeOK
<1>8. HandlesReady'
  <2>1. state'[p] # "ACTIVE"
    BY DEF SetDefaultView, DInv, TypeOK
  <2>2. \A q \in Procs : q # p => /\ state'[q] = state[q] /\ saved'[q] = saved[q]
                                  /\ sound'[q] = sound[q] /\ LocalName(q)' = LocalName(q)
    <3>1. PICK b \in BOOLEAN : sound' = [sound EXCEPT ![p] = b]
      BY <1>5
    <3> QED
      BY <1>1, <1>4, <3>1 DEF SetDefaultView, DInv, TypeOK, LocalName
  <2> QED
    BY <1>1, <2>1, <2>2 DEF DInv, HandlesReady
<1> QED
  BY <1>2, <1>7, <1>8

\* So does close.
LEMMA CloseData ==
  ASSUME DInv, NEW p \in Procs, Close(p)
  PROVE  (TypeOK /\ JobsReady /\ HandlesReady)'
<1>1. Flush(p) /\ UNCHANGED <<opens, local, dest, copy, writes, want, failed>>
  BY DEF Close, ghost
<1>2. JobsReady'
  BY <1>1, JobsFlushed
<1>3. ByteView \in Views
  BY DEF Views
<1>4. TypeOK'
  BY <1>1, <1>3, FlushReady, BBViewAssumption DEF DInv, Close, TypeOK, States, BBViewAssumption
<1>5. HandlesReady'
  <2>1. state'[p] # "ACTIVE"
    BY DEF Close, DInv, TypeOK
  <2>2. \A q \in Procs : q # p => /\ state'[q] = state[q] /\ saved'[q] = saved[q]
                                  /\ isOpen'[q] = isOpen[q] /\ index'[q] = index[q]
                                  /\ sound'[q] = sound[q] /\ LocalName(q)' = LocalName(q)
    BY DEF Close, DInv, TypeOK, LocalName
  <2> QED
    BY <1>1, <2>1, <2>2 DEF DInv, HandlesReady
<1> QED
  BY <1>2, <1>4, <1>5

\* SetView, PackFails and LocalOpenFails: the file of the new view may be created.
LEMMA BeginViewData ==
  ASSUME DInv, NEW p \in Procs, NEW v \in ViewsOf[p],
         SetView(p, v) \/ PackFails(p, v) \/ LocalOpenFails(p, v)
  PROVE  (TypeOK /\ JobsReady /\ HandlesReady)'
<1> DEFINE g == <<RankOf[p], NextIndex(p)>>
<1>1. /\ BeginView(p, v) /\ Flush(p) /\ NextIndex(p) <= MaxViews
      /\ UNCHANGED <<opens, isOpen, dest, copy, writes, want, failed>>
      /\ state' = [state EXCEPT ![p] = "ACTIVE"]
      /\ index' = [index EXCEPT ![p] = NextIndex(p)]
      /\ saved' = [saved EXCEPT ![p] = v]
  BY DEF SetView, PackFails, LocalOpenFails, BeginView, ghost
<1>2. g \in Paths
  BY <1>1, NewPath DEF DInv, Descriptors
<1>3. v \in Views /\ v # None
  BY BBViewAssumption DEF Views, BBViewAssumption
<1>4. /\ local' = local \/ local' = [local EXCEPT ![g] = << >>]
      /\ SetView(p, v) => local' = [local EXCEPT ![g] = << >>]
  BY DEF SetView, PackFails, LocalOpenFails
<1>5. << >> \in Seq(Values) /\ << >> # None
  <2>1. << >> \in Seq(Values)
    OBVIOUS
  <2> QED
    BY <2>1, BBViewAssumption DEF BBViewAssumption
<1>6. \A f \in Paths : /\ local[f] # None => local'[f] # None
                       /\ local'[f] = None \/ local'[f] \in Seq(Values)
  BY <1>2, <1>4, <1>5 DEF DInv, TypeOK, LocalFcn
<1>7. JobsReady'
  BY <1>1, <1>6, JobsFlushed
<1>8. /\ view' \in [Procs -> Views] /\ pos' \in [Procs -> Nat]
      /\ fd' \in [Procs -> Paths \cup {Dest, None}] /\ sound' \in [Procs -> BOOLEAN]
  <2>1. /\ view' = view \/ view' = [view EXCEPT ![p] = v]
        /\ pos' = pos \/ pos' = [pos EXCEPT ![p] = 0]
        /\ fd' = fd \/ fd' = [fd EXCEPT ![p] = g] \/ fd' = [fd EXCEPT ![p] = None]
        /\ \E b \in BOOLEAN : sound' = [sound EXCEPT ![p] = b]
    <3>1. CASE SetView(p, v)
      <4>1. sound \in [Procs -> BOOLEAN]
        BY DEF DInv, TypeOK
      <4> QED
        BY <3>1, <4>1, OmpioOutcome DEF SetView
    <3>2. CASE PackFails(p, v) \/ LocalOpenFails(p, v)
      BY <3>2 DEF PackFails, LocalOpenFails
    <3> QED
      BY <3>1, <3>2
  <2>2. /\ view \in [Procs -> Views] /\ pos \in [Procs -> Nat]
        /\ fd \in [Procs -> Paths \cup {Dest, None}] /\ sound \in [Procs -> BOOLEAN]
    BY DEF DInv, TypeOK
  <2> HIDE DEF g
  <2>3. view' \in [Procs -> Views]
    BY <1>3, <2>1, <2>2
  <2>4. pos' \in [Procs -> Nat]
    BY <2>1, <2>2
  <2>5. fd' \in [Procs -> Paths \cup {Dest, None}]
    BY <1>2, <2>1, <2>2
  <2>6. sound' \in [Procs -> BOOLEAN]
    BY <2>1, <2>2
  <2> QED
    BY <2>3, <2>4, <2>5, <2>6
<1>9. NextIndex(p) \in 1..MaxViews
  BY <1>1, BBViewAssumption DEF NextIndex, DInv, TypeOK, BBViewAssumption
<1>10. TypeOK'
  <2>1. state' \in [Procs -> States] /\ index' \in [Procs -> 0..MaxViews]
    BY <1>1, <1>9 DEF DInv, TypeOK, States
  <2>2. saved' \in [Procs -> Views \cup {None}]
    BY <1>1, <1>3 DEF DInv, TypeOK
  <2>3. /\ attr' \in [Paths -> Views \cup {None}] /\ pending' \in Seq(Paths)
        /\ running' = running
    BY <1>1, FlushReady
  <2> QED
    BY <1>1, <1>6, <1>8, <2>1, <2>2, <2>3 DEF DInv, TypeOK
<1>11. HandlesReady'
  <2>1. \A q \in Procs : state'[q] = "ACTIVE" => saved'[q] # None /\ index'[q] >= 1
    BY <1>1, <1>3, <1>9 DEF DInv, TypeOK, HandlesReady
  <2>2. ASSUME NEW q \in Procs, q # p, isOpen'[q], state'[q] = "ACTIVE", sound'[q]
        PROVE  local'[LocalName(q)'] # None
    <3>1. /\ isOpen[q] /\ state[q] = "ACTIVE" /\ sound[q] = sound'[q]
          /\ LocalName(q)' = LocalName(q)
      <4>1. PICK b \in BOOLEAN : sound' = [sound EXCEPT ![p] = b]
        BY DEF SetView, PackFails, LocalOpenFails, OmpioSetView
      <4> QED
        BY <1>1, <2>2, <4>1 DEF DInv, TypeOK, LocalName
    <3>2. LocalName(q) \in Paths /\ local[LocalName(q)] # None
      BY <2>2, <3>1, LocalNames DEF DInv, HandlesReady
    <3> QED
      BY <1>6, <3>1, <3>2
  <2>3. ASSUME sound'[p] PROVE local'[LocalName(p)'] # None
    <3>1. SetView(p, v)
      BY <2>3 DEF PackFails, LocalOpenFails, DInv, TypeOK
    <3>2. LocalName(p)' = g
      BY <1>1 DEF LocalName, DInv, TypeOK
    <3>3. local'[g] = << >>
      BY <1>2, <1>4, <3>1 DEF DInv, LocalFcn
    <3> QED
      BY <1>5, <3>2, <3>3
  <2> QED
    BY <2>1, <2>2, <2>3 DEF HandlesReady, LocalName
<1> QED
  BY <1>7, <1>10, <1>11

\* A view is a sequence of offsets.
LEMMA ViewSequences == \A v \in Views : v \in Seq(Offsets)
<1>1. Cardinality(Offsets) \in Nat
  BY FS_CardinalityType, BBViewAssumption DEF BBViewAssumption
<1>2. Offsets = 1..Cardinality(Offsets)
  BY BBViewAssumption DEF BBViewAssumption
<1>3. ByteView \in Seq(Offsets)
  <2> DEFINE n == Cardinality(Offsets)
  <2>1. ByteView = [i \in 1..n |-> i] /\ \A i \in 1..n : i \in Offsets
    BY <1>2 DEF ByteView
  <2> HIDE DEF n
  <2> QED
    BY <1>1, <2>1 DEF n
<1>4. \A p \in Procs : \A v \in ViewsOf[p] : v \in Seq(Offsets)
  BY BBViewAssumption DEF BBViewAssumption
<1> QED
  BY <1>3, <1>4 DEF Views

\* A write goes to the destination or makes the local file longer.
LEMMA WriteData ==
  ASSUME DInv, NEW p \in Procs, NEW k, WriteEntry(p, k),
         pos' = pos \/ pos' = [pos EXCEPT ![p] = @ + 1]
  PROVE  (TypeOK /\ JobsReady /\ HandlesReady)'
<1>1. /\ writes' = writes + 1 /\ writes < MaxWrites
      /\ want' = [want EXCEPT ![view[p][k]] = writes']
      /\ UNCHANGED <<opens, isOpen, state, index, saved, view, fd, sound, attr, pending,
                     running, copy, failed>>
  BY DEF WriteEntry, queue
<1>2. writes' \in 0..MaxWrites /\ writes' \in Values
  BY <1>1, BBViewAssumption DEF DInv, TypeOK, Values, BBViewAssumption
<1>3. want' \in [Offsets -> Values]
  BY <1>1, <1>2 DEF DInv, TypeOK
<1>4. /\ dest' \in [Offsets -> Values]
      /\ \A f \in Paths : /\ local[f] # None => local'[f] # None
                          /\ local'[f] = None \/ local'[f] \in Seq(Values)
  <2>1. CASE fd[p] = Dest
    <3>1. UNCHANGED local /\ dest' = [dest EXCEPT ![view[p][k]] = writes']
      BY <2>1 DEF WriteEntry
    <3> QED
      BY <1>2, <3>1 DEF DInv, TypeOK
  <2>2. CASE fd[p] # Dest
    <3>1. UNCHANGED dest /\ local' = [local EXCEPT ![fd[p]] = Put(@, k, writes')]
      BY <2>2 DEF WriteEntry
    <3>2. isOpen[p] /\ sound[p] /\ state[p] = "ACTIVE" /\ fd[p] = LocalName(p)
      BY <2>2 DEF WriteEntry, DInv, Descriptors, HandleTypes, FdMatchesState, Reopened
    <3>3. fd[p] \in Paths /\ local[fd[p]] # None
      BY <3>2, LocalNames DEF DInv, HandlesReady
    <3>4. local[fd[p]] \in Seq(Values)
      BY <3>3 DEF DInv, TypeOK
    <3>5. k \in Nat
      <4>1. view[p] \in Seq(Offsets) /\ k \in 1..Len(view[p])
        BY ViewSequences DEF WriteEntry, DInv, TypeOK
      <4> QED
        BY <4>1
    <3>6. ASSUME NEW s \in Seq(Values) PROVE Put(s, k, writes') \in Seq(Values)
      <4> DEFINE n == IF k > Len(s) THEN k ELSE Len(s)
      <4>1. n \in Nat
        BY <3>5
      <4>2. Put(s, k, writes') = [i \in 1..n |-> IF i = k THEN writes' ELSE IF i <= Len(s) THEN s[i] ELSE Hole]
        BY DEF Put
      <4>3. \A i \in 1..n : (IF i = k THEN writes' ELSE IF i <= Len(s) THEN s[i] ELSE Hole) \in Values
        BY <1>2, BBViewAssumption DEF Hole, Values, BBViewAssumption
      <4> HIDE DEF n
      <4> QED
        BY <4>1, <4>2, <4>3
    <3>7. Put(local[fd[p]], k, writes') \in Seq(Values) /\ Put(local[fd[p]], k, writes') # None
      BY <3>4, <3>6, BBViewAssumption DEF BBViewAssumption
    <3>8. \A f \in Paths : local'[f] = IF f = fd[p] THEN Put(local[fd[p]], k, writes') ELSE local[f]
      BY <3>1, <3>3 DEF DInv, LocalFcn
    <3> QED
      BY <3>1, <3>7, <3>8 DEF DInv, TypeOK
  <2> QED
    BY <2>1, <2>2
<1>5. JobsReady'
  BY <1>1, <1>4, JobsKept DEF Stay
<1>6. pos' \in [Procs -> Nat]
  <2>1. pos \in [Procs -> Nat]
    BY DEF DInv, TypeOK
  <2> QED
    BY <2>1
<1>7. TypeOK'
  BY <1>1, <1>2, <1>3, <1>4, <1>6 DEF DInv, TypeOK
<1>8. HandlesReady'
  BY <1>1, <1>4, LocalNames DEF DInv, HandlesReady, LocalName
<1> QED
  BY <1>5, <1>7, <1>8

\* A flush that fails may have replaced the attributes.
LEMMA FlushFailsData ==
  ASSUME DInv, NEW p \in Procs, FlushFails(p)
  PROVE  (TypeOK /\ JobsReady /\ HandlesReady)'
<1>1. /\ NeedsFlush(p) /\ attr' = [attr EXCEPT ![LocalName(p)] = saved[p]]
      /\ UNCHANGED <<opens, isOpen, state, index, saved, view, pos, fd, sound, local, dest,
                     pending, running, copy, writes, want, failed>>
  BY DEF FlushFails, SetAttributes, handle, queue, ghost
<1>2. LocalName(p) \in Paths /\ saved[p] \in Views /\ saved[p] # None
  BY <1>1, LocalNames, BBViewAssumption DEF NeedsFlush, BBViewAssumption
<1>3. attr' \in [Paths -> Views \cup {None}] /\ Stay
  BY <1>1, <1>2 DEF DInv, TypeOK, Stay
<1>4. JobsReady'
  BY <1>1, <1>3, JobsKept
<1>5. TypeOK'
  BY <1>1, <1>3 DEF DInv, TypeOK
<1>6. HandlesReady'
  BY <1>1 DEF DInv, HandlesReady, LocalName
<1> QED
  BY <1>4, <1>5, <1>6

\* Steps of a process that touch neither files nor queue.
LEMMA HandleData ==
  ASSUME DInv, NEW p \in Procs,
         Open(p) \/ SetAtomicity(p) \/ \E v \in ViewsOf[p] : SetViewFallback(p, v)
  PROVE  (TypeOK /\ JobsReady /\ HandlesReady)'
<1>1. UNCHANGED <<index, saved, local, attr, dest, pending, running, copy, writes, want, failed>>
  BY DEF Open, SetAtomicity, SetViewFallback, queue, ghost
<1>2. JobsReady'
  BY <1>1, JobsKept DEF Stay
<1>3. TypeOK'
  <2>1. CASE Open(p)
    BY <1>1, <2>1, BBViewAssumption DEF Open, DInv, TypeOK, BBViewAssumption
  <2>2. CASE SetAtomicity(p)
    BY <1>1, <2>2 DEF SetAtomicity, DInv, TypeOK, States
  <2>3. ASSUME NEW v \in ViewsOf[p], SetViewFallback(p, v) PROVE TypeOK'
    <3>1. sound \in [Procs -> BOOLEAN] /\ v \in Views
      BY DEF DInv, TypeOK, Views
    <3>2. /\ view' \in [Procs -> Views] /\ pos' \in [Procs -> Nat]
          /\ sound' \in [Procs -> BOOLEAN]
      BY <2>3, <3>1, OmpioTypes DEF SetViewFallback, DInv, TypeOK
    <3> QED
      BY <1>1, <2>3, <3>2 DEF SetViewFallback, DInv, TypeOK
  <2> QED
    BY <2>1, <2>2, <2>3
<1>4. HandlesReady'
  <2>1. \A q \in Procs : state'[q] = "ACTIVE" => state[q] = "ACTIVE"
    BY DEF Open, SetAtomicity, SetViewFallback, DInv, TypeOK
  <2>2. \A q \in Procs : isOpen'[q] /\ state'[q] = "ACTIVE" => isOpen[q]
    BY DEF Open, SetAtomicity, SetViewFallback, DInv, TypeOK, Descriptors, HandleTypes
  <2>3. \A q \in Procs : state'[q] = "ACTIVE" => sound'[q] = sound[q]
    <3>1. ASSUME NEW v \in ViewsOf[p], SetViewFallback(p, v), NEW q \in Procs,
                 state'[q] = "ACTIVE"
          PROVE  sound'[q] = sound[q]
      <4>1. q # p
        <5>1. state[p] = "FALLBACK" /\ state' = state
          BY <3>1 DEF SetViewFallback
        <5> QED
          BY <3>1, <5>1
      <4>2. PICK b \in BOOLEAN : sound' = [sound EXCEPT ![p] = b]
        BY <3>1 DEF SetViewFallback, OmpioSetView
      <4> QED
        BY <4>1, <4>2 DEF DInv, TypeOK
    <3> QED
      BY <3>1 DEF Open, SetAtomicity
  <2> QED
    BY <1>1, <2>1, <2>2, <2>3 DEF DInv, HandlesReady, LocalName
<1> QED
  BY <1>2, <1>3, <1>4
-----------------------------------------------------------------------------
(* The steps of a worker.                                                  *)

\* The values of a file that are written through the view are values.
LEMMA CopyData ==
  ASSUME DInv, NEW w \in Workers, CopyChunk(w)
  PROVE  dest' \in [Offsets -> Values] /\ LastOf(w) \in Nat
<1> DEFINE c == copy[w]
           s == local[running[w]]
           chunk == (FirstOf(c)..LastOf(w)) \cap (1..Len(c.view))
<1>1. c \in [view : Views, done : Nat] /\ running[w] \in Paths /\ s # None
  BY DEF CopyChunk, DInv, TypeOK, JobsReady, Attached
<1>2. s \in Seq(Values)
  BY <1>1 DEF DInv, TypeOK
<1>3. LastOf(w) \in Nat /\ LastOf(w) <= Len(s)
  BY <1>1, <1>2, BBViewAssumption DEF LastOf, BBViewAssumption
<1>4. \A i \in chunk : s[i] \in Values
  BY <1>1, <1>2, <1>3 DEF FirstOf
<1>5. dest' = [o \in Offsets |->
                 IF \E i \in chunk : c.view[i] = o
                 THEN s[CHOOSE i \in chunk : c.view[i] = o] ELSE dest[o]]
  BY DEF CopyChunk
<1> HIDE DEF chunk, c, s
<1>6. ASSUME NEW o \in Offsets PROVE dest'[o] \in Values
  <2>1. CASE \E i \in chunk : c.view[i] = o
    <3>1. (CHOOSE i \in chunk : c.view[i] = o) \in chunk
      BY <2>1
    <3> QED
      BY <1>4, <1>5, <2>1, <3>1
  <2>2. CASE ~\E i \in chunk : c.view[i] = o
    BY <1>5, <2>2 DEF DInv, TypeOK
  <2> QED
    BY <2>1, <2>2
<1> QED
  BY <1>3, <1>5, <1>6

\* So do the steps of a worker.
LEMMA WorkerData ==
  ASSUME DInv, NEW w \in Workers, TakeJob(w) \/ Worker(w) \/ JobFails(w)
  PROVE  (TypeOK /\ JobsReady /\ HandlesReady)'
<1>1. /\ UNCHANGED <<opens, isOpen, state, index, saved, view, pos, fd, sound, local, attr,
                     writes, want>>
  BY DEF TakeJob, Worker, OpenJob, CopyChunk, EndJob, JobFails, handle, ghost
<1>2. HandlesReady'
  BY <1>1 DEF DInv, HandlesReady, LocalName
<1>3. CASE TakeJob(w)
  <2>1. /\ running[w] = None /\ pending # << >> /\ UNCHANGED <<dest, copy, failed>>
        /\ running' = [running EXCEPT ![w] = Head(pending)] /\ pending' = Tail(pending)
    BY <1>3 DEF TakeJob, Daemon!Take, ghost
  <2>2. /\ Head(pending) = pending[1] /\ pending[1] \in Paths /\ 1 \in 1..Len(pending)
        /\ pending' \in Seq(Paths) /\ Len(pending') = Len(pending) - 1
        /\ \A i \in 1..Len(pending') : pending'[i] = pending[i + 1] /\ i + 1 \in 1..Len(pending)
    BY <2>1 DEF DInv, TypeOK
  <2>3. running' \in [Workers -> Paths \cup {None}]
    BY <2>1, <2>2 DEF DInv, TypeOK
  <2>4. JobsReady'
    BY <1>1, <2>1, <2>2, <2>3 DEF DInv, TypeOK, JobsReady, Attached
  <2>5. TypeOK'
    BY <1>1, <2>1, <2>2, <2>3 DEF DInv, TypeOK
  <2> QED
    BY <1>2, <2>4, <2>5
<1>4. CASE OpenJob(w)
  <2>1. /\ running[w] # None /\ copy' = [copy EXCEPT ![w] = [view |-> attr[running[w]], done |-> 0]]
        /\ UNCHANGED <<dest, pending, running, failed>>
    BY <1>4 DEF OpenJob, queue, ghost
  <2>2. running[w] \in Paths /\ attr[running[w]] \in Views
    BY <2>1 DEF DInv, TypeOK, JobsReady, Attached
  <2>3. TypeOK'
    BY <1>1, <2>1, <2>2 DEF DInv, TypeOK
  <2>4. JobsReady'
    BY <1>1, <2>1 DEF DInv, TypeOK, JobsReady, Attached
  <2> QED
    BY <1>2, <2>3, <2>4
<1>5. CASE CopyChunk(w)
  <2>1. /\ copy[w] # None /\ copy' = [copy EXCEPT ![w].done = LastOf(w)]
        /\ UNCHANGED <<pending, running, failed>>
    BY <1>5 DEF CopyChunk, queue, ghost
  <2>2. dest' \in [Offsets -> Values] /\ LastOf(w) \in Nat
    BY <1>5, CopyData
  <2>3. TypeOK'
    BY <1>1, <2>1, <2>2 DEF DInv, TypeOK
  <2>4. JobsReady'
    BY <1>1, <2>1 DEF DInv, TypeOK, JobsReady, Attached
  <2> QED
    BY <1>2, <2>3, <2>4
<1>6. CASE EndJob(w) \/ JobFails(w)
  <2>1. /\ running[w] # None /\ running' = [running EXCEPT ![w] = None]
        /\ copy' = [copy EXCEPT ![w] = None] /\ UNCHANGED <<dest, pending>>
        /\ failed' \in {failed, failed \cup {running[w]}}
    BY <1>6 DEF EndJob, JobFails, Daemon!Finish, ghost
  <2>2. running[w] \in Paths
    BY <2>1 DEF DInv, TypeOK
  <2>3. TypeOK'
    BY <1>1, <2>1, <2>2 DEF DInv, TypeOK
  <2>4. JobsReady'
    BY <1>1, <2>1 DEF DInv, TypeOK, JobsReady, Attached
  <2> QED
    BY <1>2, <2>3, <2>4
<1> QED
  BY <1>3, <1>4, <1>5, <1>6 DEF Worker

\* Every step keeps what holds of the data.
LEMMA StepDInv == DInv /\ [Next]_vars => DInv'
<1> SUFFICES ASSUME DInv, [Next]_vars PROVE (TypeOK /\ JobsReady /\ HandlesReady)'
  BY DescriptorsStep, LocalFcnStep DEF DInv
<1>1. CASE UNCHANGED vars
  <2>1. TypeOK'
    BY <1>1 DEF vars, DInv, TypeOK
  <2>2. JobsReady' /\ HandlesReady'
    BY <1>1 DEF vars, DInv, JobsReady, HandlesReady, Attached, LocalName
  <2> QED
    BY <2>1, <2>2
<1>2. ASSUME NEW p \in Procs, Process(p) PROVE (TypeOK /\ JobsReady /\ HandlesReady)'
  <2>1. ASSUME NEW k, Write(p) \/ WriteAt(p, k) PROVE (TypeOK /\ JobsReady /\ HandlesReady)'
    BY <2>1, WriteData DEF Write, WriteAt
  <2> QED
    BY <1>2, <2>1, SetDefaultViewData, CloseData, BeginViewData, FlushFailsData, HandleData
    DEF Process
<1>3. ASSUME NEW w \in Workers, TakeJob(w) \/ Worker(w) \/ JobFails(w)
      PROVE  (TypeOK /\ JobsReady /\ HandlesReady)'
  BY <1>3, WorkerData
<1> QED
  BY <1>1, <1>2, <1>3 DEF Next

\* The types of handles, files, queue and copies.
THEOREM TypeCorrect == SafeSpec => []TypeOK
<1>1. DInv => TypeOK
  BY DEF DInv
<1> QED
  BY <1>1, InitDInv, StepDInv, PTL DEF SafeSpec

\* Whatever failed before, the worker finds the local file of every job and a
\* view in its attributes (set_xattrs_for_bbview before the request, and nothing
\* takes them away).
THEOREM JobsCanRun == SafeSpec => []JobsReady
<1>1. DInv => JobsReady
  BY DEF DInv
<1> QED
  BY <1>1, InitDInv, StepDInv, PTL DEF SafeSpec
=============================================================================
