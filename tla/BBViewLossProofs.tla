-------------------------- MODULE BBViewLossProofs --------------------------
(***************************************************************************)
(* Theorems about what the application wrote, for any number of processes, *)
(* views, workers and writes: as long as it keeps to its rules, the last   *)
(* value written for an offset is at the destination or on its way         *)
(* there (NoSilentLoss), and once its jobs are done the destination holds  *)
(* it (SettledIsCurrent).                                                  *)
(*                                                                         *)
(* The argument: a value that is on its way and is not the last one has a  *)
(* newer one behind it, in a later job or in the buffer that will become   *)
(* the last job.                                                           *)
(***************************************************************************)
EXTENDS BBViewProofs, WellFoundedInduction

OneWorker == \A w1, w2 \in Workers : w1 = w2

\* What the application abstains from and which failures there are, for the
\* theorems of this module.  Either no process opens the file twice, or one
\* that does waits for its jobs first, and neither a job nor the making of a
\* local file fails.
Disciplined ==
  /\ DistinctRanks
  /\ "direct" \in Rules
  /\ "gaps" \in Rules
  /\ OneWorker \/ "overlap" \in Rules
  /\ MaxOpens <= 1 \/ ("reopen" \in Rules /\ Faults \subseteq {"flush", "dest", "ompio"})
-----------------------------------------------------------------------------
(* The invariant.                                                          *)

Buffers(p) == isOpen[p] /\ state[p] = "ACTIVE" /\ sound[p]

\* The value x for offset o is in the buffer of p, in the local file f under
\* the view in its attributes, in what worker w has still to copy.
InBuffer(p, o, x) == Buffers(p) /\ Holds(local[fd[p]], view[p], 1, o, x)
InFile(f, o, x)   == Holds(local[f], attr[f], 1, o, x)
ToCopy(w, o, x)   ==
  /\ running[w] # None
  /\ Holds(local[running[w]], attr[running[w]],
           IF copy[w] = None THEN 1 ELSE copy[w].done + 1, o, x)

Carries(f, o) == \E x \in Values : InFile(f, o, x)

\* A value for o is in a job behind the i-th one that waits, or in a buffer.
Later(i, o) == \/ \E j \in (i + 1)..Len(pending) : Carries(pending[j], o)
               \/ \E p \in Procs : \E x \in Values : InBuffer(p, o, x)

\* What p knows of its files: of the one it buffers; an empty one, if any, after
\* a set_view that failed half-way; and, when no process opens the file again,
\* no file of a view still to come.
HandleFits(p) ==
  /\ Buffers(p) => saved[p] = view[p] /\ pos[p] <= Len(local[fd[p]])
  /\ isOpen[p] /\ state[p] = "ACTIVE" /\ ~sound[p] => local[LocalName(p)] \in {None, << >>}
  /\ MaxOpens <= 1 =>
       \A f \in Paths : f[1] = RankOf[p] /\ (opens[p] = 0 \/ (isOpen[p] /\ f[2] > index[p]))
                        => local[f] = None

FailuresFit == "job" \notin Faults => failed = {}

\* A process has only offsets of its own on their way.
Owned ==
  /\ \A p \in Procs : \A o \in Offsets : \A x \in Values :
       InBuffer(p, o, x) => o \in Owns[p]
  /\ \A p \in Procs : \A f \in Busy \ {None} : \A o \in Offsets :
       f[1] = RankOf[p] /\ Carries(f, o) => o \in Owns[p]

\* A worker uses the view that is in the attributes.
CopiesFit ==
  \A w \in Workers :
    copy[w] # None => running[w] # None /\ copy[w].view = attr[running[w]]

\* Where several workers may run, no two jobs carry the same offset, and no
\* job one that its process buffers.
Apart ==
  ~OneWorker =>
    \A o \in Offsets :
      /\ \A i, j \in 1..Len(pending) :
           i < j => ~(Carries(pending[i], o) /\ Carries(pending[j], o))
      /\ \A i \in 1..Len(pending) : \A w \in Workers :
           running[w] # None => ~(Carries(pending[i], o) /\ Carries(running[w], o))
      /\ \A p \in Procs : \A f \in Busy \ {None} :
           Buffers(p) /\ f[1] = RankOf[p] /\ o \in ToSet(view[p]) => ~Carries(f, o)

\* What is in a buffer is the last value; a job or a worker that has an older
\* one has a newer one behind it.
Newest(o) ==
  /\ \A p \in Procs : \A x \in Values : InBuffer(p, o, x) => x = want[o]
  /\ \A i \in 1..Len(pending) : \A x \in Values :
       InFile(pending[i], o, x) => x = want[o] \/ Later(i, o)
  /\ \A w \in Workers : \A x \in Values : ToCopy(w, o, x) => x = want[o] \/ Later(0, o)
  /\ \/ dest[o] = want[o]
     \/ LeftBehind(o, want[o])
     \/ Later(0, o)
     \/ \E w \in Workers : \E x \in Values : ToCopy(w, o, x)

OnTheirWay == Owned /\ CopiesFit /\ Apart /\ \A o \in Offsets : Newest(o)

LossInv == DInv /\ Ahead /\ FailuresFit /\ OnTheirWay /\ \A p \in Procs : HandleFits(p)
-----------------------------------------------------------------------------
(* What a step leaves alone.                                               *)

\* The rules cover what the other theorems ask of an application.
LEMMA DisciplinedOpens == Disciplined => DistinctRanks /\ OpensCarefully
BY DEF Disciplined, OpensCarefully

\* A file that failed jobs left is kept.
LEMMA FailedKept ==
  ASSUME Disciplined, FailuresFit
  PROVE  failed \subseteq Kept
<1>1. CASE MaxOpens <= 1
  BY <1>1 DEF Kept
<1>2. CASE ~(MaxOpens <= 1)
  <2>1. "job" \notin Faults
    BY <1>2 DEF Disciplined
  <2> QED
    BY <2>1 DEF FailuresFit
<1> QED
  BY <1>1, <1>2

\* What a buffering handle's file is.
LEMMA BufferFile ==
  ASSUME DInv, NEW p \in Procs, Buffers(p)
  PROVE  /\ fd[p] = LocalName(p) /\ fd[p] \in Paths
         /\ local[fd[p]] # None /\ local[fd[p]] \in Seq(Values)
<1>1. fd[p] = LocalName(p)
  BY DEF Buffers, DInv, Descriptors, FdMatchesState
<1>2. fd[p] \in Paths
  BY <1>1, LocalNames DEF Buffers
<1>3. local[fd[p]] # None
  BY <1>1 DEF Buffers, DInv, HandlesReady
<1> QED
  BY <1>1, <1>2, <1>3 DEF DInv, TypeOK

\* The attributes of a kept file are not replaced.
LEMMA AttributesStay ==
  ASSUME DInv, Ahead, NEW p \in Procs, isOpen[p], Flush(p) \/ FlushFails(p),
         NEW f \in Kept
  PROVE  attr'[f] = attr[f]
<1>1. CASE ~NeedsFlush(p)
  BY <1>1 DEF Flush, FlushFails
<1>2. CASE NeedsFlush(p)
  <2>1. attr' = [attr EXCEPT ![LocalName(p)] = saved[p]]
    BY <1>2 DEF Flush, FlushFails, Enqueue, SetAttributes
  <2>2. f # LocalName(p) /\ f \in Paths
    BY <1>2, BufferedNotKept, KeptPaths DEF NeedsFlush, DInv, Descriptors
  <2> QED
    BY <2>1, <2>2 DEF DInv, TypeOK
<1> QED
  BY <1>1, <1>2

\* Neither the data nor the view of a kept file changes.
LEMMA KeptStay ==
  ASSUME DInv, Ahead, [Next]_vars, NEW f \in Kept
  PROVE  local'[f] = local[f] /\ attr'[f] = attr[f]
<1>1. local'[f] = local[f]
  BY KeptUntouchedStep DEF DInv
<1>2. ASSUME UNCHANGED attr PROVE attr'[f] = attr[f]
  BY <1>2
<1>3. ASSUME NEW p \in Procs, isOpen[p], Flush(p) \/ FlushFails(p)
      PROVE  attr'[f] = attr[f]
  BY <1>3, AttributesStay
<1>4. ASSUME NEW p \in Procs, Process(p) PROVE attr'[f] = attr[f]
  <2>1. CASE FlushFails(p)
    BY <1>3, <2>1 DEF FlushFails
  <2>2. CASE SetDefaultView(p) \/ Close(p)
    BY <1>3, <2>2 DEF SetDefaultView, Close
  <2>3. ASSUME NEW v \in ViewsOf[p], SetView(p, v) \/ PackFails(p, v) \/ LocalOpenFails(p, v)
        PROVE  attr'[f] = attr[f]
    BY <1>3, <2>3 DEF SetView, PackFails, LocalOpenFails, BeginView
  <2>4. CASE Open(p) \/ SetAtomicity(p) \/ Write(p)
    BY <1>2, <2>4 DEF Open, SetAtomicity, Write, WriteEntry
  <2>5. ASSUME NEW v, SetViewFallback(p, v) \/ WriteAt(p, v) PROVE attr'[f] = attr[f]
    BY <1>2, <2>5 DEF SetViewFallback, WriteAt, WriteEntry
  <2> QED
    BY <1>4, <2>1, <2>2, <2>3, <2>4, <2>5 DEF Process
<1>5. ASSUME NEW w \in Workers, TakeJob(w) \/ Worker(w) \/ JobFails(w)
      PROVE  attr'[f] = attr[f]
  BY <1>2, <1>5 DEF TakeJob, Worker, OpenJob, CopyChunk, EndJob, JobFails
<1>6. CASE UNCHANGED vars
  BY <1>2, <1>6 DEF vars
<1> QED
  BY <1>1, <1>4, <1>5, <1>6 DEF Next

\* The jobs that wait or run are kept files.
LEMMA JobsAreKept ==
  ASSUME Ahead
  PROVE  /\ pending \in Seq(Paths) /\ \A i \in 1..Len(pending) : pending[i] \in Kept
         /\ \A w \in Workers : running[w] # None => running[w] \in Kept
<1>1. pending \in Seq(Paths)
  BY DEF Ahead
<1>2. \A i \in 1..Len(pending) : pending[i] \in ToSet(pending) /\ pending[i] \in Paths
  BY <1>1 DEF ToSet
<1>3. None \notin Paths
  BY BBViewAssumption DEF BBViewAssumption
<1> QED
  BY <1>1, <1>2, <1>3 DEF Kept, Busy

\* What a kept file holds stays in it.
Steady == /\ failed \subseteq Kept
          /\ \A f \in Kept : local'[f] = local[f] /\ attr'[f] = attr[f]

\* Every step is steady.
LEMMA StepSteady ==
  ASSUME Disciplined, LossInv, [Next]_vars
  PROVE  Steady
BY FailedKept, KeptStay DEF LossInv, Steady

\* A steady step changes nothing of what a kept file carries.
LEMMA FilesStay ==
  ASSUME Steady, NEW f \in Kept, NEW o
  PROVE  /\ \A x : InFile(f, o, x)' <=> InFile(f, o, x)
         /\ Carries(f, o)' <=> Carries(f, o)
BY DEF Steady, InFile, Carries

\* What a failed job left stays where it is.
LEMMA LeftStays ==
  ASSUME Steady, failed \subseteq failed', NEW o, NEW x, LeftBehind(o, x)
  PROVE  \E f \in failed' : Holds(local'[f], attr'[f], 1, o, x)
BY DEF Steady, LeftBehind
-----------------------------------------------------------------------------
(* The effect of a call that is not a write.                               *)

\* Nothing changes in a buffer, and no handle starts to buffer.
LEMMA QuietStep ==
  ASSUME Ahead, OnTheirWay, Steady,
         UNCHANGED <<pending, running, copy, dest, want, failed>>,
         \A q \in Procs : Buffers(q)' => Buffers(q) /\ view'[q] = view[q],
         \A q \in Procs : \A o \in Offsets : \A x \in Values :
           InBuffer(q, o, x)' <=> InBuffer(q, o, x)
  PROVE  OnTheirWay'
<1>1. Busy' = Busy
  BY DEF Busy
<1>2. /\ \A i \in 1..Len(pending) : pending[i] \in Kept
      /\ \A w \in Workers : running[w] # None => running[w] \in Kept
      /\ \A f \in Busy \ {None} : f \in Kept
  BY JobsAreKept DEF Kept
<1>3. \A f \in Kept : \A o : Carries(f, o)' <=> Carries(f, o)
  BY FilesStay
<1>4. \A i \in 1..Len(pending) : local'[pending[i]] = local[pending[i]] /\ attr'[pending[i]] = attr[pending[i]]
  BY <1>2 DEF Steady
<1>5. \A w \in Workers : running[w] # None => local'[running[w]] = local[running[w]] /\ attr'[running[w]] = attr[running[w]]
  BY <1>2 DEF Steady
<1>6. Owned'
  BY <1>1, <1>2, <1>3 DEF OnTheirWay, Owned
<1>7. CopiesFit'
  BY <1>5 DEF OnTheirWay, CopiesFit
<1>8. \A i \in 1..Len(pending) : \A o : Carries(pending[i], o)' <=> Carries(pending[i], o)
  BY <1>4 DEF Carries, InFile
<1>9. ASSUME NEW o \in Offsets, NEW i \in 0..Len(pending)
      PROVE  Later(i, o)' <=> Later(i, o)
  <2>1. \A j \in (i + 1)..Len(pending) : j \in 1..Len(pending)
    BY JobsAreKept
  <2> QED
    BY <1>8, <2>1 DEF Later
<1>10. ASSUME NEW w \in Workers, NEW o, NEW x
       PROVE  ToCopy(w, o, x)' <=> ToCopy(w, o, x)
  BY <1>5 DEF ToCopy
<1>11. Apart'
  <2>1. \A w \in Workers : \A o : running[w] # None => (Carries(running[w], o)' <=> Carries(running[w], o))
    BY <1>5 DEF Carries, InFile
  <2> QED
    BY <1>1, <1>2, <1>3, <1>8, <2>1 DEF OnTheirWay, Apart
<1>12. ASSUME NEW o \in Offsets PROVE Newest(o)'
  <2>1. \A p \in Procs : \A x \in Values : InBuffer(p, o, x)' => x = want[o]
    BY DEF OnTheirWay, Newest
  <2>2. \A i \in 1..Len(pending) : \A x \in Values :
          InFile(pending[i], o, x)' => x = want[o] \/ Later(i, o)'
    <3>1. \A i \in 1..Len(pending) : \A x : InFile(pending[i], o, x)' <=> InFile(pending[i], o, x)
      BY <1>4 DEF InFile
    <3>2. \A i \in 1..Len(pending) : i \in 0..Len(pending)
      BY JobsAreKept
    <3> QED
      BY <1>9, <3>1, <3>2 DEF OnTheirWay, Newest
  <2>3. 0 \in 0..Len(pending)
    BY JobsAreKept
  <2>4. \A w \in Workers : \A x \in Values : ToCopy(w, o, x)' => x = want[o] \/ Later(0, o)'
    BY <1>9, <1>10, <2>3 DEF OnTheirWay, Newest
  <2>5. LeftBehind(o, want[o]) => LeftBehind(o, want[o])'
    BY LeftStays DEF LeftBehind
  <2>6. \/ dest[o] = want[o]
        \/ LeftBehind(o, want[o])'
        \/ Later(0, o)'
        \/ \E w \in Workers : \E x \in Values : ToCopy(w, o, x)'
    BY <1>9, <1>10, <2>3, <2>5 DEF OnTheirWay, Newest
  <2> QED
    BY <2>1, <2>2, <2>4, <2>6 DEF Newest
<1> QED
  BY <1>6, <1>7, <1>11, <1>12 DEF OnTheirWay

\* What is in a buffer is data for an offset of the view.
LEMMA BufferedOffset ==
  ASSUME DInv, NEW p \in Procs, NEW o, NEW x, InBuffer(p, o, x)
  PROVE  o \in ToSet(view[p]) /\ Buffers(p)
<1>1. view[p] \in Seq(Offsets)
  BY ViewSequences DEF DInv, TypeOK
<1>2. local[fd[p]] \in Seq(Values)
  BY BufferFile DEF InBuffer
<1>3. PICK i \in 1..Len(local[fd[p]]) : i <= Len(view[p]) /\ view[p][i] = o
  BY DEF InBuffer, Holds
<1>4. i \in 1..Len(view[p])
  BY <1>1, <1>2, <1>3
<1> QED
  BY <1>1, <1>3, <1>4 DEF ToSet, InBuffer

\* A process that buffers flushes its file, which becomes the last job with
\* just what was in the buffer; afterwards its buffer is empty, if it has one.
LEMMA FlushStep ==
  ASSUME Ahead, DInv, DistinctRanks, OnTheirWay, Steady,
         UNCHANGED <<running, copy, dest, want, failed>>,
         NEW p \in Procs, NEW f, NEW n \in Nat, NEW m \in {n, n + 1},
         n = Len(pending), m = Len(pending'), pending' \in Seq(Paths),
         f[1] = RankOf[p],
         \A i \in 1..n : pending'[i] = pending[i],
         Busy' \ {None} \subseteq Busy \cup {f},
         m > n => /\ pending'[m] = f
                  /\ \A o \in Offsets : \A x \in Values :
                       Holds(local'[f], attr'[f], 1, o, x) <=> InBuffer(p, o, x),
         m = n => /\ \A o \in Offsets : \A x \in Values : ~InBuffer(p, o, x)
                  /\ Busy' \ {None} \subseteq Busy,
         \A q \in Procs : q # p =>
           /\ Buffers(q)' <=> Buffers(q)
           /\ view'[q] = view[q]
           /\ \A o \in Offsets : \A x \in Values : InBuffer(q, o, x)' <=> InBuffer(q, o, x),
         \A o \in Offsets : \A x \in Values : ~InBuffer(p, o, x)',
         ~OneWorker /\ Buffers(p)' =>
           \A o \in Offsets : o \in ToSet(view'[p]) =>
             /\ \A x \in Values : ~InBuffer(p, o, x)
             /\ \A g \in Busy \ {None} : g[1] = RankOf[p] => ~Carries(g, o)
  PROVE  OnTheirWay'
<1>1. /\ pending \in Seq(Paths) /\ \A i \in 1..n : pending[i] \in Kept
      /\ \A w \in Workers : running[w] # None => running[w] \in Kept
      /\ \A g \in Busy \ {None} : g \in Kept
  BY JobsAreKept DEF Kept
<1>2. \A i \in 1..n : /\ local'[pending'[i]] = local[pending[i]]
                      /\ attr'[pending'[i]] = attr[pending[i]]
  BY <1>1 DEF Steady
<1>3. \A w \in Workers : running[w] # None => /\ local'[running[w]] = local[running[w]]
                                              /\ attr'[running[w]] = attr[running[w]]
  BY <1>1 DEF Steady
<1>4. \A i \in 1..n : \A o : Carries(pending[i], o)' <=> Carries(pending[i], o)
  BY <1>2 DEF Carries, InFile
<1>5. \A w \in Workers : \A o : running[w] # None => (Carries(running[w], o)' <=> Carries(running[w], o))
  BY <1>3 DEF Carries, InFile
<1>6. \A g \in Busy \ {None} : \A o : Carries(g, o)' <=> Carries(g, o)
  BY <1>1, FilesStay
<1>7. m > n => \A o \in Offsets : /\ Carries(f, o)' <=> \E x \in Values : InBuffer(p, o, x)
                                  /\ Carries(pending[m], o)' <=> \E x \in Values : InBuffer(p, o, x)
  BY DEF Carries, InFile
<1>8. ASSUME NEW o \in Offsets, NEW i \in 0..n, Later(i, o)
      PROVE  Later(i, o)'
  <2>1. ASSUME NEW j \in (i + 1)..n, Carries(pending[j], o) PROVE Later(i, o)'
    <3>1. j \in 1..n /\ j \in (i + 1)..Len(pending')
      OBVIOUS
    <3>2. Carries(pending[j], o)'
      BY <1>4, <2>1, <3>1
    <3> QED
      BY <3>1, <3>2 DEF Later
  <2>2. ASSUME NEW q \in Procs, NEW x \in Values, InBuffer(q, o, x) PROVE Later(i, o)'
    <3>1. CASE q # p
      BY <2>2, <3>1 DEF Later
    <3>2. CASE q = p
      <4>1. m = n + 1
        BY <2>2, <3>2
      <4>2. Carries(pending[m], o)'
        BY <1>7, <2>2, <3>2, <4>1
      <4>3. m \in (i + 1)..Len(pending')
        BY <4>1
      <4> QED
        BY <4>2, <4>3 DEF Later
    <3> QED
      BY <3>1, <3>2
  <2> QED
    BY <1>8, <2>1, <2>2 DEF Later
<1>9. Owned'
  <2>1. ASSUME NEW q \in Procs, NEW o \in Offsets, NEW x \in Values, InBuffer(q, o, x)'
        PROVE  o \in Owns[q]
    BY <2>1 DEF OnTheirWay, Owned
  <2>2. ASSUME NEW q \in Procs, NEW g \in Busy' \ {None}, NEW o \in Offsets,
               g[1] = RankOf[q], Carries(g, o)'
        PROVE  o \in Owns[q]
    <3>1. CASE g \in Busy
      BY <1>6, <2>2, <3>1 DEF OnTheirWay, Owned
    <3>2. CASE g \notin Busy
      <4>1. g = f /\ m > n
        BY <2>2, <3>2
      <4>2. q = p
        BY <2>2, <4>1 DEF DistinctRanks
      <4> QED
        BY <1>7, <2>2, <4>1, <4>2 DEF OnTheirWay, Owned
    <3> QED
      BY <3>1, <3>2
  <2> QED
    BY <2>1, <2>2 DEF Owned
<1>10. CopiesFit'
  BY <1>3 DEF OnTheirWay, CopiesFit
<1>11. ASSUME ~OneWorker, NEW o \in Offsets, NEW x \in Values, InBuffer(p, o, x), NEW g \in Busy \ {None}
       PROVE  ~Carries(g, o)
  <2>1. o \in ToSet(view[p]) /\ Buffers(p) /\ o \in Owns[p]
    BY <1>11, BufferedOffset DEF OnTheirWay, Owned
  <2>2. CASE g[1] = RankOf[p]
    BY <1>11, <2>1, <2>2 DEF OnTheirWay, Apart
  <2>3. CASE g[1] # RankOf[p]
    <3>1. PICK q \in Procs : g[1] = RankOf[q]
      BY <1>1, KeptPaths DEF Paths
    <3>2. Owns[p] \cap Owns[q] = {}
      BY <2>3, <3>1, BBViewAssumption DEF BBViewAssumption
    <3> QED
      BY <2>1, <3>1, <3>2 DEF OnTheirWay, Owned
  <2> QED
    BY <2>2, <2>3
<1>12. /\ \A i \in 1..n : pending[i] \in Busy \ {None}
       /\ \A w \in Workers : running[w] # None => running[w] \in Busy \ {None}
  <2>1. \A i \in 1..n : pending[i] \in ToSet(pending) /\ pending[i] \in Paths
    BY <1>1 DEF ToSet
  <2> QED
    BY <2>1, BBViewAssumption DEF Busy, BBViewAssumption
<1>13. Apart'
  <2> SUFFICES ASSUME ~OneWorker, NEW o \in Offsets
               PROVE  /\ \A i, j \in 1..m :
                           i < j => ~(Carries(pending[i], o)' /\ Carries(pending[j], o)')
                      /\ \A i \in 1..m : \A w \in Workers :
                           running[w] # None => ~(Carries(pending[i], o)' /\ Carries(running[w], o)')
                      /\ \A q \in Procs : \A g \in Busy' \ {None} :
                           Buffers(q)' /\ g[1] = RankOf[q] /\ o \in ToSet(view'[q]) => ~Carries(g, o)'
    BY DEF Apart
  <2>1. ASSUME NEW i \in 1..m, NEW j \in 1..m, i < j,
               Carries(pending[i], o)', Carries(pending[j], o)'
        PROVE  FALSE
    <3>1. i \in 1..n /\ Carries(pending[i], o)
      BY <1>4, <2>1
    <3>2. CASE j \in 1..n
      BY <1>4, <2>1, <3>1, <3>2 DEF OnTheirWay, Apart
    <3>3. CASE j \notin 1..n
      <4>1. j = m /\ m > n
        BY <3>3
      <4>2. PICK x \in Values : InBuffer(p, o, x)
        BY <1>7, <2>1, <4>1
      <4> QED
        BY <1>11, <1>12, <3>1, <4>2
    <3> QED
      BY <3>2, <3>3
  <2>2. ASSUME NEW i \in 1..m, NEW w \in Workers, running[w] # None,
               Carries(pending[i], o)', Carries(running[w], o)'
        PROVE  FALSE
    <3>1. Carries(running[w], o)
      BY <1>5, <2>2
    <3>2. CASE i \in 1..n
      BY <1>4, <2>2, <3>1, <3>2 DEF OnTheirWay, Apart
    <3>3. CASE i \notin 1..n
      <4>1. i = m /\ m > n
        BY <3>3
      <4>2. PICK x \in Values : InBuffer(p, o, x)
        BY <1>7, <2>2, <4>1
      <4> QED
        BY <1>11, <1>12, <2>2, <3>1, <4>2
    <3> QED
      BY <3>2, <3>3
  <2>3. ASSUME NEW q \in Procs, NEW g \in Busy' \ {None},
               Buffers(q)', g[1] = RankOf[q], o \in ToSet(view'[q]), Carries(g, o)'
        PROVE  FALSE
    <3>1. CASE q = p
      <4>1. CASE g \in Busy
        BY <1>6, <2>3, <3>1, <4>1
      <4>2. CASE g \notin Busy
        <5>1. g = f /\ m > n
          BY <4>2
        <5> QED
          BY <1>7, <2>3, <3>1, <5>1
      <4> QED
        BY <4>1, <4>2
    <3>2. CASE q # p
      <4>1. g \in Busy \ {None}
        BY <2>3, <3>2 DEF DistinctRanks
      <4>2. Carries(g, o) /\ Buffers(q) /\ o \in ToSet(view[q])
        BY <1>6, <2>3, <3>2, <4>1
      <4> QED
        BY <2>3, <4>1, <4>2 DEF OnTheirWay, Apart
    <3> QED
      BY <3>1, <3>2
  <2> QED
    BY <2>1, <2>2, <2>3
<1>14. ASSUME NEW o \in Offsets PROVE Newest(o)'
  <2>1. \A q \in Procs : \A x \in Values : InBuffer(q, o, x)' => x = want[o]
    BY DEF OnTheirWay, Newest
  <2>2. ASSUME NEW i \in 1..m, NEW x \in Values, InFile(pending[i], o, x)'
        PROVE  x = want[o] \/ Later(i, o)'
    <3>1. CASE i \in 1..n
      <4>1. InFile(pending[i], o, x)
        BY <1>2, <2>2, <3>1 DEF InFile
      <4>2. x = want[o] \/ Later(i, o)
        BY <3>1, <4>1 DEF OnTheirWay, Newest
      <4> QED
        BY <1>8, <3>1, <4>2
    <3>2. CASE i \notin 1..n
      <4>1. i = m /\ m > n
        BY <3>2
      <4>2. InBuffer(p, o, x)
        BY <2>2, <4>1 DEF InFile
      <4> QED
        BY <4>2 DEF OnTheirWay, Newest
    <3> QED
      BY <3>1, <3>2
  <2>3. ASSUME NEW w \in Workers, NEW x \in Values
        PROVE  ToCopy(w, o, x)' <=> ToCopy(w, o, x)
    BY <1>3 DEF ToCopy
  <2>4. Later(0, o) => Later(0, o)'
    BY <1>8
  <2>5. \A w \in Workers : \A x \in Values : ToCopy(w, o, x)' => x = want[o] \/ Later(0, o)'
    BY <2>3, <2>4 DEF OnTheirWay, Newest
  <2>6. LeftBehind(o, want[o]) => LeftBehind(o, want[o])'
    BY LeftStays DEF LeftBehind
  <2>7. \/ dest[o] = want[o]
        \/ LeftBehind(o, want[o])'
        \/ Later(0, o)'
        \/ \E w \in Workers : \E x \in Values : ToCopy(w, o, x)'
    BY <2>3, <2>4, <2>6 DEF OnTheirWay, Newest
  <2> QED
    BY <2>1, <2>2, <2>5, <2>7 DEF Newest
<1> QED
  BY <1>9, <1>10, <1>13, <1>14 DEF OnTheirWay
-----------------------------------------------------------------------------
(* The steps of a worker.                                                  *)

\* What is still to be copied is in the file.
LEMMA ToCopyIsInFile ==
  ASSUME DInv, NEW w \in Workers, NEW o, NEW x, ToCopy(w, o, x)
  PROVE  InFile(running[w], o, x)
<1>1. copy[w] # None => copy[w].done \in Nat
  BY DEF DInv, TypeOK
<1>2. running[w] \in Paths /\ local[running[w]] # None
  BY DEF ToCopy, DInv, TypeOK, JobsReady, Attached
<1>3. local[running[w]] \in Seq(Values)
  BY <1>2 DEF DInv, TypeOK
<1>4. Len(local[running[w]]) \in Nat
  BY <1>3
<1> DEFINE k == IF copy[w] = None THEN 1 ELSE copy[w].done + 1
<1>5. k \in Nat /\ k >= 1
  BY <1>1
<1>6. Holds(local[running[w]], attr[running[w]], k, o, x)
  BY DEF ToCopy
<1> HIDE DEF k
<1> QED
  BY <1>4, <1>5, <1>6 DEF Holds, InFile

\* A worker's step leaves buffers and files alone.
LEMMA WorkerLeaves ==
  ASSUME UNCHANGED <<handle, local, attr>>
  PROVE  /\ \A q \in Procs : Buffers(q)' <=> Buffers(q)
         /\ \A q \in Procs : \A o, x : InBuffer(q, o, x)' <=> InBuffer(q, o, x)
         /\ \A f, o, x : InFile(f, o, x)' <=> InFile(f, o, x)
         /\ \A f, o : Carries(f, o)' <=> Carries(f, o)
         /\ view' = view
BY DEF handle, Buffers, InBuffer, InFile, Carries

\* The head of the queue becomes the worker's job: what the others copy is not
\* in it, so that nothing newer goes ahead of anything older.
LEMMA TakeJobStep ==
  ASSUME Ahead, DInv, Disciplined, OnTheirWay, NEW w \in Workers, TakeJob(w)
  PROVE  OnTheirWay'
<1> PICK n \in Nat : n = Len(pending)
  BY DEF Ahead
<1> PICK g : g = pending[1]
  OBVIOUS
<1>1. /\ running[w] = None /\ pending # << >>
      /\ running' = [running EXCEPT ![w] = Head(pending)] /\ pending' = Tail(pending)
      /\ UNCHANGED <<handle, local, attr, dest, copy, writes, want, failed>>
  BY DEF TakeJob, Daemon!Take, ghost
<1>2. /\ pending \in Seq(Paths) /\ g \in Paths /\ n >= 1
      /\ pending' \in Seq(Paths) /\ Len(pending') = n - 1
      /\ \A i \in 1..(n - 1) : pending'[i] = pending[i + 1] /\ i + 1 \in 1..n
      /\ \A i \in 2..n : pending'[i - 1] = pending[i] /\ i - 1 \in 1..(n - 1)
  BY <1>1 DEF Ahead
<1>3. /\ running'[w] = g
      /\ \A u \in Workers : u # w => running'[u] = running[u]
  BY <1>1, <1>2 DEF Ahead
<1>4. copy[w] = None
  BY <1>1 DEF OnTheirWay, CopiesFit
<1>5. g # None
  BY <1>2, BBViewAssumption DEF BBViewAssumption
<1>6. /\ \A q \in Procs : Buffers(q)' <=> Buffers(q)
      /\ \A q \in Procs : \A o, x : InBuffer(q, o, x)' <=> InBuffer(q, o, x)
      /\ \A f, o, x : InFile(f, o, x)' <=> InFile(f, o, x)
      /\ \A f, o : Carries(f, o)' <=> Carries(f, o)
      /\ view' = view
  BY <1>1, WorkerLeaves
<1>7. Busy' \ {None} \subseteq Busy
  BY <1>1, BusyTake DEF TakeJob
<1>8. \A i \in 1..(n - 1) : \A o : Carries(pending[i], o)' <=> Carries(pending[i + 1], o)
  BY <1>1, <1>2 DEF Carries, InFile
<1>9. \A u \in Workers : \A o : /\ u # w => (Carries(running[u], o)' <=> Carries(running[u], o))
                                /\ Carries(running[w], o)' <=> Carries(g, o)
  BY <1>1, <1>3 DEF Carries, InFile
<1>10. ASSUME NEW o \in Offsets, NEW i \in 0..(n - 1)
       PROVE  Later(i, o)' <=> Later(i + 1, o)
  <2>1. ASSUME NEW j \in (i + 1)..(n - 1), Carries(pending[j], o)' PROVE Later(i + 1, o)
    <3>1. j \in 1..(n - 1) /\ j + 1 \in (i + 1 + 1)..Len(pending)
      OBVIOUS
    <3>2. Carries(pending[j + 1], o)
      BY <1>8, <2>1, <3>1
    <3> QED
      BY <3>1, <3>2 DEF Later
  <2>2. ASSUME NEW j \in (i + 1 + 1)..n, Carries(pending[j], o) PROVE Later(i, o)'
    <3>1. j - 1 \in 1..(n - 1) /\ j - 1 \in (i + 1)..Len(pending') /\ j - 1 + 1 = j
      BY <1>2
    <3>2. Carries(pending[j - 1], o)'
      BY <1>8, <2>2, <3>1
    <3> QED
      BY <3>1, <3>2 DEF Later
  <2> QED
    BY <1>2, <1>6, <2>1, <2>2 DEF Later
<1>11. \A o \in Offsets : Later(0, o) => Carries(g, o) \/ Later(1, o)
  <2> SUFFICES ASSUME NEW o \in Offsets, NEW j \in 1..n, Carries(pending[j], o)
               PROVE  Carries(g, o) \/ Later(1, o)
    BY DEF Later
  <2>1. j = 1 \/ j \in (1 + 1)..Len(pending)
    OBVIOUS
  <2> QED
    BY <2>1 DEF Later
<1>12. Owned'
  BY <1>6, <1>7 DEF OnTheirWay, Owned
<1>13. CopiesFit'
  BY <1>1, <1>3, <1>4 DEF OnTheirWay, CopiesFit
<1>14. Apart'
  <2> SUFFICES ASSUME ~OneWorker, NEW o \in Offsets
               PROVE  /\ \A i, j \in 1..(n - 1) :
                           i < j => ~(Carries(pending[i], o)' /\ Carries(pending[j], o)')
                      /\ \A i \in 1..(n - 1) : \A u \in Workers :
                           running'[u] # None => ~(Carries(pending[i], o)' /\ Carries(running[u], o)')
                      /\ \A q \in Procs : \A f \in Busy' \ {None} :
                           Buffers(q)' /\ f[1] = RankOf[q] /\ o \in ToSet(view'[q]) => ~Carries(f, o)'
    BY <1>2 DEF Apart
  <2>1. \A i, j \in 1..(n - 1) :
          i < j => ~(Carries(pending[i], o)' /\ Carries(pending[j], o)')
    <3>1. \A i, j \in 1..n : i < j => ~(Carries(pending[i], o) /\ Carries(pending[j], o))
      BY DEF OnTheirWay, Apart
    <3>2. \A i, j \in 1..(n - 1) : i < j => i + 1 \in 1..n /\ j + 1 \in 1..n /\ i + 1 < j + 1
      OBVIOUS
    <3> QED
      BY <1>8, <3>1, <3>2
  <2>2. ASSUME NEW i \in 1..(n - 1), NEW u \in Workers, running'[u] # None,
               Carries(pending[i], o)', Carries(running[u], o)'
        PROVE  FALSE
    <3>1. i + 1 \in 1..n /\ 1 \in 1..n /\ 1 < i + 1
      OBVIOUS
    <3>4. Carries(pending[i + 1], o)
      BY <1>8, <2>2
    <3>2. CASE u = w
      <4>1. Carries(pending[1], o)
        BY <1>9, <2>2, <3>2
      <4> QED
        BY <3>1, <3>4, <4>1 DEF OnTheirWay, Apart
    <3>3. CASE u # w
      BY <1>3, <1>9, <2>2, <3>1, <3>3, <3>4 DEF OnTheirWay, Apart
    <3> QED
      BY <3>2, <3>3
  <2>3. \A q \in Procs : \A f \in Busy' \ {None} :
          Buffers(q)' /\ f[1] = RankOf[q] /\ o \in ToSet(view'[q]) => ~Carries(f, o)'
    BY <1>6, <1>7 DEF OnTheirWay, Apart
  <2> QED
    BY <2>1, <2>2, <2>3
<1>15. ASSUME NEW o \in Offsets PROVE Newest(o)'
  <2>1. Newest(o)
    BY DEF OnTheirWay
  <2>2. \A q \in Procs : \A x \in Values : InBuffer(q, o, x)' => x = want'[o]
    BY <1>1, <1>6, <2>1 DEF Newest
  <2>3. ASSUME NEW i \in 1..(n - 1), NEW x \in Values, InFile(pending[i], o, x)'
        PROVE  x = want'[o] \/ Later(i, o)'
    <3>1. InFile(pending[i + 1], o, x) /\ i + 1 \in 1..n /\ i \in 0..(n - 1)
      BY <1>1, <1>2, <2>3 DEF InFile
    <3> QED
      BY <1>1, <1>10, <2>1, <3>1 DEF Newest
  <2>4. \A x : ToCopy(w, o, x)' <=> InFile(g, o, x)
    BY <1>1, <1>3, <1>4, <1>5 DEF ToCopy, InFile
  <2>5. \A u \in Workers : u # w => \A x : ToCopy(u, o, x)' <=> ToCopy(u, o, x)
    BY <1>1, <1>3 DEF ToCopy
  <2>6. Later(0, o)' <=> Later(1, o)
    BY <1>2, <1>10
  <2>7. ASSUME NEW u \in Workers, NEW x \in Values, ToCopy(u, o, x)'
        PROVE  x = want'[o] \/ Later(0, o)'
    <3>1. CASE u = w
      <4>1. InFile(pending[1], o, x) /\ 1 \in 1..n
        BY <1>2, <2>4, <2>7, <3>1
      <4> QED
        BY <1>1, <2>1, <2>6, <4>1 DEF Newest
    <3>2. CASE u # w
      <4>1. ToCopy(u, o, x) /\ running[u] # None
        BY <2>5, <2>7, <3>2 DEF ToCopy
      <4>2. Carries(running[u], o)
        BY <4>1, ToCopyIsInFile DEF Carries
      <4>3. ~Carries(g, o)
        BY <1>2, <3>2, <4>1, <4>2 DEF OneWorker, OnTheirWay, Apart
      <4> QED
        BY <1>1, <1>11, <2>1, <2>6, <4>1, <4>3 DEF Newest
    <3> QED
      BY <3>1, <3>2
  <2>8. \/ dest'[o] = want'[o]
        \/ LeftBehind(o, want[o])'
        \/ Later(0, o)'
        \/ \E u \in Workers : \E x \in Values : ToCopy(u, o, x)'
    <3>1. dest'[o] = dest[o] /\ want'[o] = want[o]
      BY <1>1
    <3>2. CASE LeftBehind(o, want[o])
      BY <1>1, <3>2 DEF LeftBehind
    <3>3. CASE Later(0, o)
      <4>1. CASE Carries(g, o)
        BY <2>4, <4>1 DEF Carries
      <4> QED
        BY <1>11, <2>6, <3>3, <4>1
    <3>4. ASSUME NEW u \in Workers, NEW x \in Values, ToCopy(u, o, x)
          PROVE  ToCopy(u, o, x)'
      BY <1>1, <2>5, <3>4 DEF ToCopy
    <3> QED
      BY <2>1, <3>1, <3>2, <3>3, <3>4 DEF Newest
  <2> QED
    BY <1>2, <2>2, <2>3, <2>7, <2>8 DEF Newest
<1> QED
  BY <1>12, <1>13, <1>14, <1>15 DEF OnTheirWay

\* A worker that opens its job, copies, ends or fails: what it has to copy gets
\* less, and what goes is at the destination or left behind.
LEMMA CopyStep ==
  ASSUME Ahead, OnTheirWay, CopiesFit',
         UNCHANGED <<handle, local, attr, pending, want>>,
         failed \subseteq failed', Busy' \ {None} \subseteq Busy,
         \A u \in Workers : running'[u] # None => running'[u] = running[u],
         \A u \in Workers : \A o \in Offsets : \A x \in Values :
           ToCopy(u, o, x)' => ToCopy(u, o, x),
         \A o \in Offsets : \/ dest'[o] = dest[o]
                            \/ /\ dest'[o] \in Values
                               /\ \E u \in Workers : ToCopy(u, o, dest'[o]),
         \A u \in Workers : \A o \in Offsets : \A x \in Values :
           ToCopy(u, o, x) => \/ ToCopy(u, o, x)'
                              \/ LeftBehind(o, x)'
                              \/ dest'[o] \in Values /\ ToCopy(u, o, dest'[o])
  PROVE  OnTheirWay'
<1>1. /\ \A q \in Procs : Buffers(q)' <=> Buffers(q)
      /\ \A q \in Procs : \A o, x : InBuffer(q, o, x)' <=> InBuffer(q, o, x)
      /\ \A f, o, x : InFile(f, o, x)' <=> InFile(f, o, x)
      /\ \A f, o : Carries(f, o)' <=> Carries(f, o)
      /\ view' = view
  BY WorkerLeaves
<1>2. Owned'
  BY <1>1 DEF OnTheirWay, Owned
<1>3. \A i : \A o : Carries(pending[i], o)' <=> Carries(pending[i], o)
  BY DEF Carries, InFile
<1>4. \A u \in Workers : running'[u] # None =>
        \A o : Carries(running[u], o)' <=> Carries(running[u], o)
  BY DEF Carries, InFile
<1>5. Apart'
  <2>1. Len(pending') = Len(pending)
    OBVIOUS
  <2> SUFFICES ASSUME ~OneWorker, NEW o \in Offsets
               PROVE  /\ \A i, j \in 1..Len(pending) :
                           i < j => ~(Carries(pending[i], o)' /\ Carries(pending[j], o)')
                      /\ \A i \in 1..Len(pending) : \A u \in Workers :
                           running'[u] # None => ~(Carries(pending[i], o)' /\ Carries(running[u], o)')
                      /\ \A q \in Procs : \A f \in Busy' \ {None} :
                           Buffers(q)' /\ f[1] = RankOf[q] /\ o \in ToSet(view'[q]) => ~Carries(f, o)'
    BY <2>1 DEF Apart
  <2>2. \A i, j \in 1..Len(pending) :
           i < j => ~(Carries(pending[i], o)' /\ Carries(pending[j], o)')
    BY <1>3 DEF OnTheirWay, Apart
  <2>3. \A i \in 1..Len(pending) : \A u \in Workers :
          running'[u] # None => ~(Carries(pending[i], o)' /\ Carries(running[u], o)')
    BY <1>3, <1>4 DEF OnTheirWay, Apart
  <2>4. \A q \in Procs : \A f \in Busy' \ {None} :
          Buffers(q)' /\ f[1] = RankOf[q] /\ o \in ToSet(view'[q]) => ~Carries(f, o)'
    BY <1>1 DEF OnTheirWay, Apart
  <2> QED
    BY <2>2, <2>3, <2>4
<1>6. ASSUME NEW o \in Offsets, NEW i PROVE Later(i, o)' <=> Later(i, o)
  BY <1>1, <1>3 DEF Later
<1>7. ASSUME NEW o \in Offsets PROVE Newest(o)'
  <2>1. Newest(o)
    BY DEF OnTheirWay
  <2>2. \A q \in Procs : \A x \in Values : InBuffer(q, o, x)' => x = want[o]
    BY <1>1, <2>1 DEF Newest
  <2>3. \A i \in 1..Len(pending) : \A x \in Values :
          InFile(pending[i], o, x)' => x = want[o] \/ Later(i, o)'
    <3>1. \A i : \A x : InFile(pending[i], o, x)' <=> InFile(pending[i], o, x)
      BY DEF InFile
    <3> QED
      BY <1>6, <2>1, <3>1 DEF Newest
  <2>4. \A u \in Workers : \A x \in Values : ToCopy(u, o, x) => x = want[o] \/ Later(0, o)'
    BY <1>6, <2>1 DEF Newest
  <2>5. \/ dest'[o] = want[o]
        \/ LeftBehind(o, want[o])'
        \/ Later(0, o)'
        \/ \E u \in Workers : \E x \in Values : ToCopy(u, o, x)'
    <3>1. CASE dest[o] = want[o]
      BY <2>4, <3>1
    <3>2. CASE LeftBehind(o, want[o])
      BY <3>2 DEF LeftBehind
    <3>3. CASE Later(0, o)
      BY <1>6, <3>3
    <3>4. ASSUME NEW u \in Workers, NEW x \in Values, ToCopy(u, o, x)
          PROVE  \/ dest'[o] = want[o]
                 \/ LeftBehind(o, want[o])'
                 \/ Later(0, o)'
                 \/ \E t \in Workers : \E y \in Values : ToCopy(t, o, y)'
      <4>1. CASE x = want[o]
        <5>1. LeftBehind(o, x)' => LeftBehind(o, want[o])'
          BY <4>1 DEF LeftBehind
        <5> QED
          BY <2>4, <3>4, <5>1
      <4>2. CASE x # want[o]
        BY <2>4, <3>4, <4>2
      <4> QED
        BY <4>1, <4>2
    <3> QED
      BY <2>1, <3>1, <3>2, <3>3, <3>4 DEF Newest
  <2> QED
    BY <2>2, <2>3, <2>4, <2>5 DEF Newest
<1> QED
  BY <1>2, <1>5, <1>7 DEF OnTheirWay

\* The worker finds the view in the attributes.
LEMMA OpenJobStep ==
  ASSUME Ahead, DInv, OnTheirWay, NEW w \in Workers, OpenJob(w)
  PROVE  OnTheirWay'
<1>1. /\ running[w] # None /\ copy[w] = None
      /\ copy' = [copy EXCEPT ![w] = [view |-> attr[running[w]], done |-> 0]]
      /\ UNCHANGED <<handle, local, attr, dest, pending, running, want, failed>>
  BY DEF OpenJob, queue, ghost
<1>2. /\ copy'[w] = [view |-> attr[running[w]], done |-> 0]
      /\ \A u \in Workers : u # w => copy'[u] = copy[u]
  BY <1>1 DEF DInv, TypeOK
<1>3. Busy' = Busy
  BY <1>1 DEF Busy
<1>4. CopiesFit'
  BY <1>1, <1>2 DEF OnTheirWay, CopiesFit
<1>5. \A u \in Workers : \A o, x : ToCopy(u, o, x)' <=> ToCopy(u, o, x)
  BY <1>1, <1>2 DEF ToCopy
<1> QED
  BY <1>1, <1>3, <1>4, <1>5, CopyStep

\* A buffer is written through the view.
LEMMA CopyChunkStep ==
  ASSUME Ahead, DInv, OnTheirWay, NEW w \in Workers, CopyChunk(w)
  PROVE  OnTheirWay'
<1> PICK v : v = attr[running[w]]
  OBVIOUS
<1> PICK s : s = local[running[w]]
  OBVIOUS
<1> PICK k : k = copy[w].done
  OBVIOUS
<1> PICK last : last = LastOf(w)
  OBVIOUS
<1> DEFINE chunk == ((k + 1)..last) \cap (1..Len(v))
<1>1. /\ copy[w] # None /\ ~AtEnd(w)
      /\ copy' = [copy EXCEPT ![w].done = LastOf(w)]
      /\ UNCHANGED <<handle, local, attr, pending, running, want, failed>>
  BY DEF CopyChunk, queue, ghost
<1>2. /\ copy[w] \in [view : Views, done : Nat] /\ copy[w].view = v
      /\ running[w] # None /\ running[w] \in Paths
  BY <1>1 DEF DInv, TypeOK, OnTheirWay, CopiesFit
<1>3. /\ k \in Nat /\ s \in Seq(Values) /\ v \in Seq(Offsets) /\ v # None
  BY <1>2, ViewSequences, BBViewAssumption
  DEF DInv, TypeOK, JobsReady, Attached, BBViewAssumption
<1>4. last \in Nat /\ k < last /\ last <= Len(s)
  BY <1>1, <1>3, BBViewAssumption DEF AtEnd, LastOf, BBViewAssumption
<1>5. /\ copy'[w] = [view |-> v, done |-> last] /\ copy'[w] # None
      /\ \A u \in Workers : u # w => copy'[u] = copy[u]
  <2>1. copy'[w] = [view |-> v, done |-> last]
    BY <1>1, <1>2 DEF DInv, TypeOK
  <2>2. [view |-> v, done |-> last] \in [view : Views, done : Nat]
    BY <1>2, <1>4
  <2>3. copy'[w] # None
    BY <2>1, <2>2, BBViewAssumption DEF BBViewAssumption
  <2> QED
    BY <1>1, <2>1, <2>3 DEF DInv, TypeOK
<1>6. dest' = [o \in Offsets |-> IF \E i \in chunk : v[i] = o
                                 THEN s[CHOOSE i \in chunk : v[i] = o]
                                 ELSE dest[o]]
  BY <1>2 DEF CopyChunk, FirstOf
<1>7. Busy' = Busy
  BY <1>1 DEF Busy
<1>8. CopiesFit'
  BY <1>1, <1>2, <1>5 DEF OnTheirWay, CopiesFit
<1>9. \A o, x : /\ ToCopy(w, o, x) <=> Holds(s, v, k + 1, o, x)
                /\ ToCopy(w, o, x)' <=> Holds(s, v, last + 1, o, x)
  BY <1>1, <1>2, <1>5 DEF ToCopy
<1>10. \A u \in Workers : u # w => \A o, x : ToCopy(u, o, x)' <=> ToCopy(u, o, x)
  BY <1>1, <1>5 DEF ToCopy
<1>11. \A o, x : ToCopy(w, o, x)' => ToCopy(w, o, x)
  BY <1>3, <1>4, <1>9 DEF Holds
<1>12. ASSUME NEW o \in Offsets
       PROVE  IF \E i \in chunk : v[i] = o
              THEN dest'[o] \in Values /\ ToCopy(w, o, dest'[o])
              ELSE dest'[o] = dest[o]
  <2>1. CASE \E i \in chunk : v[i] = o
    <3>1. PICK j \in chunk : v[j] = o /\ dest'[o] = s[j]
      <4> HIDE DEF chunk
      <4> QED
        BY <1>6, <2>1
    <3>2. j \in (k + 1)..Len(s) /\ j <= Len(v) /\ j \in 1..Len(s)
      BY <1>3, <1>4, <3>1
    <3>3. Holds(s, v, k + 1, o, s[j])
      BY <1>3, <3>1, <3>2 DEF Holds
    <3> QED
      BY <1>3, <1>9, <2>1, <3>1, <3>2, <3>3
  <2>2. CASE ~\E i \in chunk : v[i] = o
    BY <1>6, <2>2
  <2> QED
    BY <2>1, <2>2
<1>13. ASSUME NEW o \in Offsets, NEW x, ToCopy(w, o, x), ~\E i \in chunk : v[i] = o
       PROVE  ToCopy(w, o, x)'
  <2>1. PICK i \in (k + 1)..Len(s) : i <= Len(v) /\ v[i] = o /\ s[i] = x
    BY <1>9, <1>13 DEF Holds
  <2>2. i \notin chunk
    BY <1>13, <2>1
  <2>3. i \in (last + 1)..Len(s)
    BY <1>3, <1>4, <2>1, <2>2
  <2>4. Holds(s, v, last + 1, o, x)
    BY <1>3, <2>1, <2>3 DEF Holds
  <2> QED
    BY <1>9, <2>4
<1> HIDE DEF chunk
<1>14. \A o \in Offsets : \/ dest'[o] = dest[o]
                          \/ /\ dest'[o] \in Values
                             /\ \E u \in Workers : ToCopy(u, o, dest'[o])
  BY <1>12
<1>15. \A u \in Workers : \A o \in Offsets : \A x \in Values :
         ToCopy(u, o, x) => \/ ToCopy(u, o, x)'
                            \/ dest'[o] \in Values /\ ToCopy(u, o, dest'[o])
  BY <1>10, <1>12, <1>13
<1> QED
  BY <1>1, <1>7, <1>8, <1>10, <1>11, <1>14, <1>15, CopyStep

\* A job ends when nothing is left to copy, or leaves its file behind.
LEMMA EndJobStep ==
  ASSUME Ahead, DInv, OnTheirWay, NEW w \in Workers, EndJob(w) \/ JobFails(w)
  PROVE  OnTheirWay'
<1>1. /\ running[w] # None /\ Daemon!Finish(w)
      /\ running' = [running EXCEPT ![w] = None] /\ copy' = [copy EXCEPT ![w] = None]
      /\ UNCHANGED <<handle, local, attr, dest, pending, want>>
      /\ failed \subseteq failed'
  BY DEF EndJob, JobFails, Daemon!Finish, ghost
<1>2. /\ running'[w] = None /\ copy'[w] = None
      /\ \A u \in Workers : u # w => running'[u] = running[u] /\ copy'[u] = copy[u]
  BY <1>1 DEF DInv, TypeOK
<1>3. Busy' \ {None} \subseteq Busy
  BY <1>1, BusyFinish
<1>4. CopiesFit'
  BY <1>1, <1>2 DEF OnTheirWay, CopiesFit
<1>5. \A u \in Workers : \A o, x : ToCopy(u, o, x)' <=> u # w /\ ToCopy(u, o, x)
  BY <1>1, <1>2 DEF ToCopy
<1>6. ASSUME NEW o \in Offsets, NEW x \in Values, ToCopy(w, o, x)
      PROVE  LeftBehind(o, x)'
  <2>1. CASE EndJob(w)
    <3>1. running[w] \in Paths /\ local[running[w]] \in Seq(Values)
      BY <1>1 DEF DInv, TypeOK, JobsReady, Attached
    <3>2. copy[w] # None /\ copy[w].done \in Nat /\ copy[w].done >= Len(local[running[w]])
      BY <2>1 DEF EndJob, AtEnd, DInv, TypeOK
    <3>3. Len(local[running[w]]) \in Nat
      BY <3>1
    <3>4. Holds(local[running[w]], attr[running[w]], copy[w].done + 1, o, x)
      BY <1>6, <3>2 DEF ToCopy
    <3> QED
      BY <3>2, <3>3, <3>4 DEF Holds
  <2>2. CASE JobFails(w)
    <3>1. running[w] \in failed'
      BY <2>2 DEF JobFails
    <3>2. InFile(running[w], o, x)
      BY <1>6, ToCopyIsInFile
    <3> QED
      BY <1>1, <3>1, <3>2 DEF LeftBehind, InFile
  <2> QED
    BY <2>1, <2>2
<1> QED
  BY <1>1, <1>2, <1>3, <1>4, <1>5, <1>6, CopyStep
-----------------------------------------------------------------------------
(* Writes.                                                                 *)

\* What is written is in the buffer, which becomes the last job, or at
\* the destination, for which no job has anything.
LEMMA WriteStep ==
  ASSUME Ahead, DInv, OnTheirWay, Steady, NEW o \in Offsets,
         UNCHANGED <<pending, running, copy, failed, view>>,
         \A q \in Procs : Buffers(q)' <=> Buffers(q),
         \A b \in Offsets : b # o =>
           /\ want'[b] = want[b] /\ dest'[b] = dest[b]
           /\ \A q \in Procs : \A x \in Values : InBuffer(q, b, x)' <=> InBuffer(q, b, x),
         \A q \in Procs : \A x \in Values :
           InBuffer(q, o, x)' => x = want'[o] /\ o \in Owns[q],
         \/ \E q \in Procs : \E x \in Values : InBuffer(q, o, x)'
         \/ /\ dest'[o] = want'[o]
            /\ \A f \in Busy \ {None} : ~Carries(f, o)
  PROVE  OnTheirWay'
<1>1. /\ Busy' = Busy
      /\ pending \in Seq(Paths) /\ \A i \in 1..Len(pending) : pending[i] \in Kept
      /\ \A w \in Workers : running[w] # None => running[w] \in Kept
      /\ \A f \in Busy \ {None} : f \in Kept
  BY JobsAreKept DEF Kept, Busy
<1>2. /\ \A i \in 1..Len(pending) : pending[i] \in Busy \ {None}
      /\ \A w \in Workers : running[w] # None => running[w] \in Busy \ {None}
  <2>1. \A i \in 1..Len(pending) : pending[i] \in ToSet(pending) /\ pending[i] \in Paths
    BY <1>1 DEF ToSet
  <2> QED
    BY <2>1, BBViewAssumption DEF Busy, BBViewAssumption
<1>3. \A f \in Busy \ {None} : \A b : Carries(f, b)' <=> Carries(f, b)
  BY <1>1, FilesStay
<1>4. \A i \in 1..Len(pending) : /\ local'[pending[i]] = local[pending[i]]
                                 /\ attr'[pending[i]] = attr[pending[i]]
  BY <1>1 DEF Steady
<1>5. \A w \in Workers : running[w] # None => /\ local'[running[w]] = local[running[w]]
                                              /\ attr'[running[w]] = attr[running[w]]
  BY <1>1 DEF Steady
<1>6. \A i \in 1..Len(pending) : \A b : Carries(pending[i], b)' <=> Carries(pending[i], b)
  BY <1>4 DEF Carries, InFile
<1>7. \A w \in Workers : \A b : running[w] # None => (Carries(running[w], b)' <=> Carries(running[w], b))
  BY <1>5 DEF Carries, InFile
<1>8. \A w \in Workers : \A b, x : ToCopy(w, b, x)' <=> ToCopy(w, b, x)
  BY <1>5 DEF ToCopy
<1>9. Owned'
  BY <1>1, <1>3 DEF OnTheirWay, Owned
<1>10. CopiesFit'
  BY <1>5 DEF OnTheirWay, CopiesFit
<1>11. Apart'
  BY <1>1, <1>3, <1>6, <1>7 DEF OnTheirWay, Apart
<1>12. ASSUME NEW b \in Offsets, b # o PROVE Newest(b)'
  <2>1. Newest(b)
    BY DEF OnTheirWay
  <2>2. \A i \in 0..Len(pending) : Later(i, b)' <=> Later(i, b)
    <3>1. \A i \in 0..Len(pending) : \A j \in (i + 1)..Len(pending) : j \in 1..Len(pending)
      BY <1>1
    <3> QED
      BY <1>6, <1>12, <3>1 DEF Later
  <2>3. 0 \in 0..Len(pending) /\ \A i \in 1..Len(pending) : i \in 0..Len(pending)
    BY <1>1
  <2>4. \A i \in 1..Len(pending) : \A x : InFile(pending[i], b, x)' <=> InFile(pending[i], b, x)
    BY <1>4 DEF InFile
  <2>5. LeftBehind(b, want[b]) => LeftBehind(b, want[b])'
    BY <1>12, LeftStays DEF LeftBehind
  <2>6. \A q \in Procs : \A x \in Values : InBuffer(q, b, x)' => x = want'[b]
    BY <1>12, <2>1 DEF Newest
  <2>7. \A i \in 1..Len(pending) : \A x \in Values :
          InFile(pending[i], b, x)' => x = want'[b] \/ Later(i, b)'
    BY <1>12, <2>1, <2>2, <2>3, <2>4 DEF Newest
  <2>8. \A w \in Workers : \A x \in Values : ToCopy(w, b, x)' => x = want'[b] \/ Later(0, b)'
    BY <1>8, <1>12, <2>1, <2>2, <2>3 DEF Newest
  <2>9. \/ dest'[b] = want'[b]
        \/ LeftBehind(b, want[b])'
        \/ Later(0, b)'
        \/ \E w \in Workers : \E x \in Values : ToCopy(w, b, x)'
    BY <1>8, <1>12, <2>1, <2>2, <2>3, <2>5 DEF Newest
  <2> QED
    BY <2>6, <2>7, <2>8, <2>9 DEF Newest
<1>13. Newest(o)'
  <2>1. CASE \E q \in Procs : \E x \in Values : InBuffer(q, o, x)'
    <3>1. \A i : Later(i, o)'
      BY <2>1 DEF Later
    <3> QED
      BY <3>1 DEF Newest
  <2>2. CASE dest'[o] = want'[o] /\ \A f \in Busy \ {None} : ~Carries(f, o)
    <3>1. \A i \in 1..Len(pending) : \A x \in Values : ~InFile(pending[i], o, x)'
      BY <1>2, <1>4, <2>2 DEF Carries, InFile
    <3>2. \A w \in Workers : \A x \in Values : ~ToCopy(w, o, x)'
      <4> SUFFICES ASSUME NEW w \in Workers, NEW x \in Values, ToCopy(w, o, x) PROVE FALSE
        BY <1>8
      <4>1. InFile(running[w], o, x) /\ running[w] # None
        BY ToCopyIsInFile DEF ToCopy
      <4> QED
        BY <1>2, <2>2, <4>1 DEF Carries
    <3> QED
      BY <2>2, <3>1, <3>2 DEF Newest
  <2> QED
    BY <2>1, <2>2
<1> QED
  BY <1>9, <1>10, <1>11, <1>12, <1>13 DEF OnTheirWay

\* A direct write finds no data for its offset on its way: it is made when no
\* job of the process is left, and the others have no offset in common with it.
LEMMA WriteDirectStep ==
  ASSUME Ahead, DInv, Disciplined, OnTheirWay, Steady,
         NEW p \in Procs, NEW k, WriteEntry(p, k), fd[p] = Dest
  PROVE  OnTheirWay'
<1> PICK o : o = view[p][k]
  OBVIOUS
<1>1. /\ o \in Owns[p] /\ Settled(p)
      /\ want' = [want EXCEPT ![o] = writes'] /\ dest' = [dest EXCEPT ![o] = writes']
      /\ UNCHANGED <<isOpen, state, sound, fd, view, local, attr, pending, running, copy, failed>>
  BY DEF WriteEntry, Obeys, Disciplined, queue
<1>2. o \in Offsets
  BY <1>1, BBViewAssumption DEF BBViewAssumption
<1>3. /\ dest'[o] = writes' /\ want'[o] = writes'
      /\ \A b \in Offsets : b # o => want'[b] = want[b] /\ dest'[b] = dest[b]
  BY <1>1, <1>2 DEF DInv, TypeOK
<1>4. /\ \A q \in Procs : Buffers(q)' <=> Buffers(q)
      /\ \A q \in Procs : \A b, x : InBuffer(q, b, x)' <=> InBuffer(q, b, x)
  BY <1>1 DEF Buffers, InBuffer
<1>5. ASSUME NEW q \in Procs, NEW x \in Values, InBuffer(q, o, x) PROVE FALSE
  <2>1. o \in Owns[q]
    BY <1>2, <1>5 DEF OnTheirWay, Owned
  <2>2. q = p
    BY <1>1, <2>1, BBViewAssumption DEF BBViewAssumption
  <2>3. fd[p] \in Paths
    BY <1>5, <2>2, BufferFile DEF InBuffer
  <2> QED
    BY <2>3, BBViewAssumption DEF BBViewAssumption
<1>6. ASSUME NEW f \in Busy \ {None}, Carries(f, o) PROVE FALSE
  <2>1. f \in Paths
    BY KeptPaths DEF Kept
  <2>2. PICK q \in Procs : f[1] = RankOf[q]
    BY <2>1 DEF Paths
  <2>3. o \in Owns[q]
    BY <1>2, <1>6, <2>2 DEF OnTheirWay, Owned
  <2>4. q = p
    BY <1>1, <2>3, BBViewAssumption DEF BBViewAssumption
  <2> QED
    BY <1>1, <2>1, <2>2, <2>4 DEF Settled, OwnPath
<1> QED
  BY <1>1, <1>2, <1>3, <1>4, <1>5, <1>6, WriteStep

\* What Put makes of a file when it leaves nothing out.
LEMMA PutEntries ==
  ASSUME NEW s \in Seq(Values), NEW k \in 1..(Len(s) + 1), NEW y
  PROVE  /\ Len(Put(s, k, y)) \in Nat /\ Len(Put(s, k, y)) >= Len(s) /\ Len(Put(s, k, y)) >= k
         /\ Put(s, k, y)[k] = y
         /\ \A i \in 1..Len(Put(s, k, y)) : i # k => i \in 1..Len(s) /\ Put(s, k, y)[i] = s[i]
         /\ \A i \in 1..Len(s) : i \in 1..Len(Put(s, k, y))
<1> DEFINE n == IF k > Len(s) THEN k ELSE Len(s)
<1>1. n \in Nat /\ n >= Len(s) /\ n >= k /\ (n = Len(s) \/ n = k) /\ k \in 1..n /\ Len(s) \in Nat
  OBVIOUS
<1>2. Put(s, k, y) = [i \in 1..n |-> IF i = k THEN y ELSE IF i <= Len(s) THEN s[i] ELSE Hole]
  BY DEF Put
<1> HIDE DEF n
<1>3. Len(Put(s, k, y)) = n
  BY <1>1, <1>2
<1>4. \A i \in 1..n : i # k => i \in 1..Len(s)
  BY <1>1
<1>5. \A i \in 1..n : i # k => Put(s, k, y)[i] = s[i]
  BY <1>1, <1>2, <1>4
<1> QED
  BY <1>1, <1>2, <1>3, <1>4, <1>5

\* After a write the file has the value for its offset, and for the others
\* what it had: no offset is twice in a view.
LEMMA PutHolds ==
  ASSUME NEW v \in Views, NEW s \in Seq(Values), NEW k \in 1..(Len(s) + 1), k \in 1..Len(v),
         NEW y
  PROVE  /\ \A x : Holds(Put(s, k, y), v, 1, v[k], x) <=> x = y
         /\ \A b, x : b # v[k] => (Holds(Put(s, k, y), v, 1, b, x) <=> Holds(s, v, 1, b, x))
<1>1. /\ Len(Put(s, k, y)) \in Nat /\ k \in 1..Len(Put(s, k, y)) /\ Put(s, k, y)[k] = y
      /\ \A i \in 1..Len(Put(s, k, y)) : i # k => i \in 1..Len(s) /\ Put(s, k, y)[i] = s[i]
      /\ \A i \in 1..Len(s) : i \in 1..Len(Put(s, k, y))
  BY PutEntries
<1>2. v # None /\ v \in Seq(Offsets)
  BY ViewSequences, BBViewAssumption DEF BBViewAssumption
<1>3. \A i \in 1..Len(Put(s, k, y)) : i <= Len(v) /\ v[i] = v[k] => i = k
  <2>1. CASE v = ByteView
    <3> DEFINE c == Cardinality(Offsets)
    <3>1. c \in Nat /\ v = [i \in 1..c |-> i]
      BY <2>1, FS_CardinalityType, BBViewAssumption DEF ByteView, BBViewAssumption
    <3> HIDE DEF c
    <3>2. Len(v) = c
      BY <3>1
    <3> QED
      BY <1>1, <3>1, <3>2
  <2>2. CASE v # ByteView
    <3>1. \A i, j \in 1..Len(v) : v[i] = v[j] => i = j
      BY <2>2, BBViewAssumption DEF Views, BBViewAssumption
    <3>2. \A i \in 1..Len(Put(s, k, y)) : i <= Len(v) => i \in 1..Len(v)
      BY <1>1, <1>2
    <3> QED
      BY <3>1, <3>2
  <2> QED
    BY <2>1, <2>2
<1>4. ASSUME NEW x PROVE Holds(Put(s, k, y), v, 1, v[k], x) <=> x = y
  BY <1>1, <1>2, <1>3 DEF Holds
<1>5. ASSUME NEW b, NEW x, b # v[k]
      PROVE  Holds(Put(s, k, y), v, 1, b, x) <=> Holds(s, v, 1, b, x)
  BY <1>1, <1>2, <1>5 DEF Holds
<1> QED
  BY <1>4, <1>5

\* A write that is buffered.
LEMMA WriteBufferStep ==
  ASSUME Ahead, DInv, DistinctRanks, OnTheirWay, Steady,
         NEW p \in Procs, NEW k, WriteEntry(p, k), fd[p] # Dest,
         k <= Len(local[fd[p]]) + 1
  PROVE  /\ OnTheirWay'
         /\ Buffers(p) /\ Len(local'[fd[p]]) >= Len(local[fd[p]]) /\ Len(local'[fd[p]]) >= k
         /\ \A g \in Paths : g # LocalName(p) => local'[g] = local[g]
<1> PICK o : o = view[p][k]
  OBVIOUS
<1> PICK y : y = writes'
  OBVIOUS
<1> PICK f : f = fd[p]
  OBVIOUS
<1> PICK s : s = local[f]
  OBVIOUS
<1>1. /\ isOpen[p] /\ sound[p] /\ k \in 1..Len(view[p]) /\ o \in Owns[p]
      /\ writes < MaxWrites /\ y = writes + 1
      /\ want' = [want EXCEPT ![o] = y] /\ local' = [local EXCEPT ![f] = Put(s, k, y)]
      /\ UNCHANGED <<isOpen, state, sound, fd, view, dest, pending, running, copy, failed>>
      /\ fd[p] # None
  BY DEF WriteEntry, queue
<1>2. Buffers(p)
  BY <1>1 DEF Buffers, DInv, Descriptors, FdMatchesState, Reopened
<1>3. f = LocalName(p) /\ f \in Paths /\ s \in Seq(Values)
  BY <1>2, BufferFile
<1>4. view[p] \in Views /\ view[p] \in Seq(Offsets) /\ k \in 1..(Len(s) + 1)
  BY <1>1, <1>3, ViewSequences DEF DInv, TypeOK
<1>5. o \in Offsets /\ y \in Values
  BY <1>1, BBViewAssumption DEF BBViewAssumption, DInv, TypeOK, Values
<1>6. local'[f] = Put(s, k, y) /\ \A g \in Paths : g # f => local'[g] = local[g]
  BY <1>1, <1>3 DEF DInv, LocalFcn
<1>7. \A q \in Procs : Buffers(q)' <=> Buffers(q)
  BY <1>1 DEF Buffers
<1>8. ASSUME NEW q \in Procs, q # p, NEW b, NEW x
      PROVE  InBuffer(q, b, x)' <=> InBuffer(q, b, x)
  <2>1. CASE Buffers(q)
    <3>1. fd[q] = LocalName(q) /\ fd[q] \in Paths
      BY <2>1, BufferFile
    <3>2. fd[q] # f
      BY <1>3, <1>8, <3>1 DEF LocalName, DistinctRanks
    <3>3. local'[fd'[q]] = local[fd[q]]
      BY <1>1, <1>6, <3>1, <3>2
    <3> QED
      BY <1>1, <1>7, <3>3 DEF InBuffer
  <2>2. CASE ~Buffers(q)
    BY <1>7, <2>2 DEF InBuffer
  <2> QED
    BY <2>1, <2>2
<1>9. /\ \A b, x : InBuffer(p, b, x) <=> Holds(s, view[p], 1, b, x)
      /\ \A b, x : InBuffer(p, b, x)' <=> Holds(Put(s, k, y), view[p], 1, b, x)
  BY <1>1, <1>2, <1>6, <1>7 DEF InBuffer
<1>10. /\ \A x : InBuffer(p, o, x)' <=> x = y
       /\ \A b, x : b # o => (InBuffer(p, b, x)' <=> InBuffer(p, b, x))
  <2> PICK v : v = view[p]
    OBVIOUS
  <2>1. /\ \A x : Holds(Put(s, k, y), v, 1, v[k], x) <=> x = y
        /\ \A b, x : b # v[k] => (Holds(Put(s, k, y), v, 1, b, x) <=> Holds(s, v, 1, b, x))
    <3>1. v \in Views /\ k \in 1..Len(v)
      BY <1>1, <1>4
    <3>2. s \in Seq(Values) /\ k \in 1..(Len(s) + 1)
      BY <1>3, <1>4
    <3> QED
      BY ONLY <3>1, <3>2, PutHolds
  <2>2. o = v[k]
    OBVIOUS
  <2> QED
    BY <1>9, <2>1, <2>2
<1>11. want'[o] = y /\ \A b \in Offsets : b # o => want'[b] = want[b]
  BY <1>1, <1>5 DEF DInv, TypeOK
<1>12. ASSUME NEW q \in Procs, NEW x \in Values, InBuffer(q, o, x)'
       PROVE  x = want'[o] /\ o \in Owns[q]
  <2>1. CASE q = p
    BY <1>1, <1>10, <1>11, <1>12, <2>1
  <2>2. CASE q # p
    <3>1. o \in Owns[q]
      BY <1>5, <1>8, <1>12, <2>2 DEF OnTheirWay, Owned
    <3> QED
      BY <1>1, <2>2, <3>1, BBViewAssumption DEF BBViewAssumption
  <2> QED
    BY <2>1, <2>2
<1>13. \E q \in Procs : \E x \in Values : InBuffer(q, o, x)'
  BY <1>5, <1>10
<1>14. \A b \in Offsets : b # o =>
         /\ want'[b] = want[b] /\ dest'[b] = dest[b]
         /\ \A q \in Procs : \A x \in Values : InBuffer(q, b, x)' <=> InBuffer(q, b, x)
  BY <1>1, <1>8, <1>10, <1>11
<1>15. OnTheirWay'
  BY <1>1, <1>5, <1>7, <1>12, <1>13, <1>14, WriteStep
<1> QED
  BY <1>1, <1>2, <1>3, <1>4, <1>6, <1>15, PutEntries
-----------------------------------------------------------------------------
(* The calls of a process.                                                 *)

\* A call leaves the handles and the files of the other processes alone.
LEMMA OtherHandles ==
  ASSUME DInv, NEW p \in Procs, Process(p), NEW q \in Procs, q # p
  PROVE  /\ opens'[q] = opens[q] /\ isOpen'[q] = isOpen[q] /\ state'[q] = state[q]
         /\ index'[q] = index[q] /\ saved'[q] = saved[q] /\ view'[q] = view[q]
         /\ pos'[q] = pos[q] /\ fd'[q] = fd[q] /\ sound'[q] = sound[q]
<1> USE DEF DInv, TypeOK
<1>1. CASE Open(p)
  BY <1>1 DEF Open
<1>2. CASE FlushFails(p)
  BY <1>2 DEF FlushFails, handle
<1>9. ASSUME NEW v, OmpioSetView(p, v)
      PROVE  view'[q] = view[q] /\ pos'[q] = pos[q] /\ sound'[q] = sound[q]
  BY <1>9 DEF OmpioSetView
<1>3. CASE SetDefaultView(p)
  <2>1. view'[q] = view[q] /\ pos'[q] = pos[q] /\ sound'[q] = sound[q]
    BY <1>3, <1>9 DEF SetDefaultView
  <2>2. fd'[q] = fd[q]
    BY <1>3 DEF SetDefaultView
  <2> QED
    BY <1>3, <2>1, <2>2 DEF SetDefaultView
<1>4. CASE SetAtomicity(p)
  BY <1>4 DEF SetAtomicity
<1>5. ASSUME NEW v, SetViewFallback(p, v)
      PROVE  /\ opens'[q] = opens[q] /\ isOpen'[q] = isOpen[q] /\ state'[q] = state[q]
             /\ index'[q] = index[q] /\ saved'[q] = saved[q] /\ view'[q] = view[q]
             /\ pos'[q] = pos[q] /\ fd'[q] = fd[q] /\ sound'[q] = sound[q]
  BY <1>5, <1>9 DEF SetViewFallback
<1>6. ASSUME NEW v, SetView(p, v) \/ PackFails(p, v) \/ LocalOpenFails(p, v)
      PROVE  /\ opens'[q] = opens[q] /\ isOpen'[q] = isOpen[q] /\ state'[q] = state[q]
             /\ index'[q] = index[q] /\ saved'[q] = saved[q] /\ view'[q] = view[q]
             /\ pos'[q] = pos[q] /\ fd'[q] = fd[q] /\ sound'[q] = sound[q]
  <2>1. /\ opens'[q] = opens[q] /\ isOpen'[q] = isOpen[q] /\ state'[q] = state[q]
        /\ index'[q] = index[q] /\ saved'[q] = saved[q]
    BY <1>6 DEF SetView, PackFails, LocalOpenFails, BeginView
  <2>2. /\ view'[q] = view[q] /\ pos'[q] = pos[q] /\ fd'[q] = fd[q] /\ sound'[q] = sound[q]
    <3>1. CASE SetView(p, v)
      BY <1>9, <3>1 DEF SetView
    <3>2. CASE PackFails(p, v) \/ LocalOpenFails(p, v)
      BY <3>2 DEF PackFails, LocalOpenFails
    <3> QED
      BY <1>6, <3>1, <3>2
  <2> QED
    BY <2>1, <2>2
<1>7. ASSUME NEW k, Write(p) \/ WriteAt(p, k)
      PROVE  /\ opens'[q] = opens[q] /\ isOpen'[q] = isOpen[q] /\ state'[q] = state[q]
             /\ index'[q] = index[q] /\ saved'[q] = saved[q] /\ view'[q] = view[q]
             /\ pos'[q] = pos[q] /\ fd'[q] = fd[q] /\ sound'[q] = sound[q]
  BY <1>7 DEF Write, WriteAt, WriteEntry
<1>8. CASE Close(p)
  BY <1>8 DEF Close
<1> QED
  BY <1>1, <1>2, <1>3, <1>4, <1>5, <1>6, <1>7, <1>8 DEF Process

\* The local file of the new view, when one is made, is not the one of the old
\* view, and none of another process.
LEMMA NewFile ==
  ASSUME DInv, NEW p \in Procs, NEW v \in ViewsOf[p],
         SetView(p, v) \/ PackFails(p, v) \/ LocalOpenFails(p, v)
  PROVE  /\ LocalName(p)' = <<RankOf[p], index[p] + 1>> /\ LocalName(p)' \in Paths
         /\ \A h \in Paths : h # LocalName(p)' => local'[h] = local[h]
         /\ SetView(p, v) => local'[LocalName(p)'] = << >>
<1>1. /\ BeginView(p, v) /\ index' = [index EXCEPT ![p] = NextIndex(p)] /\ NextIndex(p) <= MaxViews
  BY DEF SetView, PackFails, LocalOpenFails, BeginView
<1>2. LocalName(p)' = <<RankOf[p], index[p] + 1>>
  BY <1>1 DEF LocalName, NextIndex, DInv, TypeOK
<1>3. LocalName(p)' \in Paths
  BY <1>1, <1>2, NewPath DEF NextIndex, DInv, Descriptors
<1> PICK g : g = LocalName(p)'
  OBVIOUS
<1>4. /\ local' = local \/ local' = [local EXCEPT ![g] = << >>]
      /\ SetView(p, v) => local' = [local EXCEPT ![g] = << >>]
  BY <1>2 DEF SetView, PackFails, LocalOpenFails, NextIndex
<1> QED
  BY <1>2, <1>3, <1>4 DEF DInv, LocalFcn

\* A call changes no local file of another process.
LEMMA OtherFiles ==
  ASSUME DInv, NEW p \in Procs, Process(p), NEW h \in Paths, h[1] # RankOf[p]
  PROVE  local'[h] = local[h]
<1>1. ASSUME NEW v \in ViewsOf[p], SetView(p, v) \/ PackFails(p, v) \/ LocalOpenFails(p, v)
      PROVE  local'[h] = local[h]
  BY <1>1, NewFile
<1>2. ASSUME NEW k, WriteEntry(p, k) PROVE local'[h] = local[h]
  <2>1. CASE fd[p] = Dest
    BY <1>2, <2>1 DEF WriteEntry
  <2>2. CASE fd[p] # Dest
    <3>1. fd[p] = LocalName(p) /\ fd[p] \in Paths
      BY <1>2, <2>2, BufferFile
      DEF WriteEntry, Buffers, DInv, Descriptors, FdMatchesState, Reopened
    <3>2. local' = [local EXCEPT ![fd[p]] = Put(@, k, writes')]
      BY <1>2, <2>2 DEF WriteEntry
    <3>3. h # fd[p]
      BY <3>1 DEF LocalName
    <3> QED
      BY <3>1, <3>2, <3>3 DEF DInv, LocalFcn
  <2> QED
    BY <2>1, <2>2
<1>3. ASSUME UNCHANGED local PROVE local'[h] = local[h]
  BY <1>3
<1> QED
  BY <1>1, <1>2, <1>3
  DEF Process, Open, FlushFails, SetDefaultView, SetAtomicity, SetViewFallback,
      Write, WriteAt, Close

\* Nor what another process buffers.
LEMMA OtherBuffers ==
  ASSUME DInv, DistinctRanks, NEW p \in Procs, Process(p), NEW q \in Procs, q # p
  PROVE  /\ Buffers(q)' <=> Buffers(q)
         /\ view'[q] = view[q]
         /\ \A o, x : InBuffer(q, o, x)' <=> InBuffer(q, o, x)
         /\ Buffers(q) => local'[fd[q]] = local[fd[q]]
<1>1. /\ isOpen'[q] = isOpen[q] /\ state'[q] = state[q] /\ sound'[q] = sound[q]
      /\ fd'[q] = fd[q] /\ view'[q] = view[q]
  BY OtherHandles
<1>2. Buffers(q)' <=> Buffers(q)
  BY <1>1 DEF Buffers
<1>3. ASSUME Buffers(q) PROVE local'[fd[q]] = local[fd[q]]
  <2>1. fd[q] = LocalName(q) /\ fd[q] \in Paths
    BY <1>3, BufferFile
  <2>2. fd[q][1] # RankOf[p]
    BY <2>1 DEF LocalName, DistinctRanks
  <2> QED
    BY <2>1, <2>2, OtherFiles
<1> QED
  BY <1>1, <1>2, <1>3 DEF InBuffer

\* Nor what another process knows of its files.
LEMMA OtherFits ==
  ASSUME DInv, DistinctRanks, NEW p \in Procs, Process(p), NEW q \in Procs, q # p, HandleFits(q)
  PROVE  HandleFits(q)'
<1>1. /\ opens'[q] = opens[q] /\ isOpen'[q] = isOpen[q] /\ state'[q] = state[q]
      /\ index'[q] = index[q] /\ saved'[q] = saved[q] /\ view'[q] = view[q]
      /\ pos'[q] = pos[q] /\ fd'[q] = fd[q] /\ sound'[q] = sound[q]
  BY OtherHandles
<1>2. RankOf[q] # RankOf[p]
  BY DEF DistinctRanks
<1>3. \A h \in Paths : h[1] = RankOf[q] => local'[h] = local[h]
  BY <1>2, OtherFiles
<1>4. Buffers(q)' => saved'[q] = view'[q] /\ pos'[q] <= Len(local'[fd'[q]])
  BY <1>1, OtherBuffers DEF HandleFits
<1>5. ASSUME isOpen'[q], state'[q] = "ACTIVE", ~sound'[q]
      PROVE  local'[LocalName(q)'] \in {None, << >>}
  <2>1. LocalName(q)' = LocalName(q) /\ LocalName(q) \in Paths /\ LocalName(q)[1] = RankOf[q]
    BY <1>1, <1>5, LocalNames DEF LocalName
  <2>2. local'[LocalName(q)'] = local[LocalName(q)]
    BY <1>3, <2>1
  <2> QED
    BY <1>1, <1>5, <2>2 DEF HandleFits
<1>6. MaxOpens <= 1 =>
       \A f \in Paths : f[1] = RankOf[q] /\ (opens'[q] = 0 \/ (isOpen'[q] /\ f[2] > index'[q]))
                        => local'[f] = None
  BY <1>1, <1>3 DEF HandleFits
<1> QED
  BY <1>4, <1>5, <1>6 DEF HandleFits

\* Calls that touch neither files nor queue, and a flush that fails.
LEMMA QuietCall ==
  ASSUME Disciplined, LossInv, NEW p \in Procs, Process(p),
         Open(p) \/ SetAtomicity(p) \/ FlushFails(p) \/ \E v \in ViewsOf[p] : SetViewFallback(p, v)
  PROVE  OnTheirWay' /\ FailuresFit' /\ HandleFits(p)'
<1>1. UNCHANGED <<index, saved, local, dest, pending, running, copy, want, failed>>
  BY DEF Open, SetAtomicity, FlushFails, SetViewFallback, handle, queue, ghost
<1>2. /\ isOpen \in [Procs -> BOOLEAN] /\ opens \in [Procs -> 0..MaxOpens]
      /\ state \in [Procs -> States]
      /\ ~isOpen[p] => state[p] = "DEFAULT"
  BY DEF LossInv, DInv, TypeOK, Descriptors, HandleTypes
<1>3. \/ /\ FlushFails(p) /\ UNCHANGED <<opens, isOpen, state, view, pos, fd, sound>>
      \/ isOpen'[p] /\ state'[p] # "ACTIVE" /\ state[p] # "ACTIVE"
  <2>1. CASE Open(p)
    BY <1>2, <2>1 DEF Open
  <2>2. CASE SetAtomicity(p)
    BY <1>2, <2>2 DEF SetAtomicity, MayFallBack
  <2>3. CASE FlushFails(p)
    BY <2>3 DEF FlushFails, handle
  <2>4. ASSUME NEW v, SetViewFallback(p, v)
        PROVE  isOpen'[p] /\ state'[p] # "ACTIVE" /\ state[p] # "ACTIVE"
    BY <1>2, <2>4 DEF SetViewFallback
  <2> QED
    BY <2>1, <2>2, <2>3, <2>4
<1>4. ASSUME NEW q \in Procs
      PROVE  /\ Buffers(q)' => Buffers(q) /\ view'[q] = view[q]
             /\ \A o, x : InBuffer(q, o, x)' <=> InBuffer(q, o, x)
  <2>1. CASE q # p
    BY <2>1, OtherBuffers DEF LossInv, Disciplined
  <2>2. CASE q = p
    <3>1. CASE state'[p] # "ACTIVE" /\ state[p] # "ACTIVE"
      BY <2>2, <3>1 DEF Buffers, InBuffer
    <3>2. CASE FlushFails(p) /\ UNCHANGED <<opens, isOpen, state, view, pos, fd, sound>>
      BY <1>1, <2>2, <3>2 DEF Buffers, InBuffer
    <3> QED
      BY <1>3, <3>1, <3>2
  <2> QED
    BY <2>1, <2>2
<1>5. Steady
  BY StepSteady DEF Next
<1>6. OnTheirWay'
  BY <1>1, <1>4, <1>5, QuietStep DEF LossInv
<1>7. FailuresFit'
  BY <1>1 DEF LossInv, FailuresFit
<1>8. HandleFits(p)'
  <2>1. CASE FlushFails(p)
    BY <2>1 DEF FlushFails, handle, LossInv, HandleFits, Buffers, LocalName
  <2>2. CASE isOpen'[p] /\ state'[p] # "ACTIVE" /\ state[p] # "ACTIVE"
    <3>1. MaxOpens <= 1 =>
            \A f \in Paths : f[1] = RankOf[p] /\ (opens'[p] = 0 \/ (isOpen'[p] /\ f[2] > index'[p]))
                             => local'[f] = None
      <4>1. CASE Open(p)
        <5>1. MaxOpens <= 1 => opens[p] = 0
          BY <1>2, <4>1, BBViewAssumption DEF Open, BBViewAssumption
        <5> QED
          BY <1>1, <5>1 DEF LossInv, HandleFits
      <4>2. CASE UNCHANGED <<opens, isOpen>>
        BY <1>1, <4>2 DEF LossInv, HandleFits
      <4> QED
        BY <4>1, <4>2 DEF SetAtomicity, FlushFails, SetViewFallback, handle
    <3> QED
      BY <2>2, <3>1 DEF HandleFits, Buffers
  <2> QED
    BY <1>3, <2>1, <2>2
<1> QED
  BY <1>6, <1>7, <1>8

\* A job's file carries offsets of the view in its attributes.
LEMMA CarriedOffset ==
  ASSUME DInv, NEW g \in Busy \ {None}, NEW o, Carries(g, o)
  PROVE  g \in Paths /\ o \in ToSet(attr[g])
<1>1. g \in Paths /\ Attached(g)
  <2>1. pending \in Seq(Paths) /\ running \in [Workers -> Paths \cup {None}]
    BY DEF DInv, TypeOK
  <2>2. CASE g \in ToSet(pending)
    <3>1. PICK i \in 1..Len(pending) : g = pending[i]
      BY <2>2 DEF ToSet
    <3> QED
      BY <2>1, <3>1 DEF DInv, JobsReady
  <2>3. CASE g \in {running[w] : w \in Workers}
    BY <2>1, <2>3 DEF DInv, JobsReady
  <2> QED
    BY <2>2, <2>3 DEF Busy
<1>2. local[g] \in Seq(Values) /\ attr[g] \in Seq(Offsets)
  <2>1. attr[g] \in Views
    BY <1>1 DEF DInv, TypeOK, Attached
  <2> QED
    BY <1>1, <2>1, ViewSequences DEF DInv, TypeOK, Attached
<1>3. PICK i \in 1..Len(local[g]) : i <= Len(attr[g]) /\ attr[g][i] = o
  BY DEF Carries, InFile, Holds
<1>4. i \in 1..Len(attr[g])
  BY <1>2, <1>3
<1> QED
  BY <1>1, <1>2, <1>3, <1>4 DEF ToSet

\* What a call that flushes does to the queue and to the flushed file.
LEMMA FlushedFile ==
  ASSUME LossInv, NEW p \in Procs, isOpen[p], state[p] = "ACTIVE", Flush(p),
         local'[LocalName(p)] = local[LocalName(p)]
  PROVE  /\ pending' = Append(pending, LocalName(p))
         /\ \A o, x : Holds(local'[LocalName(p)], attr'[LocalName(p)], 1, o, x) <=> InBuffer(p, o, x)
<1> PICK f : f = LocalName(p)
  OBVIOUS
<1>1. /\ local[f] # None /\ attr' = [attr EXCEPT ![f] = saved[p]]
      /\ pending' = Append(pending, f)
  BY DEF Flush, NeedsFlush, Enqueue, SetAttributes, Daemon!Put
<1>2. f \in Paths /\ attr'[f] = saved[p]
  BY <1>1, LocalNames DEF LossInv, DInv, TypeOK
<1>3. CASE sound[p]
  <2>1. fd[p] = f
    BY <1>3 DEF LossInv, DInv, Descriptors, FdMatchesState
  <2>2. saved[p] = view[p]
    BY <1>3 DEF LossInv, HandleFits, Buffers
  <2> QED
    BY <1>1, <1>2, <1>3, <2>1, <2>2 DEF InBuffer, Buffers
<1>4. CASE ~sound[p]
  <2>1. local[f] = << >>
    BY <1>1, <1>4 DEF LossInv, HandleFits
  <2>2. \A o, x : ~Holds(local'[f], attr'[f], 1, o, x)
    BY <2>1 DEF Holds
  <2> QED
    BY <1>1, <1>4, <2>2 DEF InBuffer, Buffers
<1> QED
  BY <1>3, <1>4

\* A call that flushes and leaves the process without data in its buffer.
LEMMA FlushCall ==
  ASSUME Disciplined, LossInv, Steady, NEW p \in Procs, Process(p), isOpen[p], Flush(p),
         UNCHANGED <<copy, dest, want, failed>>,
         state[p] = "ACTIVE" => local'[LocalName(p)] = local[LocalName(p)],
         \A o, x : ~InBuffer(p, o, x)',
         Buffers(p)' /\ "overlap" \in Rules => DisjointFromJobs(p, view'[p])
  PROVE  OnTheirWay'
<1> PICK n \in Nat : n = Len(pending)
  BY DEF LossInv, Ahead
<1> PICK f : f = LocalName(p)
  OBVIOUS
<1> PICK m : m = Len(pending')
  OBVIOUS
<1>1. /\ DInv /\ Ahead /\ OnTheirWay /\ DistinctRanks /\ pending \in Seq(Paths)
      /\ OneWorker \/ "overlap" \in Rules
  BY DEF LossInv, Ahead, Disciplined
<1>2. /\ Busy' = IF NeedsFlush(p) THEN Busy \cup {f} ELSE Busy
      /\ pending' \in Seq(Paths) /\ running' = running
  BY <1>1, BusyFlush
<1>3. ASSUME state[p] = "ACTIVE"
      PROVE  /\ f \in Paths /\ m = n + 1 /\ pending'[m] = f
             /\ \A i \in 1..n : pending'[i] = pending[i]
             /\ \A o, x : Holds(local'[f], attr'[f], 1, o, x) <=> InBuffer(p, o, x)
  <2>1. f \in Paths
    BY <1>1, <1>3, LocalNames
  <2>2. /\ pending' = Append(pending, f)
        /\ \A o, x : Holds(local'[f], attr'[f], 1, o, x) <=> InBuffer(p, o, x)
    BY <1>3, FlushedFile
  <2> QED
    BY <1>1, <2>1, <2>2
<1>4. ASSUME state[p] # "ACTIVE"
      PROVE  /\ m = n /\ pending' = pending /\ Busy' = Busy
             /\ \A o, x : ~InBuffer(p, o, x)
  BY <1>2, <1>4 DEF Flush, NeedsFlush, queue, InBuffer, Buffers
<1>5. m \in {n, n + 1} /\ \A i \in 1..n : pending'[i] = pending[i]
  BY <1>3, <1>4
<1>6. Busy' \ {None} \subseteq Busy \cup {f}
  BY <1>2
<1>7. f[1] = RankOf[p]
  BY DEF LocalName
<1>8. m > n => /\ pending'[m] = f
               /\ \A o, x : Holds(local'[f], attr'[f], 1, o, x) <=> InBuffer(p, o, x)
  BY <1>3, <1>4
<1>9. m = n => /\ \A o, x : ~InBuffer(p, o, x)
               /\ Busy' \ {None} \subseteq Busy
  BY <1>3, <1>4
<1>10. \A q \in Procs : q # p =>
         /\ Buffers(q)' <=> Buffers(q)
         /\ view'[q] = view[q]
         /\ \A o, x : InBuffer(q, o, x)' <=> InBuffer(q, o, x)
  BY <1>1, OtherBuffers
<1>11. ASSUME ~OneWorker, Buffers(p)', NEW o \in Offsets, o \in ToSet(view'[p])
       PROVE  /\ \A x : ~InBuffer(p, o, x)
              /\ \A g \in Busy \ {None} : g[1] = RankOf[p] => ~Carries(g, o)
  <2>1. DisjointFromJobs(p, view'[p])
    BY <1>1, <1>11
  <2>2. ASSUME NEW x, InBuffer(p, o, x) PROVE FALSE
    <3>1. o \in ToSet(view[p]) /\ state[p] = "ACTIVE"
      BY <1>1, <2>2, BufferedOffset DEF Buffers
    <3> QED
      BY <1>11, <2>1, <3>1 DEF DisjointFromJobs
  <2>3. ASSUME NEW g \in Busy \ {None}, g[1] = RankOf[p], Carries(g, o) PROVE FALSE
    <3>1. OwnPath(p, g) /\ o \in ToSet(attr[g])
      BY <1>1, <2>3, CarriedOffset DEF OwnPath
    <3> QED
      BY <1>11, <2>1, <3>1 DEF DisjointFromJobs
  <2> QED
    BY <2>2, <2>3
<1> QED
  BY <1>1, <1>2, <1>5, <1>6, <1>7, <1>8, <1>9, <1>10, <1>11, FlushStep

\* set_view with the default view, and close: the handle stops buffering.
LEMMA StopCall ==
  ASSUME Disciplined, LossInv, NEW p \in Procs, Process(p), SetDefaultView(p) \/ Close(p)
  PROVE  OnTheirWay' /\ FailuresFit' /\ HandleFits(p)'
<1>1. /\ isOpen[p] /\ Flush(p)
      /\ UNCHANGED <<opens, local, copy, dest, want, failed>>
  BY DEF SetDefaultView, Close, ghost
<1>2. ~(isOpen'[p] /\ state'[p] = "ACTIVE")
  <2>1. CASE SetDefaultView(p)
    <3>1. state'[p] = IF state[p] = "FALLBACK" THEN state[p] ELSE "DEFAULT"
      BY <2>1 DEF SetDefaultView, LossInv, DInv, TypeOK
    <3> QED
      BY <3>1
  <2>2. CASE Close(p)
    BY <2>2 DEF Close, LossInv, DInv, TypeOK
  <2> QED
    BY <2>1, <2>2
<1>3. Steady
  BY StepSteady DEF Next
<1>4. ~Buffers(p)' /\ \A o, x : ~InBuffer(p, o, x)'
  BY <1>2 DEF Buffers, InBuffer
<1>5. OnTheirWay'
  BY <1>1, <1>3, <1>4, FlushCall
<1>6. FailuresFit'
  BY <1>1 DEF LossInv, FailuresFit
<1>7. MaxOpens <= 1 =>
        \A f \in Paths : f[1] = RankOf[p] /\ (opens'[p] = 0 \/ (isOpen'[p] /\ f[2] > index'[p]))
                         => local'[f] = None
  <2>1. isOpen'[p] => index'[p] = index[p]
    BY DEF SetDefaultView, Close, LossInv, DInv, TypeOK
  <2> QED
    BY <1>1, <2>1 DEF LossInv, HandleFits
<1>8. HandleFits(p)'
  BY <1>2, <1>4, <1>7 DEF HandleFits
<1> QED
  BY <1>5, <1>6, <1>8

\* set_view with a view of the application's: the old view's file is a job, the
\* new one's is empty, or there is none where the call failed half-way.
LEMMA BeginCall ==
  ASSUME Disciplined, LossInv, NEW p \in Procs, Process(p), NEW v \in ViewsOf[p],
         SetView(p, v) \/ PackFails(p, v) \/ LocalOpenFails(p, v)
  PROVE  OnTheirWay' /\ FailuresFit' /\ HandleFits(p)'
<1> PICK g : g = LocalName(p)'
  OBVIOUS
<1>1. /\ isOpen[p] /\ Flush(p) /\ Obeys("overlap", DisjointFromJobs(p, v))
      /\ UNCHANGED <<opens, isOpen, copy, dest, want, failed>>
      /\ index' = [index EXCEPT ![p] = NextIndex(p)] /\ saved' = [saved EXCEPT ![p] = v]
  BY DEF SetView, PackFails, LocalOpenFails, BeginView, ghost
<1>2. /\ g = <<RankOf[p], index[p] + 1>> /\ g \in Paths
      /\ \A h \in Paths : h # g => local'[h] = local[h]
      /\ SetView(p, v) => local'[g] = << >>
  BY NewFile DEF LossInv
<1>3. /\ index[p] \in Nat /\ index'[p] = index[p] + 1 /\ saved'[p] = v
      /\ opens[p] # 0
  BY <1>1 DEF LossInv, Ahead, DInv, TypeOK, Descriptors, HandleTypes, NextIndex
<1>4. SetView(p, v) =>
        fd'[p] = g /\ (sound'[p] => view'[p] = v /\ pos'[p] = 0)
  <2> SUFFICES ASSUME SetView(p, v)
               PROVE  fd'[p] = g /\ (sound'[p] => view'[p] = v /\ pos'[p] = 0)
    OBVIOUS
  <2>1. sound'[p] => view' = [view EXCEPT ![p] = v] /\ pos' = [pos EXCEPT ![p] = 0]
    BY OmpioOutcome DEF SetView, LossInv, DInv, TypeOK
  <2>2. fd'[p] = g
    BY <1>2 DEF SetView, NextIndex, LossInv, DInv, TypeOK
  <2> QED
    BY <2>1, <2>2 DEF LossInv, DInv, TypeOK
<1>5. ~SetView(p, v) => /\ ~sound'[p] /\ {"pack", "open"} \cap Faults # {}
  BY DEF PackFails, LocalOpenFails, LossInv, DInv, TypeOK
<1>6. Steady
  BY StepSteady DEF Next
<1>7. state[p] = "ACTIVE" => local'[LocalName(p)] = local[LocalName(p)]
  <2>1. state[p] = "ACTIVE" => LocalName(p) \in Paths
    BY LocalNames DEF LossInv
  <2>2. LocalName(p) # g
    BY <1>2, <1>3 DEF LocalName
  <2> QED
    BY <1>2, <2>1, <2>2
<1>8. \A o, x : ~InBuffer(p, o, x)'
  <2>1. CASE SetView(p, v)
    <3>1. local'[fd'[p]] = << >>
      BY <1>2, <1>4, <2>1
    <3> QED
      BY <3>1 DEF InBuffer, Holds
  <2>2. CASE ~SetView(p, v)
    BY <1>5, <2>2 DEF InBuffer, Buffers
  <2> QED
    BY <2>1, <2>2
<1>9. Buffers(p)' /\ "overlap" \in Rules => DisjointFromJobs(p, view'[p])
  BY <1>1, <1>4, <1>5 DEF Buffers, Obeys
<1>10. OnTheirWay'
  BY <1>1, <1>6, <1>7, <1>8, <1>9, FlushCall
<1>11. FailuresFit'
  BY <1>1 DEF LossInv, FailuresFit
<1>12. HandleFits(p)'
  <2>1. Buffers(p)' => saved'[p] = view'[p] /\ pos'[p] <= Len(local'[fd'[p]])
    <3>1. CASE SetView(p, v)
      <4>1. local'[fd'[p]] = << >>
        BY <1>2, <1>4, <3>1
      <4>2. sound'[p] => Len(local'[fd'[p]]) = 0 /\ pos'[p] = 0 /\ view'[p] = v
        BY <1>4, <3>1, <4>1
      <4> QED
        BY <1>3, <4>2 DEF Buffers
    <3>2. CASE ~SetView(p, v)
      BY <1>5, <3>2 DEF Buffers
    <3> QED
      BY <3>1, <3>2
  <2>2. ~sound'[p] => local'[g] \in {None, << >>}
    <3> SUFFICES ASSUME ~SetView(p, v) PROVE local'[g] \in {None, << >>}
      BY <1>2
    <3>1. ~SetView(p, v)
      OBVIOUS
    <3>2. MaxOpens <= 1
      BY <1>5, <3>1 DEF Disciplined
    <3>3. g[1] = RankOf[p] /\ g[2] > index[p]
      BY <1>2, <1>3
    <3>4. local[g] = None
      BY <1>1, <1>2, <3>2, <3>3 DEF LossInv, HandleFits
    <3>5. local' = local \/ local' = [local EXCEPT ![g] = << >>]
      BY <1>2, <3>1 DEF PackFails, LocalOpenFails, NextIndex
    <3> QED
      BY <1>2, <3>4, <3>5 DEF LossInv, DInv, LocalFcn
  <2>3. MaxOpens <= 1 =>
          \A f \in Paths : f[1] = RankOf[p] /\ (opens'[p] = 0 \/ (isOpen'[p] /\ f[2] > index'[p]))
                           => local'[f] = None
    <3> SUFFICES ASSUME MaxOpens <= 1, NEW f \in Paths, f[1] = RankOf[p], f[2] > index[p] + 1
                 PROVE  local'[f] = None
      BY <1>1, <1>3
    <3>1. f # g
      BY <1>2, <1>3
    <3>2. f[2] > index[p]
      <4>1. f[2] \in Int
        BY DEF Paths
      <4> QED
        BY <1>3, <4>1
    <3> QED
      BY <1>1, <1>2, <3>1, <3>2 DEF LossInv, HandleFits
  <2> QED
    BY <2>1, <2>2, <2>3 DEF HandleFits
<1> QED
  BY <1>10, <1>11, <1>12

\* write and write_at.
LEMMA WriteCall ==
  ASSUME Disciplined, LossInv, NEW p \in Procs, Process(p), NEW k, WriteEntry(p, k),
         \/ k = pos[p] + 1 /\ pos' = [pos EXCEPT ![p] = @ + 1]
         \/ WriteAt(p, k)
  PROVE  OnTheirWay' /\ FailuresFit' /\ HandleFits(p)'
<1>1. /\ isOpen[p] /\ sound[p] /\ k \in 1..Len(view[p])
      /\ UNCHANGED <<opens, isOpen, state, index, saved, view, fd, sound, failed>>
  BY DEF WriteEntry
<1>2. Steady
  BY StepSteady DEF Next
<1>3. FailuresFit'
  BY <1>1 DEF LossInv, FailuresFit
<1>4. /\ pos \in [Procs -> Nat] /\ pos'[p] = (IF WriteAt(p, k) THEN pos[p] ELSE k)
      /\ k \in Nat
  BY <1>1 DEF WriteAt, LossInv, DInv, TypeOK
<1>5. opens[p] # 0
  BY <1>1 DEF LossInv, Ahead
<1>6. CASE fd[p] = Dest
  <2>1. local' = local
    BY <1>6 DEF WriteEntry
  <2>2. ~Buffers(p)
    BY <1>6, BufferFile, BBViewAssumption DEF LossInv, BBViewAssumption
  <2>3. ~Buffers(p)'
    BY <1>1, <2>2 DEF Buffers
  <2>4. HandleFits(p)'
    BY <1>1, <2>1, <2>3 DEF LossInv, HandleFits
  <2>5. OnTheirWay'
    BY <1>2, <1>6, WriteDirectStep DEF LossInv
  <2> QED
    BY <1>3, <2>4, <2>5
<1>7. CASE fd[p] # Dest
  <2>1. Buffers(p)
    BY <1>1, <1>7 DEF Buffers, WriteEntry, LossInv, DInv, Descriptors, FdMatchesState, Reopened
  <2>2. fd[p] = LocalName(p) /\ fd[p] \in Paths /\ Len(local[fd[p]]) \in Nat
    BY <2>1, BufferFile DEF LossInv
  <2>3. saved[p] = view[p] /\ pos[p] <= Len(local[fd[p]])
    BY <2>1 DEF LossInv, HandleFits
  <2>4. k <= Len(local[fd[p]]) + 1
    <3>1. CASE WriteAt(p, k)
      BY <2>2, <3>1 DEF WriteAt, Obeys, Disciplined
    <3>2. CASE k = pos[p] + 1
      BY <1>4, <2>2, <2>3, <3>2
    <3> QED
      BY <3>1, <3>2
  <2>5. /\ OnTheirWay'
        /\ Len(local'[fd[p]]) >= Len(local[fd[p]]) /\ Len(local'[fd[p]]) >= k
        /\ \A h \in Paths : h # LocalName(p) => local'[h] = local[h]
    BY <1>2, <1>7, <2>4, WriteBufferStep DEF LossInv, Disciplined
  <2>6. pos'[p] <= Len(local'[fd'[p]])
    <3> PICK a : a = Len(local'[fd[p]])
      OBVIOUS
    <3>1. a >= Len(local[fd[p]]) /\ a >= k /\ fd'[p] = fd[p]
      BY <1>1, <2>5
    <3>2. a \in Nat
      <4>1. local'[fd[p]] = Put(local[fd[p]], k, writes')
        BY <1>7, <2>2 DEF WriteEntry, LossInv, DInv, LocalFcn
      <4>2. k \in 1..(Len(local[fd[p]]) + 1) /\ local[fd[p]] \in Seq(Values)
        BY <1>1, <1>4, <2>1, <2>2, <2>4, BufferFile DEF LossInv
      <4>3. Len(Put(local[fd[p]], k, writes')) \in Nat
        BY <4>2, PutEntries
      <4> QED
        BY <4>1, <4>3
    <3>3. pos[p] <= a
      BY <1>4, <2>2, <2>3, <3>1, <3>2
    <3> QED
      BY <1>4, <3>1, <3>2, <3>3
  <2>7. MaxOpens <= 1 =>
          \A f \in Paths : f[1] = RankOf[p] /\ (opens'[p] = 0 \/ (isOpen'[p] /\ f[2] > index'[p]))
                           => local'[f] = None
    <3> SUFFICES ASSUME MaxOpens <= 1, NEW f \in Paths, f[1] = RankOf[p], f[2] > index[p]
                 PROVE  local'[f] = None
      BY <1>1, <1>5
    <3>1. f # LocalName(p)
      <4>1. index[p] \in Nat
        BY DEF LossInv, DInv, Descriptors, HandleTypes
      <4> QED
        BY <4>1 DEF LocalName
    <3> QED
      BY <1>1, <2>5, <3>1 DEF LossInv, HandleFits
  <2>8. HandleFits(p)'
    BY <1>1, <2>3, <2>6, <2>7 DEF HandleFits
  <2> QED
    BY <1>3, <2>5, <2>8
<1> QED
  BY <1>6, <1>7

\* The workers.
LEMMA WorkerCall ==
  ASSUME Disciplined, LossInv, NEW w \in Workers, TakeJob(w) \/ Worker(w) \/ JobFails(w)
  PROVE  OnTheirWay' /\ FailuresFit' /\ \A p \in Procs : HandleFits(p)'
<1>1. OnTheirWay'
  BY TakeJobStep, OpenJobStep, CopyChunkStep, EndJobStep DEF LossInv, Worker
<1>2. FailuresFit'
  <2>1. CASE JobFails(w)
    BY <2>1 DEF JobFails, FailuresFit
  <2>2. CASE failed' = failed
    BY <2>2 DEF LossInv, FailuresFit
  <2> QED
    BY <2>1, <2>2 DEF TakeJob, Worker, OpenJob, CopyChunk, EndJob, ghost
<1>3. UNCHANGED <<handle, local>>
  BY DEF TakeJob, Worker, OpenJob, CopyChunk, EndJob, JobFails
<1>4. \A p \in Procs : HandleFits(p)'
  BY <1>3 DEF LossInv, HandleFits, Buffers, LocalName, handle
<1> QED
  BY <1>1, <1>2, <1>4

\* Nothing is on its way at the start.
LEMMA LossInit == Init => LossInv
<1> SUFFICES ASSUME Init PROVE LossInv
  OBVIOUS
<1>1. DInv /\ Ahead
  BY InitDInv, AheadInit
<1>2. /\ pending = << >> /\ running = [w \in Workers |-> None] /\ failed = {}
      /\ copy = [w \in Workers |-> None]
      /\ isOpen = [p \in Procs |-> FALSE] /\ sound = [p \in Procs |-> TRUE]
      /\ local = [f \in Paths |-> None]
      /\ dest = [o \in Offsets |-> Old] /\ want = [o \in Offsets |-> Old]
  BY DEF Init, Daemon!Empty
<1>3. Busy \ {None} = {} /\ Len(pending) = 0
  BY <1>2 DEF Busy, ToSet
<1>4. \A p \in Procs : ~Buffers(p) /\ \A o, x : ~InBuffer(p, o, x)
  BY <1>2 DEF Buffers, InBuffer
<1>5. \A w \in Workers : running[w] = None /\ copy[w] = None /\ \A o, x : ~ToCopy(w, o, x)
  BY <1>2 DEF ToCopy
<1>6. FailuresFit
  BY <1>2 DEF FailuresFit
<1>7. OnTheirWay
  <2>1. Owned /\ CopiesFit
    BY <1>3, <1>4, <1>5 DEF Owned, CopiesFit
  <2>2. Apart
    BY <1>3, <1>5 DEF Apart
  <2>3. \A o \in Offsets : Newest(o)
    BY <1>2, <1>3, <1>4, <1>5 DEF Newest
  <2> QED
    BY <2>1, <2>2, <2>3 DEF OnTheirWay
<1>8. \A p \in Procs : HandleFits(p)
  BY <1>2, <1>4 DEF HandleFits
<1> QED
  BY <1>1, <1>6, <1>7, <1>8 DEF LossInv

\* Every step keeps the invariant.
LEMMA LossStep ==
  ASSUME Disciplined, LossInv, [Next]_vars
  PROVE  LossInv'
<1>1. DInv'
  BY StepDInv DEF LossInv
<1>2. Ahead'
  BY DisciplinedOpens, AheadStep DEF LossInv, DInv, Descriptors
<1>3. CASE UNCHANGED vars
  <2>1. Steady
    BY StepSteady
  <2>2. /\ UNCHANGED <<pending, running, copy, dest, want, failed, local>>
        /\ UNCHANGED <<opens, isOpen, state, index, saved, view, pos, fd, sound>>
    BY <1>3 DEF vars
  <2>3. \A q \in Procs : /\ Buffers(q)' <=> Buffers(q)
                         /\ \A o, x : InBuffer(q, o, x)' <=> InBuffer(q, o, x)
    BY <2>2 DEF Buffers, InBuffer
  <2>4. OnTheirWay'
    BY <2>1, <2>2, <2>3, QuietStep DEF LossInv
  <2>5. FailuresFit' /\ \A q \in Procs : HandleFits(q)'
    BY <2>2 DEF LossInv, FailuresFit, HandleFits, Buffers, LocalName
  <2> QED
    BY <1>1, <1>2, <2>4, <2>5 DEF LossInv
<1>4. ASSUME NEW p \in Procs, Process(p) PROVE LossInv'
  <2>1. OnTheirWay' /\ FailuresFit' /\ HandleFits(p)'
    <3>1. CASE \/ Open(p) \/ SetAtomicity(p) \/ FlushFails(p)
               \/ \E v \in ViewsOf[p] : SetViewFallback(p, v)
      BY <1>4, <3>1, QuietCall
    <3>2. CASE SetDefaultView(p) \/ Close(p)
      BY <1>4, <3>2, StopCall
    <3>3. ASSUME NEW v \in ViewsOf[p], SetView(p, v) \/ PackFails(p, v) \/ LocalOpenFails(p, v)
          PROVE  OnTheirWay' /\ FailuresFit' /\ HandleFits(p)'
      BY <1>4, <3>3, BeginCall
    <3>4. CASE Write(p)
      <4> PICK k : k = pos[p] + 1
        OBVIOUS
      <4>1. WriteEntry(p, k) /\ pos' = [pos EXCEPT ![p] = @ + 1]
        BY <3>4 DEF Write
      <4> QED
        BY <1>4, <4>1, WriteCall
    <3>5. ASSUME NEW k \in Offsets, WriteAt(p, k)
          PROVE  OnTheirWay' /\ FailuresFit' /\ HandleFits(p)'
      <4>1. WriteEntry(p, k)
        BY <3>5 DEF WriteAt
      <4> QED
        BY <1>4, <3>5, <4>1, WriteCall
    <3> QED
      BY <1>4, <3>1, <3>2, <3>3, <3>4, <3>5 DEF Process
  <2>2. \A q \in Procs : q # p => HandleFits(q)'
    BY <1>4, OtherFits DEF LossInv, Disciplined
  <2> QED
    BY <1>1, <1>2, <2>1, <2>2 DEF LossInv
<1>5. ASSUME NEW w \in Workers, TakeJob(w) \/ Worker(w) \/ JobFails(w) PROVE LossInv'
  <2>1. OnTheirWay' /\ FailuresFit' /\ \A p \in Procs : HandleFits(p)'
    BY <1>5, WorkerCall
  <2> QED
    BY <1>1, <1>2, <2>1 DEF LossInv
<1> QED
  BY <1>3, <1>4, <1>5 DEF Next
-----------------------------------------------------------------------------
(* The theorems.                                                           *)

\* The invariant holds in every reachable state.
LEMMA LossInvariant ==
  ASSUME Disciplined
  PROVE  SafeSpec => []LossInv
<1>1. Init => LossInv
  BY LossInit
<1>2. LossInv /\ [Next]_vars => LossInv'
  BY LossStep
<1> QED
  BY <1>1, <1>2, PTL DEF SafeSpec

\* What is behind the newest data on its way is the last value: the last of
\* the jobs that carry the offset, or the buffer, has it.
LEMMA LaterIsNewest ==
  ASSUME LossInv, NEW o \in Offsets, Later(0, o)
  PROVE  Buffered(o, want[o]) \/ Queued(o, want[o])
<1>1. CASE \E p \in Procs : \E x \in Values : InBuffer(p, o, x)
  <2>1. PICK p \in Procs, x \in Values : InBuffer(p, o, x)
    BY <1>1
  <2>2. x = want[o]
    BY <2>1 DEF LossInv, OnTheirWay, Newest
  <2> QED
    BY <2>1, <2>2 DEF InBuffer, Buffers, Buffered
<1>2. CASE ~\E p \in Procs : \E x \in Values : InBuffer(p, o, x)
  <2> PICK n \in Nat : n = Len(pending)
    BY DEF LossInv, Ahead
  <2> DEFINE T == {n - i : i \in {j \in 1..n : Carries(pending[j], o)}}
             R == {ss \in Nat \X Nat : ss[1] < ss[2]}
  <2>1. PICK j \in 1..n : Carries(pending[j], o)
    BY <1>2 DEF Later
  <2>2. T \subseteq Nat /\ n - j \in T
    BY <2>1
  <2>3. PICK t \in T : \A u \in T : ~(<<u, t>> \in R)
    <3> HIDE DEF T, R
    <3>1. IsWellFoundedOn(R, Nat)
      BY NatLessThanWellFounded, Zenon DEF R, OpToRel
    <3> QED
      BY <2>2, <3>1, WFMin
  <2>4. ASSUME NEW u \in T PROVE t <= u
    <3>1. t \in Nat /\ u \in Nat
      BY <2>2
    <3>2. ~(u < t)
      BY <2>3, <3>1
    <3> QED
      BY <3>1, <3>2
  <2>5. PICK i \in 1..n : t = n - i /\ Carries(pending[i], o)
    BY <2>3
  <2>6. ~Later(i, o)
    <3>1. ASSUME NEW l \in (i + 1)..n, Carries(pending[l], o) PROVE FALSE
      <4>1. n - l \in T
        BY <2>5, <3>1
      <4>2. t <= n - l
        <5> HIDE DEF T
        <5> QED
          BY <2>4, <4>1
      <4> QED
        BY <2>5, <4>2
    <3> QED
      BY <1>2, <3>1 DEF Later
  <2>7. InFile(pending[i], o, want[o])
    BY <2>5, <2>6 DEF Carries, LossInv, OnTheirWay, Newest
  <2>8. pending[i] \in ToSet(pending)
    BY <2>5 DEF ToSet
  <2> QED
    BY <2>7, <2>8 DEF Queued, InFile
<1> QED
  BY <1>1, <1>2

\* For any number of processes, views, writes and workers, as long as the
\* application keeps to its rules: what was written last for an offset is
\* at the destination, on its way there, or in the file a failed job left
\* (write, set_view, close and the daemon's execute together).
THEOREM NothingIsLost ==
  ASSUME Disciplined
  PROVE  SafeSpec => []NoSilentLoss
<1>1. LossInv => NoSilentLoss
  <2> SUFFICES ASSUME LossInv, NEW o \in Offsets
               PROVE  \/ dest[o] = want[o] \/ Buffered(o, want[o]) \/ Queued(o, want[o])
                      \/ BeingCopied(o, want[o]) \/ LeftBehind(o, want[o])
    BY DEF NoSilentLoss
  <2>1. Newest(o)
    BY DEF LossInv, OnTheirWay
  <2>2. ASSUME NEW w \in Workers, ToCopy(w, o, want[o]) PROVE BeingCopied(o, want[o])
    <3>1. copy[w] # None => copy[w].view = attr[running[w]]
      BY DEF LossInv, OnTheirWay, CopiesFit
    <3> QED
      BY <2>2, <3>1 DEF ToCopy, BeingCopied
  <2>3. ASSUME NEW w \in Workers, NEW x \in Values, ToCopy(w, o, x)
        PROVE  BeingCopied(o, want[o]) \/ Later(0, o)
    BY <2>1, <2>2, <2>3 DEF Newest
  <2> QED
    BY <2>1, <2>3, LaterIsNewest DEF Newest
<1> QED
  BY <1>1, LossInvariant, PTL

\* Where no job fails: once no job of a process waits or runs and it does not
\* buffer, the destination holds what it wrote (what a direct access after a
\* flush relies on).
THEOREM SettledIsWritten ==
  ASSUME Disciplined, "job" \notin Faults
  PROVE  SafeSpec => []SettledIsCurrent
<1>1. LossInv => SettledIsCurrent
  <2> SUFFICES ASSUME LossInv, NEW p \in Procs, Settled(p), state[p] # "ACTIVE",
                      NEW o \in Owns[p]
               PROVE  dest[o] = want[o]
    BY DEF SettledIsCurrent
  <2>1. o \in Offsets /\ \A q \in Procs : o \in Owns[q] => q = p
    BY BBViewAssumption DEF BBViewAssumption
  <2>2. ASSUME NEW f \in Busy \ {None}, Carries(f, o) PROVE FALSE
    <3>1. f \in Paths /\ f[1] # RankOf[p]
      BY KeptPaths DEF LossInv, Kept, Settled, OwnPath
    <3>2. PICK q \in Procs : f[1] = RankOf[q]
      BY <3>1 DEF Paths
    <3> QED
      BY <2>1, <2>2, <3>1, <3>2 DEF LossInv, OnTheirWay, Owned
  <2>3. ASSUME NEW q \in Procs, NEW x \in Values, InBuffer(q, o, x) PROVE FALSE
    BY <2>1, <2>3 DEF LossInv, OnTheirWay, Owned, InBuffer, Buffers
  <2>4. ~Later(0, o)
    <3>1. \A i \in 1..Len(pending) : pending[i] \in Busy \ {None}
      <4>1. \A i \in 1..Len(pending) : pending[i] \in ToSet(pending) /\ pending[i] \in Paths
        BY DEF LossInv, Ahead, ToSet
      <4> QED
        BY <4>1, BBViewAssumption DEF Busy, BBViewAssumption
    <3> QED
      BY <2>2, <2>3, <3>1 DEF Later
  <2>5. ASSUME NEW w \in Workers, NEW x \in Values, ToCopy(w, o, x) PROVE FALSE
    <3>1. InFile(running[w], o, x) /\ running[w] \in Busy \ {None}
      BY <2>5, ToCopyIsInFile DEF LossInv, ToCopy, Busy
    <3> QED
      BY <2>2, <3>1 DEF Carries
  <2>6. ~LeftBehind(o, want[o])
    BY DEF LossInv, FailuresFit, LeftBehind
  <2> QED
    BY <2>1, <2>4, <2>5, <2>6 DEF LossInv, OnTheirWay, Newest
<1> QED
  BY <1>1, LossInvariant, PTL
=============================================================================
