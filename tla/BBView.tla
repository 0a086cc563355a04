------------------------------- MODULE BBView -------------------------------
(***************************************************************************)
(* The whole burst buffer: the file handles of the processes (io_bbview),  *)
(* the node-local files that buffer one file view each, the queue of flush *)
(* jobs and the workers that replay a local file through the saved view    *)
(* into the destination (execute in bbviewd.c).                            *)
(*                                                                         *)
(* All processes open one destination file.  A file view is the sequence   *)
(* of destination offsets its data goes to, one per etype; what is written *)
(* is numbered, so that every write can be told from the others.  The      *)
(* daemon is its JobQueue, which Bbviewd implements.                       *)
(***************************************************************************)
EXTENDS Integers, Sequences, SequencesExt, FiniteSets

CONSTANTS Procs,      \* processes, each with one handle on the file
          RankOf,     \* rank of a process in the communicator of its handle
          ViewsOf,    \* views a process may set, beside the default one
          Owns,       \* offsets a process writes; two processes never share one
          Offsets,    \* 1..N: offsets of the destination
          Workers,    \* flush threads of the daemon
          Dest,       \* the destination, as what a descriptor is open on
          None,       \* no path, no view, no descriptor, no job
          Chunk,      \* etypes a worker reads at a time
          Rules,      \* what the application abstains from, see RuleKinds
          Faults,     \* failures the environment may inject, see FaultKinds
          MaxOpens, MaxViews, MaxWrites  \* bounds of the model

\* "reopen"   it reopens the file only when its jobs are done
\* "direct"   it writes the destination directly only when its jobs are done
\* "overlap"  it sets a view only when no job of its own covers the same offsets
\* "gaps"     it writes a view from its beginning, leaving nothing out
RuleKinds == {"reopen", "direct", "overlap", "gaps"}

\* "flush"    an extended attribute, connect() or write() of a flush fails
\* "pack"     the datatypes cannot be packed
\* "open"     open() of the local file fails
\* "dest"     open() of the destination fails when the default view returns to it
\* "ompio"    ompio's own set_view fails
\* "job"      an attribute, the destination, a read or a write of a job fails
FaultKinds == {"flush", "pack", "open", "dest", "ompio", "job"}

ByteView == [i \in 1..Cardinality(Offsets) |-> i]
Views    == {ByteView} \cup UNION {ViewsOf[p] : p \in Procs}
Paths    == {RankOf[p] : p \in Procs} \X (1..MaxViews)
Values   == -1..MaxWrites
Old      == 0     \* what the destination held before
Hole     == -1    \* what a sparse file reads as where nothing was written

ASSUME BBViewAssumption ==
  /\ IsFiniteSet(Offsets)
  /\ Offsets = 1..Cardinality(Offsets)
  /\ \A p \in Procs : \A v \in ViewsOf[p] :
       /\ v \in Seq(Offsets)
       /\ \A i, k \in 1..Len(v) : v[i] = v[k] => i = k
  /\ \A p \in Procs : Owns[p] \subseteq Offsets
  /\ \A p, q \in Procs : p # q => Owns[p] \cap Owns[q] = {}
  /\ None \notin Paths \cup Views \cup {Dest}
  /\ Dest \notin Paths
  /\ None \notin Seq(Values)
  /\ None \notin [view : Views, done : Nat]
  /\ Chunk \in Nat \ {0}
  /\ MaxOpens \in Nat /\ MaxViews \in Nat /\ MaxWrites \in Nat
  /\ Rules \subseteq RuleKinds
  /\ Faults \subseteq FaultKinds

VARIABLES
  \* a process's handle: mca_common_bbview_data_t and its ompio handle
  opens,   \* how often it opened the file
  isOpen,
  state,   \* bbview_state_t
  index,   \* view_index
  saved,   \* what get_view reports, None when saved_datarep is NULL
  view,    \* the view the application set
  pos,     \* individual file pointer, in etypes
  fd,      \* what the descriptor is open on: Dest, a path, None
  sound,   \* the last set_view did not fail half-way
  \* the node and the parallel file system
  local,   \* the local files: data, or None when there is no such file
  attr,    \* the view in a local file's extended attributes
  dest,    \* the destination file
  \* the daemon
  pending, running,
  copy,    \* a worker's copy: its view and how far it read, or None
  \* what the application was told
  writes,  \* how many etypes were written
  want,    \* the last value written for each offset
  failed   \* the local files whose job failed

handle == <<opens, isOpen, state, index, saved, view, pos, fd, sound>>
queue  == <<pending, running>>
ghost  == <<writes, want, failed>>
vars   == <<opens, isOpen, state, index, saved, view, pos, fd, sound, local,
            attr, dest, pending, running, copy, writes, want, failed>>

Daemon == INSTANCE JobQueue WITH Jobs <- Paths

States == {"DEFAULT", "FALLBACK", "ACTIVE"}

TypeOK ==
  /\ opens \in [Procs -> 0..MaxOpens]
  /\ isOpen \in [Procs -> BOOLEAN]
  /\ state \in [Procs -> States]
  /\ index \in [Procs -> 0..MaxViews]
  /\ saved \in [Procs -> Views \cup {None}]
  /\ view \in [Procs -> Views]
  /\ pos \in [Procs -> Nat]
  /\ fd \in [Procs -> Paths \cup {Dest, None}]
  /\ sound \in [Procs -> BOOLEAN]
  /\ \A f \in Paths : local[f] = None \/ local[f] \in Seq(Values)
  /\ attr \in [Paths -> Views \cup {None}]
  /\ dest \in [Offsets -> Values]
  /\ pending \in Seq(Paths)
  /\ running \in [Workers -> Paths \cup {None}]
  /\ copy \in [Workers -> [view : Views, done : Nat] \cup {None}]
  /\ writes \in 0..MaxWrites
  /\ want \in [Offsets -> Values]
  /\ failed \subseteq Paths

Init ==
  /\ opens = [p \in Procs |-> 0]
  /\ isOpen = [p \in Procs |-> FALSE]
  /\ state = [p \in Procs |-> "DEFAULT"]
  /\ index = [p \in Procs |-> 0]
  /\ saved = [p \in Procs |-> None]
  /\ view = [p \in Procs |-> ByteView]
  /\ pos = [p \in Procs |-> 0]
  /\ fd = [p \in Procs |-> None]
  /\ sound = [p \in Procs |-> TRUE]
  /\ local = [f \in Paths |-> None]
  /\ attr = [f \in Paths |-> None]
  /\ dest = [o \in Offsets |-> Old]
  /\ Daemon!Empty
  /\ copy = [w \in Workers |-> None]
  /\ writes = 0
  /\ want = [o \in Offsets |-> Old]
  /\ failed = {}

-----------------------------------------------------------------------------
(* Faulty forms of definitions below, each with one plausible bug; the      *)
(* specification does not use them.                                        *)

\* The index is only set by the first view: its local file is reused.
SameIndex(p) == 1

\* The saved view is not written to the attributes.
NoAttributes(p) == attr' = attr

\* Nothing is flushed.
NeverFlush(p) == FALSE

\* set_atomicity does not look at the state.
AlwaysAtomic(p) == TRUE

\* The worker skips an etype between two buffers.
SkipOne(c) == c.done + 1 + (IF c.done > 0 THEN 1 ELSE 0)

\* The worker stops after the first buffer.
OneBuffer(w) == copy[w].done > 0
-----------------------------------------------------------------------------
(* What the rules refer to.                                                *)

Busy == ToSet(pending) \cup {running[w] : w \in Workers}

OwnPath(p, f) == f \in Paths /\ f[1] = RankOf[p]

\* No job of the process waits or runs.
Settled(p) == \A f \in Busy : ~OwnPath(p, f)

Obeys(rule, condition) == rule \in Rules => condition

DisjointFromJobs(p, v) ==
  /\ \A f \in Busy : OwnPath(p, f) => ToSet(attr[f]) \cap ToSet(v) = {}
  /\ state[p] = "ACTIVE" => ToSet(view[p]) \cap ToSet(v) = {}
-----------------------------------------------------------------------------
(* Opening, and flushing a view.                                           *)

Open(p) ==
  /\ ~isOpen[p]
  /\ opens[p] < MaxOpens
  /\ Obeys("reopen", Settled(p))
  /\ opens' = [opens EXCEPT ![p] = @ + 1]
  /\ isOpen' = [isOpen EXCEPT ![p] = TRUE]
  /\ fd' = [fd EXCEPT ![p] = Dest]
  /\ UNCHANGED <<state, index, saved, view, pos, sound, local, attr, dest,
                 queue, copy, ghost>>

\* The local file's name depends on the rank and the view index only.
LocalName(p) == <<RankOf[p], index[p]>>

NeedsFlush(p) == state[p] = "ACTIVE"

\* The saved view goes into the attributes of the local file, which must
\* exist, and the file's name to the daemon.
SetAttributes(p) == attr' = [attr EXCEPT ![LocalName(p)] = saved[p]]

Enqueue(p) ==
  /\ local[LocalName(p)] # None
  /\ SetAttributes(p)
  /\ Daemon!Put(LocalName(p))

Flush(p) == IF NeedsFlush(p) THEN Enqueue(p) ELSE UNCHANGED <<attr, queue>>

\* The flush fails, and with it the call it is part of; only the attributes
\* may have been written.
FlushFails(p) ==
  /\ isOpen[p]
  /\ NeedsFlush(p)
  /\ "flush" \in Faults
  /\ local[LocalName(p)] # None
  /\ SetAttributes(p)
  /\ UNCHANGED <<handle, local, dest, queue, copy, ghost>>
-----------------------------------------------------------------------------
(* set_view.                                                               *)

\* mca_common_ompio_set_view sets the view and rewinds the file pointer, or
\* fails, and the call with it.
OmpioSetView(p, v) ==
  \/ /\ view' = [view EXCEPT ![p] = v]
     /\ pos' = [pos EXCEPT ![p] = 0]
     /\ sound' = [sound EXCEPT ![p] = TRUE]
  \/ /\ "ompio" \in Faults
     /\ sound' = [sound EXCEPT ![p] = FALSE]
     /\ UNCHANGED <<view, pos>>

\* What the descriptor of an ACTIVE handle may be reopened on: nobody looks
\* whether open() of the destination succeeds.
Reopened == {Dest} \cup (IF "dest" \in Faults THEN {None} ELSE {})

\* The default view: an ACTIVE handle flushes and returns to the destination.
SetDefaultView(p) ==
  /\ isOpen[p]
  /\ Flush(p)
  /\ saved' = [saved EXCEPT ![p] = IF NeedsFlush(p) THEN None ELSE @]
  /\ IF NeedsFlush(p) THEN \E d \in Reopened : fd' = [fd EXCEPT ![p] = d]
                      ELSE UNCHANGED fd
  /\ state' = [state EXCEPT ![p] = IF @ = "FALLBACK" THEN @ ELSE "DEFAULT"]
  /\ OmpioSetView(p, ByteView)
  /\ UNCHANGED <<opens, isOpen, index, local, dest, copy, ghost>>

\* A handle in FALLBACK leaves the view to ompio.
SetViewFallback(p, v) ==
  /\ isOpen[p]
  /\ state[p] = "FALLBACK"
  /\ OmpioSetView(p, v)
  /\ UNCHANGED <<opens, isOpen, state, index, saved, fd, local, attr, dest,
                 queue, copy, ghost>>

NextIndex(p) == index[p] + 1

\* What set_view does before anything of the new view can fail: the old view
\* is flushed and the new one recorded.
BeginView(p, v) ==
  /\ isOpen[p]
  /\ state[p] # "FALLBACK"
  /\ NextIndex(p) <= MaxViews
  /\ Obeys("overlap", DisjointFromJobs(p, v))
  /\ Flush(p)
  /\ state' = [state EXCEPT ![p] = "ACTIVE"]
  /\ index' = [index EXCEPT ![p] = NextIndex(p)]
  /\ saved' = [saved EXCEPT ![p] = v]
  /\ UNCHANGED <<opens, isOpen, dest, copy, ghost>>

\* The local file of the new view is created or truncated.
SetView(p, v) ==
  /\ BeginView(p, v)
  /\ local' = [local EXCEPT ![<<RankOf[p], NextIndex(p)>>] = << >>]
  /\ fd' = [fd EXCEPT ![p] = <<RankOf[p], NextIndex(p)>>]
  /\ OmpioSetView(p, v)

\* The datatypes cannot be packed: the descriptor is still the old one.
PackFails(p, v) ==
  /\ "pack" \in Faults
  /\ BeginView(p, v)
  /\ sound' = [sound EXCEPT ![p] = FALSE]
  /\ UNCHANGED <<view, pos, fd, local>>

\* The local file cannot be opened, for instance with O_DIRECT: a file that
\* did not exist may have been created all the same.
LocalOpenFails(p, v) ==
  /\ "open" \in Faults
  /\ BeginView(p, v)
  /\ fd' = [fd EXCEPT ![p] = None]
  /\ sound' = [sound EXCEPT ![p] = FALSE]
  /\ LET f == <<RankOf[p], NextIndex(p)>>
     IN \/ UNCHANGED local
        \/ local[f] = None /\ local' = [local EXCEPT ![f] = << >>]
  /\ UNCHANGED <<view, pos>>

MayFallBack(p) == state[p] # "ACTIVE"

\* set_atomicity(1): the handle never buffers again.
SetAtomicity(p) ==
  /\ isOpen[p]
  /\ MayFallBack(p)
  /\ state' = [state EXCEPT ![p] = "FALLBACK"]
  /\ UNCHANGED <<opens, isOpen, index, saved, view, pos, fd, sound, local, attr,
                 dest, queue, copy, ghost>>
-----------------------------------------------------------------------------
(* Writing and closing.                                                    *)

\* Writing entry k of a file of etypes; a gap before it reads as a hole.
Put(s, k, x) == [i \in 1..(IF k > Len(s) THEN k ELSE Len(s)) |->
                   IF i = k THEN x ELSE IF i <= Len(s) THEN s[i] ELSE Hole]

\* One etype of a write gets into the file.  An application stops writing
\* through a handle whose set_view failed, until a set_view succeeds; through
\* a closed descriptor nothing can be written.
\* A write that fails is the steps of the etypes it wrote all the same.
WriteEntry(p, k) ==
  /\ isOpen[p] /\ sound[p]
  /\ fd[p] # None
  /\ k \in 1..Len(view[p])
  /\ view[p][k] \in Owns[p]
  /\ writes < MaxWrites
  /\ writes' = writes + 1
  /\ want' = [want EXCEPT ![view[p][k]] = writes']
  /\ IF fd[p] = Dest
     THEN /\ Obeys("direct", Settled(p))
          /\ dest' = [dest EXCEPT ![view[p][k]] = writes']
          /\ UNCHANGED local
     ELSE /\ local' = [local EXCEPT ![fd[p]] = Put(@, k, writes')]
          /\ UNCHANGED dest
  /\ UNCHANGED <<opens, isOpen, state, index, saved, view, fd, sound, attr, queue,
                 copy, failed>>

\* write: at the individual file pointer, which it advances.
Write(p) == /\ WriteEntry(p, pos[p] + 1)
            /\ pos' = [pos EXCEPT ![p] = @ + 1]

\* write_at: at an explicit offset, the pointer stays.
WriteAt(p, k) ==
  /\ Obeys("gaps", fd[p] \in Paths => k <= Len(local[fd[p]]) + 1)
  /\ WriteEntry(p, k)
  /\ UNCHANGED pos

\* close flushes, closes the descriptor and frees the handle's data.
Close(p) ==
  /\ isOpen[p]
  /\ Flush(p)
  /\ isOpen' = [isOpen EXCEPT ![p] = FALSE]
  /\ state' = [state EXCEPT ![p] = "DEFAULT"]
  /\ index' = [index EXCEPT ![p] = 0]
  /\ saved' = [saved EXCEPT ![p] = None]
  /\ view' = [view EXCEPT ![p] = ByteView]
  /\ pos' = [pos EXCEPT ![p] = 0]
  /\ fd' = [fd EXCEPT ![p] = None]
  /\ sound' = [sound EXCEPT ![p] = TRUE]
  /\ UNCHANGED <<opens, local, dest, copy, ghost>>
-----------------------------------------------------------------------------
(* The workers: execute() of bbviewd.c.                                    *)

TakeJob(w) ==
  /\ Daemon!Take(w)
  /\ UNCHANGED <<handle, local, attr, dest, copy, ghost>>

\* The local file is opened and the view read from its attributes.
OpenJob(w) ==
  /\ running[w] # None
  /\ copy[w] = None
  /\ copy' = [copy EXCEPT ![w] = [view |-> attr[running[w]], done |-> 0]]
  /\ UNCHANGED <<handle, local, attr, dest, queue, ghost>>

AtEnd(w) == copy[w].done >= Len(local[running[w]])

FirstOf(c) == c.done + 1

LastOf(w) == IF copy[w].done + Chunk < Len(local[running[w]])
             THEN copy[w].done + Chunk ELSE Len(local[running[w]])

\* A buffer is read and written through the view; holes are data like any.
CopyChunk(w) ==
  /\ copy[w] # None
  /\ ~AtEnd(w)
  /\ LET c == copy[w]
         chunk == (FirstOf(c)..LastOf(w)) \cap (1..Len(c.view))
     IN dest' = [o \in Offsets |->
                   IF \E i \in chunk : c.view[i] = o
                   THEN local[running[w]][CHOOSE i \in chunk : c.view[i] = o]
                   ELSE dest[o]]
  /\ copy' = [copy EXCEPT ![w].done = LastOf(w)]
  /\ UNCHANGED <<handle, local, attr, queue, ghost>>

\* End of file: the job is over.
EndJob(w) ==
  /\ copy[w] # None
  /\ AtEnd(w)
  /\ Daemon!Finish(w)
  /\ copy' = [copy EXCEPT ![w] = None]
  /\ UNCHANGED <<handle, local, attr, dest, ghost>>

\* A job fails somewhere: nobody is told, what it has not copied stays in the
\* local file and is not copied again.
JobFails(w) ==
  /\ "job" \in Faults
  /\ running[w] # None
  /\ Daemon!Finish(w)
  /\ copy' = [copy EXCEPT ![w] = None]
  /\ failed' = failed \cup {running[w]}
  /\ UNCHANGED <<handle, local, attr, dest, writes, want>>
-----------------------------------------------------------------------------
Process(p) ==
  \/ Open(p) \/ FlushFails(p) \/ SetDefaultView(p) \/ SetAtomicity(p)
  \/ \E v \in ViewsOf[p] : \/ SetView(p, v) \/ SetViewFallback(p, v)
                          \/ PackFails(p, v) \/ LocalOpenFails(p, v)
  \/ Write(p)
  \/ \E k \in Offsets : WriteAt(p, k)
  \/ Close(p)

Worker(w) == OpenJob(w) \/ CopyChunk(w) \/ EndJob(w)

Next == \/ \E p \in Procs : Process(p)
        \/ \E w \in Workers : TakeJob(w) \/ Worker(w) \/ JobFails(w)

\* The daemon's threads run; nothing obliges the application to act.
Fairness == /\ WF_vars(\E w \in Workers : TakeJob(w))
            /\ \A w \in Workers : WF_vars(Worker(w))

SafeSpec == Init /\ [][Next]_vars
Spec == SafeSpec /\ Fairness
-----------------------------------------------------------------------------
(* Correctness.                                                            *)

\* While a handle is buffering, its descriptor is the local file that the
\* next flush will name; otherwise it is the destination, or closed when that
\* could not be opened again, never the local file of a view that was given up
\* (set_view and set_atomicity).
FdMatchesState ==
  \A p \in Procs : isOpen[p] =>
    /\ state[p] = "ACTIVE" /\ sound[p] => fd[p] = LocalName(p)
    /\ state[p] # "ACTIVE" => fd[p] \in Reopened

\* The value x for offset o is in s, at entry "from" or later, under view v.
Holds(s, v, from, o, x) ==
  v # None /\ \E i \in from..Len(s) : i <= Len(v) /\ v[i] = o /\ s[i] = x

Buffered(o, x) ==
  \E p \in Procs : /\ isOpen[p] /\ state[p] = "ACTIVE" /\ sound[p]
                   /\ Holds(local[fd[p]], view[p], 1, o, x)

Queued(o, x) == \E f \in ToSet(pending) : Holds(local[f], attr[f], 1, o, x)

BeingCopied(o, x) ==
  \E w \in Workers :
    /\ running[w] # None
    /\ IF copy[w] = None
       THEN Holds(local[running[w]], attr[running[w]], 1, o, x)
       ELSE Holds(local[running[w]], copy[w].view, copy[w].done + 1, o, x)

\* Left in the local file of a job that failed.
LeftBehind(o, x) == \E f \in failed : Holds(local[f], attr[f], 1, o, x)

\* The last value written for an offset (what it held before, when no write
\* to it was) is at the destination or on its way there, or in the file
\* that a failed job left: nothing that was written is lost and nothing that
\* was not written appears.
NoSilentLoss ==
  \A o \in Offsets : \/ dest[o] = want[o]
                     \/ Buffered(o, want[o])
                     \/ Queued(o, want[o])
                     \/ BeingCopied(o, want[o])
                     \/ LeftBehind(o, want[o])

\* Once no job of a process is waiting or running and it does not buffer, the
\* destination holds what it wrote (flush is asynchronous; a later direct
\* access relies on this).
SettledIsCurrent ==
  \A p \in Procs : Settled(p) /\ state[p] # "ACTIVE"
                   => \A o \in Owns[p] : dest[o] = want[o]

\* The local file of a job is not touched before the job is over: neither
\* truncated by the O_TRUNC of a later view nor written through a descriptor
\* that should have been closed.
JobsUntouched == [][\A f \in Busy \ {None} : local'[f] = local[f]]_vars

\* When a process closed the file for good, what it wrote gets to the
\* destination and stays there (close flushes, and the daemon drains), or
\* stays in the file that a failed job left.
ClosedIsDurable ==
  \A p \in Procs : <>[](~isOpen[p]) =>
    <>[](\A o \in Owns[p] : dest[o] = want[o] \/ LeftBehind(o, want[o]))
=============================================================================
