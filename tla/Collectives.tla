---------------------------- MODULE Collectives ----------------------------
(***************************************************************************)
(* The calls of io_bbview_file_open.c in which the processes of a          *)
(* communicator meet: preallocate, set_size, set_atomicity and sync.  Each *)
(* is a sequence of broadcasts from the root, barriers and file operations *)
(* with early returns that depend on the process.                          *)
(*                                                                         *)
(* A broadcast makes nobody wait but the receivers; the n-th collective of *)
(* a process on a communicator meets the n-th of every other one, whatever *)
(* call it is part of.                                                     *)
(*                                                                         *)
(* Broadcasts and barriers succeed.                                        *)
(***************************************************************************)
EXTENDS Integers, Sequences

CONSTANTS Ranks, Root,
          Ops,          \* the calls the application makes
          MaxSize,      \* bound of the model: sizes asked for
          MaxCalls,     \* bound of the model: calls of a process
          StartStates,  \* bbview_state_t of the handles
          StartSizes,   \* sizes of the destination
          Dest,         \* the destination, as a file; a rank stands for its local file
          Buf,          \* OMPIO_PREALLOC_MAX_BUF_SIZE
          Rules,        \* what the application abstains from, see RuleKinds
          Faults        \* failures the environment may inject, see FaultKinds

\* "alike"   the processes pass the same argument, all have pending requests or
\*           none, and fs_file_get_size in preallocate and fs_file_set_size in
\*           set_size fail for all of them or none
\* "apart"   no process begins a call before the others ended the previous one
RuleKinds == {"alike", "apart"}

\* "stat"     fs_file_get_size fails
\* "io"       reading or writing in preallocate fails, or it has no memory
\* "pending"  processes have pending requests when they call sync, or opened the
\*            file to read only
\* "resize"   fs_file_set_size fails
\* "check"    fbtl_check_atomicity fails, on any process
\* "sync"     fs_file_sync fails, on any process
FaultKinds == {"stat", "io", "pending", "resize", "check", "sync"}

OpKinds == {"preallocate", "set_size", "set_atomicity", "sync"}
Sizes   == 0..MaxSize
Junk    == -1   \* what an uninitialised buffer holds

ASSUME CollectivesAssumption ==
  /\ Root \in Ranks /\ Dest \notin Ranks
  /\ Ops \subseteq OpKinds
  /\ MaxSize \in Nat \ {0} /\ MaxCalls \in Nat /\ Buf \in Nat \ {0}
  /\ StartStates \subseteq {"DEFAULT", "FALLBACK", "ACTIVE"}
  /\ StartSizes \subseteq Nat
  /\ Rules \subseteq RuleKinds /\ Faults \subseteq FaultKinds

VARIABLES
  script,  \* the calls of the application, the same on every process, each with
           \* its argument and the processes to which it does not give the size
  calls,   \* how many of them a process made
  pc,      \* where a process is in its call
  arg,     \* its argument (diskspace, size, flag; for sync, see there)
  state,   \* bbview_state_t of its handle
  size,    \* current_size
  ret,     \* ret
  met,     \* the collectives it took part in, for each communicator
  results, \* what its calls returned
  data,    \* the contents of the files
  pos,     \* the root's file pointer
  prev,    \* prev_offset
  written, \* written
  outgrown \* history: preallocate made a file longer than it was asked for

vars == <<script, calls, pc, arg, state, size, ret, met, results, data, pos,
          prev, written, outgrown>>

Comms  == {"ompio", "file"}   \* ompio_fh.f_comm and fh->f_comm
Places == {"idle", "bcast", "size", "copy", "result", "resize", "atomicity",
           "barrier", "sync"}

\* A result goes over the one, an argument over the other.
Meetings(c) == [call : 1..MaxCalls, value : IF c = "file" THEN BOOLEAN ELSE Sizes]

Entries == Ops \X Sizes \X SUBSET Ranks

TypeOK ==
  /\ script \in Seq(Entries)
  /\ calls \in [Ranks -> 0..MaxCalls]
  /\ pc \in [Ranks -> Places]
  /\ arg \in [Ranks -> Sizes]
  /\ state \in [Ranks -> {"DEFAULT", "FALLBACK", "ACTIVE"}]
  /\ size \in [Ranks -> Nat]
  /\ ret \in [Ranks -> BOOLEAN]
  /\ \A r \in Ranks : \A c \in Comms : met[r][c] \in Seq(Meetings(c))
  /\ results \in [Ranks -> Seq(BOOLEAN)]
  /\ data \in [Ranks \cup {Dest} -> Seq(Int)]
  /\ pos \in Nat /\ prev \in Nat /\ written \in Nat
  /\ outgrown \in BOOLEAN

Init ==
  /\ script = << >>
  /\ calls = [r \in Ranks |-> 0]
  /\ pc = [r \in Ranks |-> "idle"]
  /\ arg = [r \in Ranks |-> 0]
  /\ state \in [Ranks -> StartStates]
  /\ size = [r \in Ranks |-> 0]
  /\ ret = [r \in Ranks |-> TRUE]
  /\ met = [r \in Ranks |-> [c \in Comms |-> << >>]]
  /\ results = [r \in Ranks |-> << >>]
  /\ \E n \in StartSizes :
       data = [f \in Ranks \cup {Dest} |-> IF f = Dest THEN [i \in 1..n |-> i] ELSE << >>]
  /\ pos = 0 /\ prev = 0 /\ written = 0
  /\ outgrown = FALSE
-----------------------------------------------------------------------------
(* Faulty forms of definitions below, each with one plausible bug.         *)

\* A process leaves preallocate when the file has the size asked for.
LargeEnough(r) == Len(data[IF state[r] = "ACTIVE" THEN r ELSE Dest]) >= arg[r]

\* preallocate returns the process's own result.
OwnResult(r) == ret[r]

\* The root gives up without telling the others.
GiveUp == "resize"

\* The file pointer is left where the copy ended.
LeftBehind == pos

\* A file is never made smaller.
GrowOnly(r) ==
  data' = [data EXCEPT ![IF state[r] = "ACTIVE" THEN r ELSE Dest] =
             [i \in 1..(IF arg[r] > Len(@) THEN arg[r] ELSE Len(@)) |->
                IF i <= Len(@) THEN @[i] ELSE 0]]

\* sync does not wait for the others.
NoBarrier == "sync"

\* Atomicity is a state of its own.
AtomicState(r, atomic) == IF arg[r] = 1 THEN "ATOMIC" ELSE state[r]

\* The handle falls back only when the file system can be atomic.
FallbackIfAtomic(r, atomic) == IF arg[r] = 1 /\ atomic THEN "FALLBACK" ELSE state[r]
-----------------------------------------------------------------------------
Goto(r, place) == pc' = [pc EXCEPT ![r] = place]

Return(r, success) == /\ Goto(r, "idle")
                      /\ results' = [results EXCEPT ![r] = Append(@, success)]

Op(r) == script[calls[r]][1]

\* The process does not learn the size of the file in this call.
SizeRefused(r) == r \in script[calls[r]][3]

\* What the process's descriptor is open on.
File(r) == IF state[r] = "ACTIVE" THEN r ELSE Dest

Resized(s, n) == [i \in 1..n |-> IF i <= Len(s) THEN s[i] ELSE 0]

LeastOf(m, n) == IF m < n THEN m ELSE n

\* The process takes part in the next collective of a communicator.
Meet(r, c, v) == met' = [met EXCEPT ![r][c] = Append(@, [call |-> calls[r], value |-> v])]

\* Broadcast: the root gives its value, the others wait for it.
CanBcast(r, c) == r # Root => Len(met[Root][c]) > Len(met[r][c])

Bcast(r, c, v) == IF r = Root THEN v ELSE met[Root][c][Len(met[r][c]) + 1].value

\* Barrier: everybody came.
AllCame(r, c) == \A q \in Ranks : Len(met[q][c]) >= Len(met[r][c])
-----------------------------------------------------------------------------
(* The calls up to their first collective.                                 *)

Quiet == \A r \in Ranks : pc[r] = "idle" /\ calls[r] = Len(script)

\* To which processes fs_file_get_size will not give the size.
Refusals(op) ==
  IF op = "preallocate" /\ "stat" \in Faults
  THEN IF "alike" \in Rules THEN {{}, Ranks} ELSE SUBSET Ranks
  ELSE {{}}

\* The first process to make a call decides which one it is.
Begins(r, op, n) ==
  /\ pc[r] = "idle"
  /\ calls[r] < MaxCalls
  /\ calls' = [calls EXCEPT ![r] = @ + 1]
  /\ arg' = [arg EXCEPT ![r] = n]
  /\ ret' = [ret EXCEPT ![r] = TRUE]
  /\ IF calls[r] < Len(script)
     THEN /\ script[calls[r] + 1][1] = op
          /\ "alike" \in Rules => script[calls[r] + 1][2] = n
          /\ UNCHANGED script
     ELSE /\ "apart" \in Rules => Quiet
          /\ \E lost \in Refusals(op) : script' = Append(script, <<op, n, lost>>)
  /\ UNCHANGED <<state, size, data, pos, prev, written, outgrown>>

Preallocate(r, n) ==
  /\ Begins(r, "preallocate", n)
  /\ Goto(r, "bcast")
  /\ UNCHANGED <<met, results>>

SetSize(r, n) ==
  /\ Begins(r, "set_size", n)
  /\ Goto(r, "bcast")
  /\ UNCHANGED <<met, results>>

\* An ACTIVE handle refuses before it meets the others.
SetAtomicity(r, flag) ==
  /\ Begins(r, "set_atomicity", flag)
  /\ IF state[r] = "ACTIVE" THEN Return(r, FALSE)
     ELSE Goto(r, "bcast") /\ UNCHANGED results
  /\ UNCHANGED met

SyncStart == "barrier"

\* The argument of sync is whether the process has to refuse, for its pending
\* requests or a file it may not write: it does so before it meets the others.
Sync(r, waiting) ==
  /\ waiting = 1 => "pending" \in Faults
  /\ Begins(r, "sync", waiting)
  /\ IF waiting = 1 THEN Return(r, FALSE) /\ UNCHANGED met
     ELSE /\ Goto(r, SyncStart)
          /\ met' = [met EXCEPT ![r]["ompio"] = Append(@, [call |-> calls'[r], value |-> 0])]
          /\ UNCHANGED results

\* The root's argument is everybody's, or the call fails where it is not.
Agree(r) ==
  /\ pc[r] = "bcast"
  /\ CanBcast(r, "ompio")
  /\ Meet(r, "ompio", Bcast(r, "ompio", arg[r]))
  /\ IF Bcast(r, "ompio", arg[r]) # arg[r] THEN Return(r, FALSE)
     ELSE /\ UNCHANGED results
          /\ Goto(r, CASE Op(r) = "preallocate" -> "size"
                       [] Op(r) = "set_size" -> "resize"
                       [] Op(r) = "set_atomicity" -> "atomicity")
  /\ UNCHANGED <<script, calls, arg, state, size, ret, data, pos, prev, written, outgrown>>
-----------------------------------------------------------------------------
(* preallocate.                                                            *)

TooLarge(r) == Len(data[File(r)]) > arg[r]

\* Each process asks for the size itself and leaves when it is larger.
GetSize(r) ==
  /\ pc[r] = "size"
  /\ ~SizeRefused(r)
  /\ size' = [size EXCEPT ![r] = Len(data[File(r)])]
  /\ IF TooLarge(r) THEN Return(r, TRUE)
     ELSE Goto(r, IF r = Root THEN "copy" ELSE "result") /\ UNCHANGED results
  /\ IF r = Root /\ ~TooLarge(r) THEN prev' = pos /\ written' = 0
     ELSE UNCHANGED <<prev, written>>
  /\ UNCHANGED <<script, calls, arg, state, ret, met, data, pos, outgrown>>

\* It leaves when it does not get it, the root like the others.
GetSizeFails(r) ==
  /\ pc[r] = "size"
  /\ SizeRefused(r)
  /\ Return(r, FALSE)
  /\ UNCHANGED <<script, calls, arg, state, size, ret, met, data, pos, prev, written, outgrown>>

Length(r) == IF written < size[r] THEN LeastOf(Buf, size[r] - written)
             ELSE LeastOf(Buf, arg[r] - written)

\* Writing buf at offset p of a file s.
Overwrite(s, p, buf) ==
  [i \in 1..(IF p + Len(buf) > Len(s) THEN p + Len(buf) ELSE Len(s)) |->
     IF i \in p + 1..p + Len(buf) THEN buf[i - p]
     ELSE IF i <= Len(s) THEN s[i] ELSE 0]

Outgrown(r) == outgrown \/ Len(data'[File(r)]) > arg[r]

\* What the read at the file pointer puts in the buffer.
Chunk(r) == LET s == data[File(r)]
            IN [i \in 1..Length(r) |-> IF pos + i <= Len(s) THEN s[pos + i] ELSE Junk]

Zeros(r) == [i \in 1..Length(r) |-> 0]

\* The file is read and written back at the file pointer, which the read has
\* moved already.
CopyBack(r) ==
  /\ pc[r] = "copy"
  /\ written < size[r]
  /\ data' = [data EXCEPT ![File(r)] = Overwrite(@, pos + Length(r), Chunk(r))]
  /\ pos' = pos + 2 * Length(r)
  /\ written' = written + Length(r)
  /\ outgrown' = Outgrown(r)
  /\ UNCHANGED <<script, calls, pc, arg, state, size, ret, met, results, prev>>

\* What is missing is written as zeros.
Extend(r) ==
  /\ pc[r] = "copy"
  /\ size[r] <= written /\ written < arg[r]
  /\ data' = [data EXCEPT ![File(r)] = Overwrite(@, pos, Zeros(r))]
  /\ pos' = pos + Length(r)
  /\ written' = written + Length(r)
  /\ outgrown' = Outgrown(r)
  /\ UNCHANGED <<script, calls, pc, arg, state, size, ret, met, results, prev>>

Restored == prev

\* The pointer goes back to where it was.
Restore(r) ==
  /\ pc[r] = "copy"
  /\ written >= arg[r]
  /\ pos' = Restored
  /\ Goto(r, "result")
  /\ UNCHANGED <<script, calls, arg, state, size, ret, met, results, data, prev,
                 written, outgrown>>

AfterFailure == "result"

\* The root gives up the copy, but not the broadcast of its result.
Fails(r) ==
  /\ "io" \in Faults
  /\ pc[r] = "copy"
  /\ ret' = [ret EXCEPT ![r] = FALSE]
  /\ Goto(r, AfterFailure)
  /\ UNCHANGED <<script, calls, arg, state, size, met, results, prev, written>>

\* It gets no buffer.
NoBuffer(r) ==
  /\ Fails(r)
  /\ written = 0
  /\ UNCHANGED <<data, pos, outgrown>>

\* A read fails that moved the file pointer over a part of the buffer.
ReadFails(r) ==
  /\ Fails(r)
  /\ written < size[r]
  /\ \E n \in 0..Length(r) : pos' = pos + n
  /\ UNCHANGED <<data, outgrown>>

\* A write fails that wrote a part of the buffer and moved the file pointer over
\* at least that; in the copy the read has moved it before.
WriteFails(r) ==
  /\ Fails(r)
  /\ written < arg[r]
  /\ LET start == IF written < size[r] THEN pos + Length(r) ELSE pos
         buf   == IF written < size[r] THEN Chunk(r) ELSE Zeros(r)
     IN \E n \in 0..Length(r) :
          /\ pos' = start + n
          /\ \/ UNCHANGED data
             \/ \E k \in 1..n :
                  data' = [data EXCEPT ![File(r)] = Overwrite(@, start, SubSeq(buf, 1, k))]
  /\ outgrown' = Outgrown(r)

Shared(r) == Bcast(r, "file", ret[r])

\* The root's result is everybody's; it goes over the other communicator.
ShareResult(r) ==
  /\ pc[r] = "result"
  /\ CanBcast(r, "file")
  /\ Meet(r, "file", Shared(r))
  /\ ret' = [ret EXCEPT ![r] = Shared(r)]
  /\ Goto(r, "resize")
  /\ UNCHANGED <<script, calls, arg, state, size, results, data, pos, prev, written, outgrown>>
-----------------------------------------------------------------------------
(* The calls after they met.                                               *)

Resize(r) == data' = [data EXCEPT ![File(r)] = Resized(@, arg[r])]

\* preallocate: the size is set where the file was found too small; whether that
\* succeeds is not looked at.
EndPreallocate(r) ==
  /\ pc[r] = "resize"
  /\ Op(r) = "preallocate"
  /\ \/ arg[r] > size[r] /\ Resize(r)
     \/ (arg[r] <= size[r] \/ "resize" \in Faults) /\ UNCHANGED data
  /\ Return(r, ret[r])
  /\ UNCHANGED <<script, calls, arg, state, size, ret, met, pos, prev, written, outgrown>>

\* How call k went at the process, once it set the size.
Failed(r, k)    == k \in DOMAIN results[r] /\ ~results[r][k]
Succeeded(r, k) == \/ k \in DOMAIN results[r] /\ results[r][k]
                   \/ k = calls[r] /\ pc[r] = "barrier"

\* set_size: every process sets the size, then waits for the others.
ResizeFile(r) ==
  /\ pc[r] = "resize"
  /\ Op(r) = "set_size"
  /\ "alike" \in Rules => \A q \in Ranks : ~Failed(q, calls[r])
  /\ Resize(r)
  /\ Meet(r, "ompio", 0)
  /\ Goto(r, "barrier")
  /\ UNCHANGED <<script, calls, arg, state, size, ret, results, pos, prev, written, outgrown>>

\* It cannot, and does not wait.
ResizeFails(r) ==
  /\ pc[r] = "resize"
  /\ Op(r) = "set_size"
  /\ "resize" \in Faults
  /\ "alike" \in Rules => \A q \in Ranks : ~Succeeded(q, calls[r])
  /\ Return(r, FALSE)
  /\ UNCHANGED <<script, calls, arg, state, size, ret, met, data, pos, prev, written, outgrown>>

Fallback(r, atomic) == IF arg[r] = 1 THEN "FALLBACK" ELSE state[r]

\* Setting atomicity, the file system is asked whether it can; the handle falls
\* back in any case.
EndAtomicity(r) ==
  /\ pc[r] = "atomicity"
  /\ \E atomic \in BOOLEAN :
       /\ ~atomic => arg[r] = 1 /\ "check" \in Faults
       /\ state' = [state EXCEPT ![r] = Fallback(r, atomic)]
       /\ Return(r, atomic)
  /\ UNCHANGED <<script, calls, arg, size, ret, met, data, pos, prev, written, outgrown>>

LeaveBarrier(r) ==
  /\ pc[r] = "barrier"
  /\ AllCame(r, "ompio")
  /\ IF Op(r) = "sync" THEN Goto(r, "sync") /\ UNCHANGED results
     ELSE Return(r, TRUE)
  /\ UNCHANGED <<script, calls, arg, state, size, ret, met, data, pos, prev, written, outgrown>>

EndSync(r) ==
  /\ pc[r] = "sync"
  /\ \/ Return(r, TRUE)
     \/ "sync" \in Faults /\ Return(r, FALSE)
  /\ UNCHANGED <<script, calls, arg, state, size, ret, met, data, pos, prev, written, outgrown>>
-----------------------------------------------------------------------------
Call(r) == \/ /\ "preallocate" \in Ops
              /\ \E n \in Sizes : Preallocate(r, n)
           \/ /\ "set_size" \in Ops
              /\ \E n \in Sizes : SetSize(r, n)
           \/ /\ "set_atomicity" \in Ops
              /\ \E flag \in {0, 1} : SetAtomicity(r, flag)
           \/ /\ "sync" \in Ops
              /\ \E waiting \in {0, 1} : Sync(r, waiting)

Step(r) == \/ Agree(r) \/ GetSize(r) \/ GetSizeFails(r)
           \/ CopyBack(r) \/ Extend(r) \/ Restore(r)
           \/ NoBuffer(r) \/ ReadFails(r) \/ WriteFails(r)
           \/ ShareResult(r) \/ EndPreallocate(r)
           \/ ResizeFile(r) \/ ResizeFails(r) \/ EndAtomicity(r) \/ LeaveBarrier(r) \/ EndSync(r)

Next == \E r \in Ranks : Call(r) \/ Step(r)

\* Every process makes the calls of the program, and goes on with them.
Fairness == \A r \in Ranks : WF_vars(Step(r)) /\ WF_vars(calls[r] < Len(script) /\ Call(r))

SafeSpec == Init /\ [][Next]_vars
Spec == SafeSpec /\ Fairness
-----------------------------------------------------------------------------
(* Correctness.                                                            *)

\* What meets in a collective belongs to the same call on every process: no
\* early return lets a later call meet the rest of an earlier one.  When
\* preallocate itself makes the file longer than it was asked for (it copies data
\* back, or an earlier failure left the pointer astray), the processes that look
\* late leave early, here and below.
Matched ==
  ~outgrown => \A r, q \in Ranks : \A c \in Comms :
    \A i \in DOMAIN met[r][c] \cap DOMAIN met[q][c] :
      met[r][c][i].call = met[q][c][i].call

\* A call returns the same on every process, but for set_atomicity and sync,
\* whose last operation is each process's own.
SameResult ==
  ~outgrown => \A r, q \in Ranks : \A k \in DOMAIN results[r] \cap DOMAIN results[q] :
    script[k][1] \notin {"set_atomicity", "sync"} => results[r][k] = results[q][k]

\* Handles that start alike never differ between calls: no process buffers while
\* another one falls back, whatever its file system says.
SameState ==
  Quiet => \A r, q \in Ranks : state[r] = state[q]

LastOp == script[Len(script)]

\* After set_size the destination has the size asked for, and after
\* preallocate it has at least that size, also when it could not be set.
SizeIsSet ==
  Quiet /\ script # << >> /\ (\A r \in Ranks : results[r][Len(script)]) =>
    /\ LastOp[1] = "set_size" => Len(data[Dest]) = LastOp[2]
    /\ LastOp[1] = "preallocate" => Len(data[Dest]) >= LastOp[2]

\* No process syncs the file before every process called sync ("Make sure all
\* processes reach this point before syncing the file").
SyncAfterAll ==
  [][\A r \in Ranks : pc[r] # "sync" /\ pc'[r] = "sync"
                      => \A q \in Ranks : calls'[q] >= calls'[r]]_vars

\* Every call returns, on every process: nobody waits for a process that left
\* the call early.
AllReturn == \A r \in Ranks : (pc[r] # "idle") ~> (pc[r] = "idle")

\* What the file held, it holds: preallocate reads it and writes it back
\* ("read up to the current file size, write it back").
ContentKept ==
  [][\A i \in DOMAIN data[Dest] \cap DOMAIN data'[Dest] :
       data'[Dest][i] = data[Dest][i]]_vars

\* As long as every call succeeded at the root, its file pointer is where it was
\* at the start: preallocate moves it and brings it back ("This operation should
\* not affect file pointer position").
PointerKept ==
  (\A k \in DOMAIN results[Root] : results[Root][k]) /\ ret[Root] /\ pc[Root] # "copy"
    => pos = 0
=============================================================================
