# A TLA+ development of BBView

BBView is an Open MPI I/O component that buffers each MPI file view of a process
in a file on the compute node and lets a daemon of the node, `bbviewd`, replay it
into the destination file later. This directory models the program, checks the
models with TLC on small instances and proves the main results with TLAPS.

Reading order: `JobQueue`, `FlushQueue`, `Bbviewd`, `BBView`, `ViewStore`,
`DirectIO`, `LocalFile`, `Handle`, `Collectives`, `FileView`, then the
`...Proofs` modules.

## 1. The system

| Part | State | Operations | Who it talks to |
|---|---|---|---|
| Flush daemon (`bbviewd.c`) | linked list `q_head`/`q_tail`, `q_mtx`, `q_cv`, `active_workers`, `shutting_down`, the backlog of the socket | listener: accept, read, enqueue, terminate; worker: dequeue, run, leave; client: `bbviewd wait` | processes through a Unix socket; one connection per job |
| Job execution (`execute`) | a local file, the view in its extended attributes, the destination | open, read the view, copy buffer by buffer, close | ompio on the destination |
| View switching (`io_bbview_file_set_view.c`) | `state`, `view_index`, `saved_*`, descriptor | `set_view` (default view, fallback, buffered view), `get_view` | flushes the previous view |
| Flush request (`io_bbview_file_flush.c`) | extended attributes of the local file | write the view into them, send the path | the daemon |
| Open, close (`io_bbview_file_open.c`) | the handle | open, close (flushes) | ompio |
| Collective file management (same file) | size and contents of the file, file pointer | `preallocate`, `set_size`, `set_atomicity`, `sync` | the other processes, by broadcast and barrier |
| Reads, writes (`..._read.c`, `..._write.c`) | `f_lock`, file pointers | individual, explicit-offset, shared, collective | ompio |
| Split collectives (same files) | `f_split_coll_in_use`, `f_split_coll_req` | begin, end | ompio |
| Choice of `O_DIRECT` (`enable_directio`) | none | walk over the tree of a datatype | Open MPI's datatypes |
| Positions (`..._open.c`) | decoded view, cursor in it (`f_fview`) | `seek`, `get_position`, `get_byte_offset`, `get_eof_offset` | ompio |
| Segments of a transfer (`io_bbview.c`) | the same cursor | `generate_current_file_view`, which `file_query` hands to ompio and every transfer calls back | ompio |
| Registration (`io_bbview_component.c`, `io_bbview_module.c`) | MCA parameters, tables | query, register | Open MPI |

What is hard about it:

* concurrency: listener against workers, workers against each other, a job
  against the process that queued it, threads of one process on one handle;
* asynchrony: a flush returns when the request is written to a socket, so
  everything the process does next races with the job;
* failure: each call can fail half-way (an attribute, the connection, packing a
  datatype, opening a file, a copy), and the handle keeps what was done so far;
  a process can be killed, and leaves local files and attributes on the node;
* a cursor of four fields that a loop advances over blocks and copies of a view,
  and that seeks set from the outside;
* ordering: the calls of a collective must meet on all processes although each
  has early returns that depend on the process.

What makes each part correct:

* daemon: every queued job is run, in order; shutdown ends; the wait client is
  told the truth;
* views and jobs: what an application wrote is at the destination
  or on its way there; a job's file is not touched before the job is over;
* handle: no thread meets a descriptor that is being exchanged, no request is
  lost, reads do not return buffered bytes as if they were the file;
* the local file as a channel: a job is run with exactly the view that was flushed;
* positions: a transfer covers the next bytes of the view, each once, and what
  `get_position` and `get_byte_offset` say of the cursor is where they are;
* collectives: what meets belongs to the same call, and the call does what it says.

## 2. Modules

| Module | Models |
|---|---|
| `JobQueue` | the queue and who runs what: shared by the daemon's specification and by `BBView` |
| `FlushQueue` | abstract specification: what the daemon promises its clients |
| `Bbviewd` | the daemon's threads, list, mutex, condition variable, socket and shutdown |
| `BBView` | processes, views, local files, jobs, copies and the destination; the daemon is its `JobQueue` |
| `Handle` | the threads of a process on one handle: lock, descriptor, split collectives |
| `Collectives` | processes in `preallocate`, `set_size`, `set_atomicity`, `sync` |
| `ViewStore` | abstract specification: what a local file's attributes promise as a channel |
| `DirectIO` | `enable_directio`, with a reference definition of the pieces of a datatype |
| `LocalFile` | one name of a local file: attributes written by flushes, read by jobs |
| `FileView` | the cursor in a decoded view: `generate_current_file_view`, seek, positions |
| `BbviewdProofs`, `BBViewProofs`, `BBViewLossProofs`, `LocalFileProofs`, `FileViewProofs`, `HandleProofs`, `CollectivesProofs`, `MeetingProofs` | theorems |
| `MCBbviewd`, `MCBBView`, `MCLocalFile`, `MCFileView`, `MCHandle`, `MCCollectives` | instances for TLC |

`Bbviewd` implements `FlushQueue` (property `ImplementsFlushQueue`, theorem
`Implementation`), and `BBView` uses the same `JobQueue` in place of the threads.
The connections that wait for `accept` are not apart from the queue in `BBView`:
a first-in first-out backlog in front of a first-in first-out list is one
first-in first-out queue. `LocalFile` takes apart what `BBView` does in two steps,
the writing of the attributes in a flush and the reading in `OpenJob`, and shows
with `ViewStore` that the two steps may stand for the many.

### Bbviewd

A request is one connection, from a flush (`Jobs`) or a wait client (`Waits`).
`lpc` and `wpc[w]` are the control points of the main thread and of each worker.
A critical section under `q_mtx` is one step, with one exception that matters:
between finding the list empty (`FindEmpty`) and blocking (`Sleep`) a worker holds
`q_mtx` for a step of its own, because `shutting_down` and the broadcast do not
take the mutex. `Signal` wakes any waiter; `SpuriousWakeup` is always possible.
`accepted`, `started` and `outcome` are histories. A job's run is one step with
either outcome.

### BBView

A view is the sequence of destination offsets its data goes to, one per etype.
The etypes that are written are numbered and `want` is the last number written to
each offset, so a lost, stale or invented value is visible. A write that fails
half-way is the steps of the etypes it wrote. Each etype is written whole: a local
file never ends inside one, so the branch of `execute` that drops the rest of a
partial etype (`bbviewd.c:195-201`) is not taken. `set_view` is split
by outcome: `SetDefaultView`, `SetViewFallback`, `SetView`, `PackFails`,
`LocalOpenFails`; each contains the flush of the previous view. When the default view
returns to the destination nobody looks whether its `open()` succeeds: `Reopened` has
both outcomes, and `FdMatchesState` says that such a handle is on the destination or
on nothing, never on the file it gave up. The `set_view` of ompio, the last call of each
branch, may fail too (`OmpioSetView`): the state and the descriptor are then the new
ones, the view and the pointer ompio's old ones. `get_view` changes nothing and has no
action; what it reports is `saved`. `FlushFails` is a
call (`set_view` or `close`) whose flush fails. A worker reads the attributes
(`OpenJob`), copies `Chunk` etypes at a time (`CopyChunk`) and ends (`EndJob`), or
fails anywhere (`JobFails`): nobody is told, and nothing runs it again. `failed`
remembers its file, and the properties take what it holds for accounted
(`LeftBehind`); everything else must be unharmed by the failure.

The constant `Rules` names what an application abstains from. Each rule is needed:
TLC reports a violation of `NoSilentLoss` when the rule is taken out of a
configuration.

| Rule | Without it |
|---|---|
| `overlap`: no new view over offsets of a job in flight | with two flush threads an older view overwrites a newer one (run `BBView_twothreads`); one thread needs no such rule (`BBView_faults`) |
| `direct`: no write through the default view before the jobs ended | the job overwrites the direct write |
| `gaps`: a view is written without gaps | the gap is copied as zeros |
| `reopen`: no reopening before the jobs ended | the new handle counts views from 1 again and truncates the local file of a job |

One failure is not survived either: after reopening, a `set_view` whose local file
cannot be opened (`open` in `Faults`) leaves an ACTIVE handle whose next flush
replays the local file of the earlier handle. `BBView_faults` therefore opens the
file once, `BBView_flights` reopens it without that fault.

Two things are always assumed: no two processes write the same offset (that is a
race in the application), and a process does not write through a handle whose
`set_view` failed half-way until one succeeds (`sound`). Nothing can be written through a
closed descriptor.

### LocalFile and DirectIO

`Attach` is a `set_view` that creates or truncates the file, with the choice of
`O_DIRECT`; `O_TRUNC` leaves the attributes of an earlier use. `SetDest`, `SetDisp`,
`SetChunk`, `SetEtype`, `Send` are the steps of a flush, in the code's order; each
can fail (`FlushFails`), after which the flush is made again from the start. `Killed`
is the end of the process at any point. The worker reads in its own order. An
attribute's value is the view it was made from, so `Decode` can tell a description
put together from two views (`Garbled`). What follows a description is not read by
Open MPI's unpacking; this is why longer descriptions that an earlier view left
behind do no harm. Rule `reopen` is that of `BBView`. The worker gives a job up when
an attribute is missing (`GiveUp`); that one of its own operations fails (opening the
local file, reading an attribute that is there, unpacking it) is `JobFails` of `BBView`,
and so are the failures of `set_view` those of `BBView`.

`DirectIO` has datatypes as records that mirror MPI's constructors; `Arguments` is what
MPI accepts, `Depth` that a datatype is made from ones that exist. `Enable` is the
code's recursion (`EnableBy` its body, given the results for the components), `Pieces`
the reference: the lengths of the contiguous pieces.
A predefined type has `parts`, the lengths of its pieces: its size, unless it is a pair
like `MPI_DOUBLE_INT`, which has a gap (`GapFree`). `Covered` leaves out three cases in
which the code decides wrongly: block-distributed arrays that are not dealt out evenly,
constructors its `switch` does not name (control falls through to `enable`), and pair
types, of which it looks at the size only, so that many in a row count as one piece
of whole pages. TLC finds `DirectOnlyAligned` violated when any of the three exemptions
is taken out. Products of sizes are computed in `int` in the
code; as the page size divides 2^32, a wrapped product is a multiple of it exactly
when the true one is, and it reaches the threshold only if the true one does. So the
code never chooses `O_DIRECT` where `Enable` does not.

### FileView

One round of the loop is one step: the segment is made in the current block
(`InBlock`), the next (`NextBlock`) or the first of the next copy (`NextCopy`).
Indices start at 1. `Place` is the number, within the bytes of the view, of the next
byte; `NumberOf`, `OffsetOf` and `IsAt` say where each byte is. Memory for the
segments never runs out. ompio's part (`set_explicit_offset`, `get_position`, the
decoding of a view) is external: `SetPlace` and `GetPosition`. For a file that ends before
the view `get_eof_offset` reads a length in front of `f_decoded_iov[0]`, but whatever it
reads, the walk it bounds makes no step and the offset is 0. Views of no bytes and
negative offsets, which `get_byte_offset` treats apart, are left out.

### Handle

What a call does before it takes `f_lock`, under it, and after it are separate
steps. The exchange of the descriptor in `set_view` is two steps under the lock,
so that the lock has something to protect. That no return keeps the lock is part of
`TypeOK` (`Locked`: between two steps it belongs to a thread in the middle of the exchange,
or to nobody), and is also checked as absence of deadlock. A call through a shared file
pointer that the file does not have is refused before the lock (`NoSharedPointer`). Rule `collective` is MPI's: one collective call
at a time on a handle. Rule `still`: no thread reads while another sets the view;
the state check of reads is outside the lock and does not survive such a race.
`close` is left out (the source calls closing from several threads a user error).

### Collectives

`script` is the program all processes run; its calls are chosen as the first
process reaches them. The n-th collective of a process on a communicator meets
the n-th of every other one; `met` records for which call each took part. A
broadcast blocks only receivers, a barrier everybody. `preallocate` shares its
result over another communicator (`fh->f_comm`) than the check of its argument.
Rule `alike`: the processes pass the same argument, all have pending requests
or none, and the file system tells and sets the size for all of them or for none. An
entry of `script` has the processes that will not be told the size in that call
(`Refusals`). `apart`: the program synchronises between calls. `outgrown` is a history: a `preallocate` made
the file longer than it was asked for, by its copy loop or because a failure had left
the pointer astray. Processes that look at the size afterwards leave early, so
`Matched` and `SameResult` speak of histories without it. The root's copy fails for want of
a buffer, in a read or in a write (`NoBuffer`, `ReadFails`, `WriteFails`), each after a part
of it; in the copy loop a failing write finds the pointer moved by the read already.
The last operation of `set_atomicity` and of `sync` is each process's own and its result
is not shared, so one process may return a failure and another not: `SameResult` exempts
the two calls.

`Matched` needs both rules and handles that are not ACTIVE. Taking one out
shows an early return that shifts later collectives: pending requests of one
process (`sync` leaves before its barrier), an ACTIVE handle of one process
(`set_atomicity` leaves before its broadcast), a size that one process cannot set
(`set_size` leaves before its barrier), a size that one process is not told
(`preallocate` leaves before its second broadcast, lines 140-143; if it is the root that
leaves, the others wait and `AllReturn` fails), or a root that runs ahead into the next
`preallocate` (a slow process sees the larger size and leaves the first one). On
ACTIVE handles `SizeIsSet` fails too: the local file is resized.

## 3. Runs

Bounds are the smallest that let the interesting case happen; the violation runs
use smaller ones still, as a counterexample needs no more.

| Run | Shows | Bounds |
|---|---|---|
| `Bbviewd_threads` | list, order, wakeups, count, exit and answer are right; acknowledged and queued jobs are run, shutdown without the race ends, the daemon implements `FlushQueue` with its fairness | 2 workers, 2 jobs, 1 wait client, backlog 2, all failures. Two workers compete for a job, the backlog makes a client wait. A list with a middle needs a third job; the theorems cover it |
| `Bbviewd_shutdown` | finding: the broadcast can be lost | 1 worker, 1 job |
| `BBView_faults` | nothing is lost, no job's file is touched and what was written gets to the destination after the last close, with every failure of `FaultKinds` | 1 process, 1 open, views `<1,2>` and `<2,3>` that share an offset, 3 views, 2 writes (one to stay in an old view, one in a newer one; three with two flush threads in the next run), 1 flush thread, buffer of 1 etype, fairness |
| `BBView_flights` | two flush threads are right for views that do not overlap while in flight; the file is reopened after its jobs; a second process writes beside; the destination may fail to reopen | 2 flush threads, 3 writes, 2 processes, disjoint views of 2 and 1 etypes, buffer of 1 etype, 2 opens |
| `BBView_twothreads` | finding: see the table of rules | 2 flush threads, 2 views that share an offset, 2 writes |
| `LocalFile_views` | a job is run with exactly the view that was flushed; `O_DIRECT` only for whole pages | with the exemptions of `Covered`; 3 views of 1 to 3 chunks, so that a shorter one follows a longer one and the other way round; room for 3; 2 handles; pages of 2 bytes, threshold 4; every constructor, up to three levels deep |
| `FileView_moves` | segments, cursor, positions | 5 views: contiguous, an etype of 2 bytes, gaps before, between and after blocks of different lengths, copies that touch; transfers up to 8 bytes, so over more than a copy; up to byte 14 |
| `FileView_eof` | finding: a seek to the end lands in a gap | the same views, 9 file sizes |
| `Handle_calls` | no torn descriptor, no lost request, reads see the destination, no return keeps the lock | 2 threads, 2 requests, every failure of `FaultKinds` |
| `Handle_flag` | finding: a failed begin leaves the flag set | `issue` failures |
| `Collectives_calls` | under the rules: collectives match, `preallocate` and `set_size` return the same, sizes are right, the pointer is restored, handles keep one state, nobody syncs early, every call returns | 3 processes, programs of 2 calls, sizes 0..2, destination of size 0 or 2, buffer 1, every failure of `FaultKinds`, fairness |
| `Collectives_preallocate` | finding: the copy loop overwrites data | 2 processes, one call |

`CHECK_DEADLOCK FALSE` stands in every configuration in which the system may stop:
the daemon exits, an application ends or reaches the bound on its calls or writes.
`Handle` never stops, so its runs check deadlock.

Every property has a mutant: the faulty forms at the top of each module replace one
definition each, and TLC finds the property violated.

## 4. Fairness

* Threads are scheduled: weak fairness of the listener, of each worker's own steps,
  of a worker's copy (`BBView`), of the worker in `LocalFile`, of a thread in the loop
  that makes segments (`FileView`).
* A thread that keeps asking for `q_mtx` gets it in the end: strong fairness of
  `Enqueue` and of each worker's `Dequeue`, since other workers take the mutex
  again and again in between.
* A client that connected writes or dies. The listener reads one connection at a
  time without a timeout, so it would wait for ever for one that does neither.
* Nothing is assumed of spurious wakeups, failures, or the application's calls;
  in `Collectives` processes go on with the calls of a program once it has them.

## 5. Proofs

`BbviewdProofs`, for any finite non-empty set of workers, any jobs, wait clients
and backlog (`DaemonAssumption`), with every failure. The properties are not
inductive as they stand; `IInv` adds, in this order:

1. `Types`, `Control`: which control points of the listener hold a connection;
2. `Distinct`: a request is in the backlog, served, or queued, once. Needed because
   a job linked twice would make a cycle of the list;
3. `List`: the history, the list and its end agree (`QueueIsFifo`,
   `ListIsPending`), and a job that was not queued has no successor (`Fresh`);
4. `Wakeups`: a worker runs exactly when it has a job, one about to sleep has seen
   an empty list that nobody can have changed since, because it holds the mutex;
   with `NoLostSignal` and `ExitOnlyDrained`;
5. `Counting`: `active_workers` is the number of workers between their increment
   and decrement, from which its range follows;
6. `Attempted`: what left the list is being run or has an outcome. With
   `Counting` and `ExitOnlyDrained` this gives `DoneIsHonest`.

`Implementation` proves that each step of the daemon is a step or a stutter of
`FlushQueue`, from `IInv` and two lemmas about the slice of the history that is
pending.

`BBViewProofs`, for any processes, views, workers, chunk, bounds and failures
(`BBViewAssumption`):

* `DescriptorMatches` (`FdMatchesState`) needs only types of the handle beside it;
* `JobsLeftAlone` (`JobsUntouched`), for distinct ranks and a file that is opened once
  or reopened by rule `reopen` (`OpensCarefully`): by `Ahead`, the index of a handle is
  at least that of every job of its process, and above it while the handle buffers; so
  the file that `set_view` truncates or a write changes is no job's. `Ahead` speaks of
  the files of jobs and, where no process opens the file again, of those that failed
  jobs left (`Kept`);
* `TypeCorrect` (`TypeOK`) and `JobsCanRun`, for any ranks: whatever failed before, the
  local file of every waiting or running job exists and has a view in its attributes,
  so a worker never looks for one in vain. The two are proved together: the view of a
  copy is a view only because its job was ready, and the local file a handle writes to
  exists only because the handle's descriptor is right (`DescriptorMatches`).

`BBViewLossProofs`, for the same constants and an application and environment that are
`Disciplined`, proves what the burst buffer is for:

* `NothingIsLost` (`NoSilentLoss`);
* `SettledIsWritten` (`SettledIsCurrent`), where moreover no job fails: with failing jobs
  it is false, since what they left is not copied again.

`Disciplined` asks for distinct ranks, the rules `direct` and `gaps`, one flush thread or
the rule `overlap`, and either that no process opens the file twice (then with every
failure of `FaultKinds`) or the rule `reopen` and no failure but those of flushes, of
opening the destination again and of ompio's `set_view`. Section 2 says what goes
wrong without each rule. That reopening and the other failures do not go together is not
a weakness of the proof: a reopened handle counts its views from 1 again, so a `set_view`
that fails half-way may leave it with the index of a file of the earlier opening, and
truncates what a failed job left. Both configurations that check the properties
(`BBView_faults`, `BBView_flights`) are disciplined.

`NoSilentLoss` says where the *last* value is; it is not inductive, because a step of a
worker may bring an *older* value of the same offset to the destination. `LossInv` adds to
the invariants of `BBViewProofs`:

1. `Newest`: what is in a buffer is the last value, and every value of a waiting job or
   still to be copied is the last one or has a newer one behind it, in a later job or in
   a buffer (`Later`). A worker may therefore overwrite a newer value only if a newer
   one still follows;
2. `Apart`: with several flush threads "behind" means nothing, so no two jobs, nor a job
   and its process's view, share an offset: this is what `overlap` is for;
3. `Owned`: a process has only offsets of its own on their way, so the direct write of
   another one meets nothing, and rule `direct` covers its own;
4. `CopiesFit`: the view a worker read is still the one in the attributes;
5. `HandleFits`: what a flush saves is the view the data was written through; after a
   `set_view` that failed half-way, the file the next flush names is missing or empty.

TLC checked `LossInv` on small instances before it was proved. The proof has one lemma per kind of step (`FlushStep`, `WriteStep`,
`TakeJobStep`, `CopyStep` and `QuietStep`, where nothing moves); `Put` and the view's
distinct offsets give what a write does to a file (`PutHolds`). `NothingIsLost` then
follows because the last job that carries an offset has nothing behind it
(`LaterIsNewest`).

`LocalFileProofs`, for any views, descriptions and datatypes, rule `reopen`, and
`DescriptionsFit` (no description longer than the reader has room for):

* `TypeCorrect` (`TypeOK`); `Channel`: every step is a step or a stutter of
  `ViewStore`. The invariant says how far a flush has come (`Written`: the attributes
  it has passed are of the view it writes) and that those of a queued job are whole
  and what the worker has read of them is of that job. It holds because a queued job
  and a handle that writes exclude each other, which is what `reopen` is for;
* `DirectCorrect` (`DirectOnlyAligned`, with the three exemptions of `Covered`), for any
  rules and any datatypes that are nested finitely deep (`DirectIOAssumption`). The provers cannot instantiate an induction
  theorem, so the section makes its own from sets: `Induction` (a set that has every
  datatype whose components it has, has all) from the least element of a set of numbers,
  and `Recursion`: an equation `f = G[f]` in which `G` looks no further than the
  components has a solution, put together from the solutions up to each depth. With it
  `Enable`, `Solid`, `Pieces` and `Covered` are shown to satisfy the equations they are
  defined by. `AlignedStep` is the case analysis over the constructors, `SolidIsPiece`
  what it needs of datatypes without gaps.

`FileViewProofs`, for any decoded views (`ViewAssumption`), transfers and bounds:

* `TypeCorrect` (`TypeOK`), `CursorCorrect` (`CursorAgrees`), `SegmentsCorrect`
  (`SegmentsFollowView`). The invariant relates the loop's `sum` and `j` to the blocks:
  `sum` is what lies before block `j`, and `total` is in that block or at its end.
  `Continues` names what each of the three kinds of round establishes, `EmitFacts`
  draws the conclusion once. The test in the code is on unsigned numbers; that they
  never become negative is part of the types;
* `ByteOffsetCorrect` (`ByteOffsetAgrees`), which needs that transfers are of whole
  etypes (`WholeEtypes`: the cursor and what is left of a transfer end at one), or
  `get_position` would round down. `RestBefore` gives what is left of the offset at each
  block of the walk in `get_byte_offset`, for views whose size fits an int; `ByteFound`
  that the first block where the walk may stop is the right one;
* `SeekEndCorrect` (`SeekEndAppends`): in a view without gaps `get_eof_offset` is the
  size of the file (`EofIsEnd`). With gaps it is not, which is what `FileView_eof` shows.

`HandleProofs`, for any threads, requests and failures:

* `TypeCorrect` (`TypeOK`, no return keeps the lock); `LockHides` (`NoTornDescriptor`), from:
  the lock is held exactly by a thread between the two steps of the exchange;
* `RequestKept` (`NoRequestLost`) and `ReadsDestination` (`ReadsSeeDestination`), for
  the rules `collective` and `still`: the flag is set whenever a request is under way
  and nobody is inside a call, and a thread that passed the check of the state finds
  no local file.

`CollectivesProofs`, for any processes, calls, sizes and failures, with or without
the rules:

* `TypeCorrect` (`TypeOK`), beside `Progress` (a process has a result for each of its
  calls that ended) and `PlaceOfCall` (where it is fits the call it is in);
* `PointerCorrect` (`PointerKept`): a failure of the root's `preallocate` is in its
  results before its next call begins, and while it copies the pointer is saved.

`MeetingProofs`, for processes that follow `alike` and `apart` and handles that do not
start ACTIVE (`Alike`), with every failure that `alike` leaves: `MatchedCorrect` (`Matched`),
`ResultsAgree` (`SameResult`), `SyncWaits` (`SyncAfterAll`), `StatesAgree`
(`SameState`, for handles that start alike) and `SizeCorrect` (`SizeIsSet`). The invariant:

1. `Calling`: processes are in the last call of the program or have ended the one
   before; the argument is the same, so nobody leaves at the broadcast; `sync` refuses
   for all or none; `set_size` succeeds for all or none; `preallocate`
   is told the size on all processes or on none (`SameRefusal`); who stays in it found
   a file that is still no larger than was asked for, who left it early succeeded, or
   failed if nobody was told (`SmallFile`);
2. `Meeting`: on each communicator the collectives of earlier calls are aligned and as
   many on every process, and a process in the last call has taken part in as many
   more as where it is says (`Taken`); the first of them handed out the argument, the one
   of `preallocate` the root's result.

`apart` is what makes `Taken` equal on all processes when the next call begins
(`QuietTaken`), and without it the invariant is false, as section 2 says. The other
communicator is only aligned while `outgrown` is false.

`SizeCorrect` needs no such exception. It adds to the invariant that a process which
set the size left exactly the size asked for (`SetSized`), and that the root, while it
copies, has written no more than it counts, reaches that far in the file and counts no
further than it was asked (`CopyGrows`): when it ends the copy the file is large enough,
and who sets the size afterwards sets what was asked for.

Model-checked only: liveness (`AckedJobsRun`, `QueuedJobsRun`, `ClosedIsDurable`,
`ShutdownWithoutRace`, `AllReturn`, `TransferEnds`, the fairness halves of
`ImplementsFlushQueue` and `ImplementsViewStore`), which is out of the prover's
reach. Every invariant and every action property of a passing run is also a theorem.

## 6. Not modelled

* ompio, the file systems and Open MPI's collectives, beyond what the calls use.
* The daemon's start-up: argument parsing, library initialisation, failure of
  `pthread_create`, a second daemon on the same socket.
* Invalid arguments; shared file pointers as positions (both calls hand the work to a
  sharedfp component and divide or pass on a number).
* Failure of a broadcast or barrier.
* A write that tears an etype, and with it the partial etype at the end of a local file.
* `record_offset_info` in `io_bbview.c`: with a debugging option every transfer gathers
  its segments at the root and prints how often neighbours' segments follow each other.
  It has no effect on the file. The code tests ompio's variable, not the one the
  component registers.
* `ompi_io_bbview_sort_offlen`: no caller; the debugging block calls ompio's function of
  the same purpose.
* Registration with Open MPI (`io_bbview_component.c`, `io_bbview_module.c`): tables
  and parameters. The initial state that `file_query` sets up is the `Init` of the
  modules.
* Local files of the same name in different communicators or directories. `JobsLeftAlone`
  and the runs assume distinct ranks in one communicator.

## 7. Plan

Done: sections 2 to 5. What is left, by what it would add:

1. `BBView` over `FileView`: the position an application sees while a view is buffered
   (contiguous in the local file) against the view it set.
2. Names that collide: `RankOf` not injective, and paths that differ only in `/` and `-`.
