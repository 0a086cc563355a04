----------------------------- MODULE LocalFile -----------------------------
(***************************************************************************)
(* One name of a local file, over the handles that use it one after the    *)
(* other, as the channel through which a view gets from the process        *)
(* (set_xattrs_for_bbview) to the worker (worker_fn and execute).  The     *)
(* view goes into extended attributes one by one, its packed datatype cut  *)
(* into numbered chunks; O_TRUNC empties a file that exists but leaves its *)
(* attributes, so a later view is written over those of an earlier one.    *)
(*                                                                         *)
(* An attribute's value is the view it was made from.                      *)
(***************************************************************************)
EXTENDS DirectIO

CONSTANTS Views,      \* destination, displacement, etype and filetype
          Chunks,     \* how many attributes the filetype of a view takes
          EtypeFits,  \* the packed etype of a view fits into one attribute
          MaxChunks,  \* the most of Chunks
          Limit,      \* chunks that execute has room for
          Garbled,    \* a datatype unpacked from something else
          None,       \* no view, no attribute
          Rules,      \* "reopen": the file is reopened only when its job is done
          Hints,      \* values of the hint direct_io
          MaxOpens    \* bound of the model

Indices == 0..MaxChunks - 1

ASSUME LocalFileAssumption ==
  /\ MaxChunks \in Nat \ {0} /\ Limit \in Nat \ {0} /\ MaxOpens \in Nat
  /\ Chunks \in [Views -> 1..MaxChunks]
  /\ EtypeFits \in [Views -> BOOLEAN]
  /\ None \notin Views /\ Garbled \notin Views /\ None # Garbled
  /\ Hints \subseteq {"unset", "true", "other"}

VARIABLES
  \* the process
  opens,     \* how many handles used the name
  view,      \* the view buffered in the file, None when the handle left it
  step,      \* what the flush does next
  chunk,     \* index of the next chunk it writes
  descr,     \* how the file was opened: filetype, hint, O_DIRECT or not
  \* the file
  attr,      \* its extended attributes
  \* the daemon
  jobs,      \* the views whose flush was requested
  reading,   \* what the worker does next
  got,       \* what it has read
  result     \* the view the last job was run with

process == <<opens, view, step, chunk, descr>>
worker  == <<reading, got, result>>
vars    == <<opens, view, step, chunk, descr, attr, jobs, reading, got, result>>

FlushSteps == {"idle", "dest", "disp", "chunks", "etype", "send"}
ReadSteps  == {"idle", "etype", "chunks", "disp", "unpack"}

\* What attributes hold, and what was read of them.
Attributes == [dest : Views \cup {None}, disp : Views \cup {None},
               etype : Views \cup {None}, chunks : [Indices -> Views \cup {None}]]
Readings   == [dest : Views \cup {None}, disp : Views \cup {None},
               etype : Views \cup {None}, chunks : Seq(Views)]
Nothing    == [dest |-> None, disp |-> None, etype |-> None, chunks |-> << >>]

TypeOK ==
  /\ opens \in 0..MaxOpens
  /\ view \in Views \cup {None}
  /\ step \in FlushSteps
  /\ chunk \in 0..MaxChunks
  /\ descr = None \/ descr \in [filetype : Types, hint : Hints, direct : BOOLEAN]
  /\ attr \in Attributes
  /\ jobs \in Seq(Views)
  /\ reading \in ReadSteps
  /\ got \in Readings

Init ==
  /\ opens = 0
  /\ view = None
  /\ step = "idle"
  /\ chunk = 0
  /\ descr = None
  /\ attr = [Nothing EXCEPT !.chunks = [k \in Indices |-> None]]
  /\ jobs = << >>
  /\ reading = "idle"
  /\ got = Nothing
  /\ result = None
-----------------------------------------------------------------------------
(* Faulty forms of definitions below.                                      *)

\* The request goes out before the etype is written.
SendEarly == "send"

\* One chunk too many is written.
OneMore == chunk <= Chunks[view]
-----------------------------------------------------------------------------
(* The process: set_view and the flush.                                    *)

\* The hint overrides what the datatype suggests.
Direct(t, h) == \/ h = "true"
                \/ h = "unset" /\ Enable[t]

\* set_view creates or truncates the file.
Attach(v, t, h) ==
  /\ view = None
  /\ opens < MaxOpens
  /\ "reopen" \in Rules => jobs = << >>
  /\ opens' = opens + 1
  /\ view' = v
  /\ descr' = [filetype |-> t, hint |-> h, direct |-> Direct(t, h)]
  /\ UNCHANGED <<step, chunk, attr, jobs, worker>>

Flush ==
  /\ view # None
  /\ step = "idle"
  /\ step' = "dest"
  /\ UNCHANGED <<opens, view, chunk, descr, attr, jobs, worker>>

SetDest ==
  /\ step = "dest"
  /\ attr' = [attr EXCEPT !.dest = view]
  /\ step' = "disp"
  /\ UNCHANGED <<opens, view, chunk, descr, jobs, worker>>

SetDisp ==
  /\ step = "disp"
  /\ attr' = [attr EXCEPT !.disp = view]
  /\ step' = "chunks"
  /\ chunk' = 0
  /\ UNCHANGED <<opens, view, descr, jobs, worker>>

MoreChunks == chunk < Chunks[view]

\* The etype is written last, after which the request may go out.
AfterChunks == "etype"

SetChunk ==
  /\ step = "chunks"
  /\ MoreChunks
  /\ attr' = [attr EXCEPT !.chunks[chunk] = view]
  /\ chunk' = chunk + 1
  /\ UNCHANGED <<opens, view, step, descr, jobs, worker>>

ChunksDone ==
  /\ step = "chunks"
  /\ ~MoreChunks
  /\ step' = AfterChunks
  /\ UNCHANGED <<opens, view, chunk, descr, attr, jobs, worker>>

SetEtype ==
  /\ step = "etype"
  /\ EtypeFits[view]
  /\ attr' = [attr EXCEPT !.etype = view]
  /\ step' = "send"
  /\ UNCHANGED <<opens, view, chunk, descr, jobs, worker>>

\* The request is sent; the handle goes on with another file.
Send ==
  /\ step = "send"
  /\ jobs' = Append(jobs, view)
  /\ view' = None
  /\ step' = "idle"
  /\ descr' = None
  /\ UNCHANGED <<opens, chunk, attr, worker>>

\* An attribute cannot be written or the request not sent: the handle keeps
\* the view and the call can be made again.
FlushFails ==
  /\ step # "idle"
  /\ step' = "idle"
  /\ UNCHANGED <<opens, view, chunk, descr, attr, jobs, worker>>

\* The process ends without a flush that succeeded.
Killed ==
  /\ view # None
  /\ view' = None
  /\ step' = "idle"
  /\ descr' = None
  /\ UNCHANGED <<opens, chunk, attr, jobs, worker>>
-----------------------------------------------------------------------------
(* The worker: dest in worker_fn, the rest in execute.                     *)

\* An attribute is missing: the job is given up.
GiveUp == /\ jobs' = Tail(jobs)
          /\ reading' = "idle"
          /\ got' = Nothing
          /\ UNCHANGED result

ReadDest ==
  /\ reading = "idle"
  /\ jobs # << >>
  /\ IF attr.dest = None
     THEN GiveUp
     ELSE /\ got' = [Nothing EXCEPT !.dest = attr.dest]
          /\ reading' = "etype"
          /\ UNCHANGED <<jobs, result>>
  /\ UNCHANGED <<process, attr>>

ReadEtype ==
  /\ reading = "etype"
  /\ IF attr.etype = None
     THEN GiveUp
     ELSE /\ got' = [got EXCEPT !.etype = attr.etype]
          /\ reading' = "chunks"
          /\ UNCHANGED <<jobs, result>>
  /\ UNCHANGED <<process, attr>>

RoomForChunk == Len(got.chunks) < Limit

HasChunk(k) == k \in Indices /\ attr.chunks[k] # None

ReadChunk ==
  /\ reading = "chunks"
  /\ RoomForChunk
  /\ HasChunk(Len(got.chunks))
  /\ got' = [got EXCEPT !.chunks = Append(@, attr.chunks[Len(@)])]
  /\ UNCHANGED <<process, attr, jobs, reading, result>>

\* The first chunk must be there; the first missing one ends the datatype.
NoMoreChunks ==
  /\ reading = "chunks"
  /\ ~(RoomForChunk /\ HasChunk(Len(got.chunks)))
  /\ IF got.chunks = << >>
     THEN GiveUp
     ELSE /\ reading' = "disp"
          /\ UNCHANGED <<got, jobs, result>>
  /\ UNCHANGED <<process, attr>>

ReadDisp ==
  /\ reading = "disp"
  /\ IF attr.disp = None
     THEN GiveUp
     ELSE /\ got' = [got EXCEPT !.disp = attr.disp]
          /\ reading' = "unpack"
          /\ UNCHANGED <<jobs, result>>
  /\ UNCHANGED <<process, attr>>

\* A packed description says how long it is: what follows it is not read.
Decode(s) ==
  LET v == s[1]
  IN IF Len(s) >= Chunks[v] /\ \A k \in 1..Chunks[v] : s[k] = v THEN v ELSE Garbled

\* The datatypes are unpacked and the job is run with them.
Unpack ==
  /\ reading = "unpack"
  /\ result' = [dest |-> got.dest, disp |-> got.disp, etype |-> got.etype,
                filetype |-> Decode(got.chunks)]
  /\ jobs' = Tail(jobs)
  /\ reading' = "idle"
  /\ got' = Nothing
  /\ UNCHANGED <<process, attr>>
-----------------------------------------------------------------------------
SetView == \E v \in Views, t \in Types, h \in Hints : Attach(v, t, h)

FlushStep == \/ SetDest \/ SetDisp \/ SetChunk \/ ChunksDone \/ SetEtype \/ Send
             \/ FlushFails

Worker == ReadDest \/ ReadEtype \/ ReadChunk \/ NoMoreChunks \/ ReadDisp \/ Unpack

Next == SetView \/ Flush \/ FlushStep \/ Killed \/ Worker

SafeSpec == Init /\ [][Next]_vars

\* The daemon's threads run; nothing obliges the application to act.
Spec == SafeSpec /\ WF_vars(Worker)
-----------------------------------------------------------------------------
(* Correctness.                                                            *)

\* No view has more chunks than execute has room for.
DescriptionsFit == \A v \in Views : Chunks[v] <= Limit

\* The worker runs every requested job with exactly the view that was
\* flushed, whatever earlier handles, failed flushes and killed processes
\* left in the attributes (set_xattrs_for_bbview against execute).
Store == INSTANCE ViewStore WITH published <- jobs, given <- result

ImplementsViewStore == Store!Spec

\* Unless the hint says otherwise, O_DIRECT is only chosen for a filetype
\* whose contiguous pieces are whole pages, none below the threshold
\* (enable_directio as set_view calls it).  Left out, because the code gets
\* them wrong: arrays dealt out unevenly, constructors it does not name, and
\* predefined types with a gap like MPI_DOUBLE_INT, of which it looks at the
\* size only.
DirectOnlyAligned ==
  descr # None /\ descr.direct /\ descr.hint = "unset" /\ Covered[descr.filetype]
  => \A n \in Pieces[descr.filetype] : WholePages(n)
=============================================================================
