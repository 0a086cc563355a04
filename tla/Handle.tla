------------------------------- MODULE Handle -------------------------------
(***************************************************************************)
(* The threads of one process on one handle: f_lock, what the calls do     *)
(* before they take it and after they leave it, the descriptor that        *)
(* set_view exchanges under it, and the split collectives.                 *)
(*                                                                         *)
(* What a call does inside the lock without leaving it is one step; but    *)
(* set_view's exchange of the descriptor is two, so that the lock has      *)
(* something to protect.                                                   *)
(***************************************************************************)
EXTENDS Naturals

CONSTANTS Threads,
          None,         \* no thread, no request, no descriptor, no transfer
          Rules,        \* what the application abstains from, see RuleKinds
          Faults,       \* failures the environment may inject, see FaultKinds
          MaxRequests   \* bound of the model: requests nobody waited for

\* "collective"  one collective call on the handle at a time, as MPI demands
\* "still"       no thread reads while another one sets the view
RuleKinds == {"collective", "still"}

\* "flush"  the flush of the previous view fails
\* "pack"   a datatype has no packed description or no extent
\* "open"   open() of the destination or of the local file fails
\* "issue"  a split collective's transfer cannot be started
\* "shared" the file has no shared file pointer
FaultKinds == {"flush", "pack", "open", "issue", "shared"}

ASSUME HandleAssumption ==
  /\ None \notin Threads \cup Nat
  /\ None \notin {"dest", "local", "read", "write"}
  /\ Rules \subseteq RuleKinds
  /\ Faults \subseteq FaultKinds
  /\ MaxRequests \in Nat

VARIABLES
  state,   \* bbview_state_t
  fd,      \* what the descriptor is open on: "dest", "local" or None
  lock,    \* who holds f_lock between two steps, or None
  pc,      \* where a thread is between two steps
  got,     \* what a thread's last call touched or why it was refused
  split,   \* f_split_coll_in_use
  req,     \* f_split_coll_req
  live,    \* the requests that nobody waited for
  began    \* the split collective a thread has to end: a Transfer, or None

vars == <<state, fd, lock, pc, got, split, req, live, began>>

States   == {"DEFAULT", "FALLBACK", "ACTIVE"}
Places   == {"idle", "read", "dest", "local", "issue read", "issue write",
             "mark", "unmark"}
Transfers == {"read", "write"}
Requests == 1..MaxRequests

\* Between two steps f_lock belongs to nobody, or to a thread that is between
\* the close() and the open() of set_view.
Locked == lock # None => pc[lock] \in {"dest", "local"}

\* What the variables hold; no return of a call keeps the lock of the handle
\* (the early returns of set_view included).
TypeOK ==
  /\ state \in States
  /\ fd \in {"dest", "local", None}
  /\ lock \in Threads \cup {None} /\ Locked
  /\ pc \in [Threads -> Places]
  /\ got \in [Threads -> {"dest", "local", "closed", "refused", "none"}]
  /\ split \in BOOLEAN
  /\ req \in Requests \cup {None}
  /\ live \subseteq Requests
  /\ began \in [Threads -> Transfers \cup {None}]

Init ==
  /\ state = "DEFAULT" /\ fd = "dest" /\ lock = None
  /\ pc = [t \in Threads |-> "idle"]
  /\ got = [t \in Threads |-> "none"]
  /\ split = FALSE /\ req = None /\ live = {}
  /\ began = [t \in Threads |-> None]

-----------------------------------------------------------------------------
(* Faulty forms of definitions below, each with one plausible bug.         *)

\* A return of set_view keeps the lock.
KeepLock(t) == UNCHANGED lock

\* A call does not take the lock.
Unlocked == TRUE

\* A split collective may begin whatever the flag says.
NeverBusy == FALSE

\* The descriptor stays open on the local file.
StayLocal == "local"
-----------------------------------------------------------------------------
Goto(t, place) == pc' = [pc EXCEPT ![t] = place]

Free == lock = None

\* set_view leaves the lock on each of its returns.
Unlock(t) == lock' = None

Touched == IF fd = None THEN "closed" ELSE fd

Return(t, result) == /\ Goto(t, "idle")
                     /\ got' = [got EXCEPT ![t] = result]

\* A thread is inside a collective call.
InCollective(t) == pc[t] \notin {"idle", "read"}

MayCallCollective(t) ==
  /\ pc[t] = "idle"
  /\ "collective" \in Rules => \A u \in Threads : ~InCollective(u)
-----------------------------------------------------------------------------
(* Reads and writes.                                                       *)

RefusesReads == state = "ACTIVE"

\* Every read looks at the state before it takes the lock.
ReadCheck(t) ==
  /\ pc[t] = "idle"
  /\ "still" \in Rules => \A u \in Threads : pc[u] \notin {"dest", "local"}
  /\ IF RefusesReads THEN Return(t, "refused")
     ELSE Goto(t, "read") /\ UNCHANGED got
  /\ UNCHANGED <<state, fd, lock, split, req, live, began>>

ReadRun(t) ==
  /\ pc[t] = "read"
  /\ Free
  /\ Return(t, Touched)
  /\ UNCHANGED <<state, fd, lock, split, req, live, began>>

\* A call through a shared file pointer that the file does not have is refused
\* before the lock; a read has looked at the state by then.
NoSharedPointer(t) ==
  /\ "shared" \in Faults
  /\ pc[t] \in {"idle", "read"}
  /\ Return(t, "refused")
  /\ UNCHANGED <<state, fd, lock, split, req, live, began>>

\* Every write takes the lock and goes where the descriptor is.
Write(t) ==
  /\ pc[t] = "idle"
  /\ Free
  /\ Return(t, Touched)
  /\ UNCHANGED <<state, fd, lock, split, req, live, began>>
-----------------------------------------------------------------------------
(* set_view and set_atomicity.                                             *)

MayExchange(t) ==
  /\ MayCallCollective(t)
  /\ "still" \in Rules => \A u \in Threads : pc[u] # "read"
  /\ Free

\* The default view, or any view of a handle in FALLBACK: the descriptor is
\* the destination already.
KeepDescriptor(t) ==
  /\ MayExchange(t)
  /\ state # "ACTIVE"
  /\ Return(t, "none")
  /\ UNCHANGED <<state, fd, lock, split, req, live, began>>

\* A call that fails before it closes the descriptor: the flush of an ACTIVE
\* handle, or, when that went well, the packing of a new view.
ExchangeFails(t) ==
  /\ MayExchange(t)
  /\ \/ "flush" \in Faults /\ state = "ACTIVE" /\ UNCHANGED state
     \/ "pack" \in Faults /\ state # "FALLBACK" /\ state' = "ACTIVE"
  /\ Unlock(t)
  /\ Return(t, "refused")
  /\ UNCHANGED <<fd, split, req, live, began>>

\* The default view of an ACTIVE handle: it has flushed and closed.
CloseLocal(t) ==
  /\ MayExchange(t)
  /\ state = "ACTIVE"
  /\ fd' = None /\ lock' = t /\ Goto(t, "dest")
  /\ UNCHANGED <<state, got, split, req, live, began>>

Destination == "dest"

\* Its open() is not checked.
OpenDest(t) ==
  /\ pc[t] = "dest"
  /\ fd' \in {Destination} \cup (IF "open" \in Faults THEN {None} ELSE {})
  /\ state' = "DEFAULT"
  /\ Unlock(t)
  /\ Return(t, "none")
  /\ UNCHANGED <<split, req, live, began>>

\* A view of its own, after the flush: ACTIVE before the new file is open.
CloseCurrent(t) ==
  /\ MayExchange(t)
  /\ state # "FALLBACK"
  /\ state' = "ACTIVE"
  /\ fd' = None /\ lock' = t /\ Goto(t, "local")
  /\ UNCHANGED <<got, split, req, live, began>>

OpenLocal(t) ==
  /\ pc[t] = "local"
  /\ \/ fd' = "local" /\ Return(t, "none")
     \/ "open" \in Faults /\ UNCHANGED fd /\ Return(t, "refused")
  /\ Unlock(t)
  /\ UNCHANGED <<state, split, req, live, began>>

SetAtomicity(t) ==
  /\ MayExchange(t)
  /\ state # "ACTIVE"
  /\ state' = "FALLBACK"
  /\ Return(t, "none")
  /\ UNCHANGED <<fd, lock, split, req, live, began>>
-----------------------------------------------------------------------------
(* Split collectives: the flag is read and written outside the lock.       *)

InUse == split

\* read_..._begin looks at the state before the flag.
BeginCheck(t, op) ==
  /\ MayCallCollective(t)
  /\ began[t] = None
  /\ IF InUse \/ (op = "read" /\ RefusesReads)
     THEN Return(t, "refused")
     ELSE Goto(t, IF op = "read" THEN "issue read" ELSE "issue write") /\ UNCHANGED got
  /\ UNCHANGED <<state, fd, lock, split, req, live, began>>

\* The transfer is started under the lock.
BeginIssue(t, op) ==
  /\ pc[t] = (IF op = "read" THEN "issue read" ELSE "issue write")
  /\ Free
  /\ \E r \in Requests \ live : req' = r /\ live' = live \cup {r}
  /\ began' = [began EXCEPT ![t] = op]
  /\ got' = [got EXCEPT ![t] = Touched]
  /\ Goto(t, "mark")
  /\ UNCHANGED <<state, fd, lock, split>>

\* It is not: an error, or iread_all looks at the state once more.
BeginFails(t, op) ==
  /\ pc[t] = (IF op = "read" THEN "issue read" ELSE "issue write")
  /\ Free
  /\ "issue" \in Faults \/ (op = "read" /\ RefusesReads)
  /\ got' = [got EXCEPT ![t] = "refused"]
  /\ Goto(t, "mark")
  /\ UNCHANGED <<state, fd, lock, split, req, live, began>>

\* The flag is set whether or not the transfer started.
BeginMark(t) ==
  /\ pc[t] = "mark"
  /\ split' = TRUE
  /\ Goto(t, "idle")
  /\ UNCHANGED <<state, fd, lock, got, req, live, began>>

\* read_..._end on an ACTIVE handle is refused; it can be called again.
EndRefused(t) ==
  /\ MayCallCollective(t)
  /\ began[t] = "read"
  /\ RefusesReads
  /\ Return(t, "refused")
  /\ UNCHANGED <<state, fd, lock, split, req, live, began>>

\* ..._end waits for the request that the handle remembers.
EndWait(t) ==
  /\ MayCallCollective(t)
  /\ began[t] # None
  /\ began[t] = "read" => ~RefusesReads
  /\ live' = live \ {req}
  /\ req' = None
  /\ began' = [began EXCEPT ![t] = None]
  /\ Goto(t, "unmark")
  /\ UNCHANGED <<state, fd, lock, got, split>>

EndUnmark(t) ==
  /\ pc[t] = "unmark"
  /\ split' = FALSE
  /\ Return(t, "none")
  /\ UNCHANGED <<state, fd, lock, req, live, began>>
-----------------------------------------------------------------------------
\* A thread that is inside a call goes on; one that calls through a missing
\* shared file pointer is back at once.
Step(t) == \/ ReadRun(t) \/ NoSharedPointer(t) \/ OpenDest(t) \/ OpenLocal(t)
           \/ \E op \in Transfers : BeginIssue(t, op) \/ BeginFails(t, op)
           \/ BeginMark(t) \/ EndUnmark(t)

Call(t) == \/ ReadCheck(t) \/ Write(t)
           \/ KeepDescriptor(t) \/ ExchangeFails(t) \/ CloseLocal(t)
           \/ CloseCurrent(t) \/ SetAtomicity(t)
           \/ \E op \in Transfers : BeginCheck(t, op)
           \/ EndRefused(t) \/ EndWait(t)

Next == \E t \in Threads : Step(t) \/ Call(t)

Spec == Init /\ [][Next]_vars
-----------------------------------------------------------------------------
(* Correctness.                                                            *)

\* A read never returns what is in a local file: the check that refuses reads
\* of an ACTIVE handle (read.c) comes before the lock, the exchange of the
\* descriptor (set_view) is inside it.
ReadsSeeDestination ==
  [][\A t \in Threads : pc[t] = "read" /\ pc'[t] # "read" => got'[t] # "local"]_vars

\* No call meets the handle between the close() and the open() of set_view: one
\* that finds the descriptor closed came after an open() that failed.
NoTornDescriptor ==
  [][\A t \in Threads : got[t] # "closed" /\ got'[t] = "closed"
       => \A u \in Threads : pc[u] \notin {"dest", "local"}]_vars

\* Every request of a split collective that nobody waited for is the one the
\* handle remembers: f_split_coll_req is not overwritten by another begin.
NoRequestLost == live \subseteq {req}

\* When no thread is inside a collective call, the flag says whether a split
\* collective is under way: none is refused for one that is not
\* ("Only one split collective I/O operation allowed per file handle").
FlagMeansInUse ==
  (\A t \in Threads : ~InCollective(t)) => (split <=> live # {})
=============================================================================
