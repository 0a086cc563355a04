---------------------------- MODULE HandleProofs ----------------------------
(***************************************************************************)
(* Theorems about the threads on one handle, for any number of threads and *)
(* requests and whatever fails: the lock hides the exchange of the         *)
(* descriptor, no request of a split collective is lost, and a read that   *)
(* passed its check does not meet a local file.                            *)
(***************************************************************************)
EXTENDS Handle, TLAPS

USE HandleAssumption DEF HandleAssumption

\* The control points between close() and open() of set_view.
Exchanging(t) == pc[t] \in {"dest", "local"}

\* A thread is between the steps of the exchange exactly while it holds f_lock.
Locking == \A t \in Threads : Exchanging(t) <=> lock = t

\* A handle whose descriptor is a local file, or will be, is ACTIVE.
Buffering == /\ fd = "local" => state = "ACTIVE"
             /\ \A t \in Threads : pc[t] = "local" => state = "ACTIVE"

LInv == TypeOK /\ Locking /\ Buffering

LEMMA InitLInv == Init => LInv
  BY DEF Init, LInv, TypeOK, Locked, Locking, Buffering, Exchanging, States, Places

\* Steps that neither begin nor end an exchange.
LEMMA LockKept ==
  ASSUME LInv, NEW t \in Threads, ~Exchanging(t),
         NEW place \in Places \ {"dest", "local"}, Goto(t, place), UNCHANGED <<fd, lock>>,
         state' \in {state, "ACTIVE"}
  PROVE  Locking' /\ Buffering'
  BY DEF LInv, Locking, Buffering, TypeOK, Exchanging, Goto, Places

\* Every step keeps the types, the lock with the thread that exchanges the
\* descriptor, and a handle that buffers ACTIVE.
LEMMA StepLInv == LInv /\ [Next]_vars => LInv'
<1> SUFFICES ASSUME LInv, [Next]_vars PROVE LInv'
  OBVIOUS
<1>0. lock' \in Threads \cup {None} /\ Locking' => Locked'
  BY DEF Locking, Locked, Exchanging
<1>1. CASE UNCHANGED vars
  BY <1>1 DEF vars, LInv, TypeOK, Locked, Locking, Buffering, Exchanging
<1>2. CASE Next
  <2>1. PICK t \in Threads : Step(t) \/ Call(t)
    BY <1>2 DEF Next
  <2>. USE DEF LInv
  <2>2. CASE ReadRun(t) \/ NoSharedPointer(t) \/ BeginMark(t) \/ EndUnmark(t)
             \/ \E op \in Transfers : BeginIssue(t, op) \/ BeginFails(t, op)
    <3>1. ~Exchanging(t) /\ UNCHANGED <<fd, lock, state>> /\ (Goto(t, "idle") \/ Goto(t, "mark"))
      BY <2>2 DEF ReadRun, NoSharedPointer, BeginMark, EndUnmark, BeginIssue, BeginFails, Return, Exchanging, Transfers
    <3>2. Locking' /\ Buffering'
      BY <3>1, LockKept DEF Places
    <3>3. TypeOK'
      BY <1>0, <3>2, <2>2 DEF TypeOK, ReadRun, NoSharedPointer, BeginMark, EndUnmark, BeginIssue, BeginFails, Return, Goto,
                  Places, Touched, Transfers
    <3>. QED BY <3>2, <3>3
  <2>3. CASE ReadCheck(t) \/ Write(t) \/ KeepDescriptor(t) \/ EndRefused(t) \/ EndWait(t)
             \/ \E op \in Transfers : BeginCheck(t, op)
    <3>1. /\ ~Exchanging(t) /\ UNCHANGED <<fd, lock, state>>
          /\ \E place \in {"idle", "read", "issue read", "issue write", "unmark"} : Goto(t, place)
      BY <2>3 DEF ReadCheck, Write, KeepDescriptor, EndRefused, EndWait, BeginCheck,
                  MayExchange, MayCallCollective, Return, Exchanging, Transfers
    <3>2. Locking' /\ Buffering'
      BY <3>1, LockKept DEF Places
    <3>3. TypeOK'
      BY <1>0, <3>2, <2>3 DEF TypeOK, ReadCheck, Write, KeepDescriptor, EndRefused, EndWait, BeginCheck,
                  Return, Goto, Places, Touched, Transfers
    <3>. QED BY <3>2, <3>3
  <2>4. CASE ExchangeFails(t)
    <3>1. /\ ~Exchanging(t) /\ UNCHANGED <<fd, lock>> /\ Goto(t, "idle")
          /\ state' \in {state, "ACTIVE"}
      BY <2>4 DEF ExchangeFails, Unlock, MayExchange, MayCallCollective, Free, Return, Exchanging
    <3>2. Locking' /\ Buffering'
      BY <3>1, LockKept DEF Places
    <3>3. TypeOK'
      BY <1>0, <3>2, <2>4 DEF TypeOK, ExchangeFails, Unlock, Return, Goto, Places, States
    <3>. QED BY <3>2, <3>3
  <2>5. CASE CloseLocal(t) \/ CloseCurrent(t)
    <3>1. Locking'
      BY <2>5 DEF TypeOK, Locking, Exchanging, CloseLocal, CloseCurrent, MayExchange, Free, Goto
    <3>2. Buffering'
      BY <2>5 DEF TypeOK, Buffering, CloseLocal, CloseCurrent, Goto
    <3>3. TypeOK'
      BY <1>0, <3>1, <2>5 DEF TypeOK, CloseLocal, CloseCurrent, Goto, Places, States
    <3>. QED BY <3>1, <3>2, <3>3
  <2>6. CASE OpenDest(t)
    <3>1. Locking'
      BY <2>6 DEF TypeOK, Locking, Exchanging, OpenDest, Unlock, Return, Goto
    <3>2. Buffering'
      BY <2>6 DEF TypeOK, Locking, Exchanging, Buffering, OpenDest, Destination, Return, Goto
    <3>3. TypeOK'
      BY <1>0, <3>1, <2>6 DEF TypeOK, OpenDest, Destination, Unlock, Return, Goto, Places, States
    <3>. QED BY <3>1, <3>2, <3>3
  <2>7. CASE OpenLocal(t)
    <3>1. Locking'
      BY <2>7 DEF TypeOK, Locking, Exchanging, OpenLocal, Unlock, Return, Goto
    <3>2. Buffering'
      BY <2>7 DEF TypeOK, Buffering, OpenLocal, Return, Goto
    <3>3. TypeOK'
      BY <1>0, <3>1, <2>7 DEF TypeOK, OpenLocal, Unlock, Return, Goto, Places
    <3>. QED BY <3>1, <3>2, <3>3
  <2>8. CASE SetAtomicity(t)
    <3>1. Locking'
      BY <2>8 DEF TypeOK, Locking, Exchanging, SetAtomicity, MayExchange, MayCallCollective, Return, Goto
    <3>2. Buffering'
      BY <2>8 DEF TypeOK, Buffering, SetAtomicity, Return, Goto
    <3>3. TypeOK'
      BY <1>0, <3>1, <2>8 DEF TypeOK, SetAtomicity, Return, Goto, Places, States
    <3>. QED BY <3>1, <3>2, <3>3
  <2>. QED
    BY <2>1, <2>2, <2>3, <2>4, <2>5, <2>6, <2>7, <2>8 DEF Step, Call
<1>. QED BY <1>1, <1>2

\* The types of the handle and of its threads.
THEOREM TypeCorrect == Spec => []TypeOK
<1>1. LInv => TypeOK
  BY DEF LInv
<1>. QED BY <1>1, InitLInv, StepLInv, PTL DEF Spec

\* A thread that takes the lock finds nobody between close() and open(): no call
\* meets the handle while set_view exchanges its descriptor.
THEOREM LockHides == Spec => NoTornDescriptor
<1> DEFINE Torn == \A t \in Threads : got[t] # "closed" /\ got'[t] = "closed"
                     => \A u \in Threads : ~Exchanging(u)
<1>1. LInv /\ [Next]_vars => [Torn]_vars
  <2> SUFFICES ASSUME LInv, Next PROVE Torn
    BY DEF vars
  <2>1. PICK t \in Threads : Step(t) \/ Call(t)
    BY DEF Next
  <2>2. CASE Free
    <3>1. \A u \in Threads : ~Exchanging(u)
      BY <2>2 DEF LInv, Locking, Free
    <3>. QED BY <3>1
  <2>3. CASE ~Free
    <3>1. \A u \in Threads : got'[u] = "closed" => got[u] = "closed"
      BY <2>1, <2>3 DEF LInv, TypeOK, Step, Call, ReadRun, NoSharedPointer, OpenDest, OpenLocal, BeginIssue,
           BeginFails, BeginMark, EndUnmark, ReadCheck, Write, KeepDescriptor, ExchangeFails,
           CloseLocal, CloseCurrent, SetAtomicity, BeginCheck, EndRefused, EndWait, MayExchange,
           Return
    <3>. QED BY <3>1
  <2>. QED BY <2>2, <2>3
<1>2. Torn <=> \A t \in Threads : got[t] # "closed" /\ got'[t] = "closed"
                 => \A u \in Threads : pc[u] \notin {"dest", "local"}
  BY DEF Exchanging
<1>. QED BY <1>1, <1>2, InitLInv, StepLInv, PTL DEF Spec, NoTornDescriptor
-----------------------------------------------------------------------------
(* Reads, for applications that do not set the view meanwhile.             *)

\* A thread that passed the check of the state meets no local file, and nobody
\* exchanges the descriptor.
Reading == \A t \in Threads : pc[t] = "read" =>
             /\ fd # "local"
             /\ \A u \in Threads : ~Exchanging(u)

LEMMA StepReading ==
  ASSUME "still" \in Rules, LInv, Reading, [Next]_vars
  PROVE  Reading'
<1>1. CASE UNCHANGED vars
  BY <1>1 DEF vars, Reading, Exchanging
<1>2. CASE Next
  <2>1. PICK t \in Threads : Step(t) \/ Call(t)
    BY <1>2 DEF Next
  <2>. USE DEF LInv, TypeOK, Reading, Exchanging
  <2>2. CASE ReadCheck(t)
    BY <2>2 DEF ReadCheck, RefusesReads, Buffering, Return, Goto
  <2>3. CASE CloseLocal(t) \/ CloseCurrent(t)
    BY <2>3 DEF CloseLocal, CloseCurrent, MayExchange, Goto
  <2>4. CASE OpenDest(t) \/ OpenLocal(t)
    BY <2>4 DEF OpenDest, OpenLocal, Return, Goto
  <2>5. CASE ReadRun(t) \/ NoSharedPointer(t) \/ BeginMark(t) \/ EndUnmark(t)
             \/ \E op \in Transfers : BeginIssue(t, op) \/ BeginFails(t, op)
    BY <2>5 DEF ReadRun, NoSharedPointer, BeginMark, EndUnmark, BeginIssue, BeginFails, Return, Goto, Transfers
  <2>6. CASE Write(t) \/ KeepDescriptor(t) \/ EndRefused(t) \/ EndWait(t)
             \/ ExchangeFails(t) \/ SetAtomicity(t)
             \/ \E op \in Transfers : BeginCheck(t, op)
    BY <2>6 DEF Write, KeepDescriptor, EndRefused, EndWait, ExchangeFails, SetAtomicity, BeginCheck,
                Return, Goto, Transfers
  <2>. QED
    BY <2>1, <2>2, <2>3, <2>4, <2>5, <2>6 DEF Step, Call
<1>. QED BY <1>1, <1>2

\* A read never returns what is in a local file, although its check of the state
\* is outside the lock, when no thread reads while another one sets the view.
THEOREM ReadsDestination ==
  ASSUME "still" \in Rules
  PROVE  Spec => ReadsSeeDestination
<1> DEFINE Seen == \A t \in Threads : pc[t] = "read" /\ pc'[t] # "read" => got'[t] # "local"
<1>1. Init => Reading
  BY DEF Init, Reading
<1>2. LInv /\ Reading /\ [Next]_vars => [Seen]_vars
  <2> SUFFICES ASSUME LInv, Reading, Next, NEW u \in Threads, pc[u] = "read", pc'[u] # "read"
               PROVE  got'[u] # "local"
    BY DEF vars
  <2>1. PICK t \in Threads : Step(t) \/ Call(t)
    BY DEF Next
  <2>2. ReadRun(u) \/ NoSharedPointer(u)
    BY <2>1 DEF LInv, TypeOK, Step, Call, ReadRun, NoSharedPointer, OpenDest, OpenLocal, BeginIssue, BeginFails,
         BeginMark, EndUnmark, ReadCheck, Write, KeepDescriptor, ExchangeFails, CloseLocal,
         CloseCurrent, SetAtomicity, BeginCheck, EndRefused, EndWait, MayExchange,
         MayCallCollective, Return, Goto
  <2>. QED BY <2>2 DEF LInv, TypeOK, Reading, ReadRun, NoSharedPointer, Return, Touched
<1>. QED BY <1>1, <1>2, InitLInv, StepLInv, StepReading, PTL DEF Spec, ReadsSeeDestination
-----------------------------------------------------------------------------
(* Split collectives, for applications that make one collective call at a  *)
(* time.                                                                   *)

\* One thread is inside a collective call; the request under way is the one the
\* handle remembers, and the flag tells the next begin of it in time.
OneRequest ==
  /\ \A t, u \in Threads : InCollective(t) /\ InCollective(u) => t = u
  /\ live \subseteq {req}
  /\ live # {} => split \/ \E t \in Threads : pc[t] = "mark"
  /\ \A t \in Threads : pc[t] \in {"issue read", "issue write", "unmark"} => live = {}

LEMMA StepOneRequest ==
  ASSUME "collective" \in Rules, TypeOK, OneRequest, [Next]_vars
  PROVE  OneRequest'
<1>1. CASE UNCHANGED vars
  BY <1>1 DEF vars, OneRequest, InCollective
<1>2. CASE Next
  <2>1. PICK t \in Threads : Step(t) \/ Call(t)
    BY <1>2 DEF Next
  <2>. USE DEF TypeOK, OneRequest, InCollective
  <2>2. CASE ReadRun(t) \/ NoSharedPointer(t) \/ ReadCheck(t) \/ Write(t)
    BY <2>2 DEF ReadRun, NoSharedPointer, ReadCheck, Write, Return, Goto
  <2>3. CASE OpenDest(t) \/ OpenLocal(t)
    BY <2>3 DEF OpenDest, OpenLocal, Return, Goto
  <2>4. CASE KeepDescriptor(t) \/ ExchangeFails(t) \/ SetAtomicity(t) \/ EndRefused(t)
    BY <2>4 DEF KeepDescriptor, ExchangeFails, SetAtomicity, EndRefused, MayExchange,
                MayCallCollective, Return, Goto
  <2>5. CASE CloseLocal(t) \/ CloseCurrent(t)
    BY <2>5 DEF CloseLocal, CloseCurrent, MayExchange, MayCallCollective, InCollective, Goto
  <2>6. ASSUME NEW op \in Transfers, BeginCheck(t, op) PROVE OneRequest'
    <3>1. \A u \in Threads : ~InCollective(u)
      BY <2>6 DEF BeginCheck, MayCallCollective
    <3>2. pc'[t] = "idle" \/ live = {}
      <4>1. CASE split
        <5>1. Return(t, "refused")
          BY <2>6, <4>1, Zenon DEF BeginCheck, InUse
        <5>. QED BY <5>1 DEF Return, Goto
      <4>2. CASE ~split
        BY <3>1, <4>2
      <4>. QED BY <4>1, <4>2
    <3>3. UNCHANGED <<split, req, live>>
      BY <2>6, Zenon DEF BeginCheck
    <3>4. \A u \in Threads : u # t => pc'[u] = pc[u]
      BY <2>6 DEF BeginCheck, Return, Goto
    <3>. QED BY <3>1, <3>2, <3>3, <3>4
  <2>7. ASSUME NEW op \in Transfers, BeginIssue(t, op) PROVE OneRequest'
    BY <2>7 DEF BeginIssue, Goto
  <2>8. ASSUME NEW op \in Transfers, BeginFails(t, op) PROVE OneRequest'
    BY <2>8 DEF BeginFails, Goto
  <2>9. CASE BeginMark(t)
    BY <2>9 DEF BeginMark, Goto
  <2>10. CASE EndWait(t)
    BY <2>10 DEF EndWait, MayCallCollective, Goto
  <2>11. CASE EndUnmark(t)
    BY <2>11 DEF EndUnmark, Return, Goto
  <2>. QED
    BY <2>1, <2>2, <2>3, <2>4, <2>5, <2>6, <2>7, <2>8, <2>9, <2>10, <2>11 DEF Step, Call
<1>. QED BY <1>1, <1>2

\* f_split_coll_req is not overwritten while its request is under way, although
\* the flag is read and written outside the lock.
THEOREM RequestKept ==
  ASSUME "collective" \in Rules
  PROVE  Spec => []NoRequestLost
<1>1. Init => OneRequest
  BY DEF Init, OneRequest, InCollective
<1>2. OneRequest => NoRequestLost
  BY DEF OneRequest, NoRequestLost
<1>. QED BY <1>1, <1>2, TypeCorrect, StepOneRequest, PTL DEF Spec
=============================================================================
