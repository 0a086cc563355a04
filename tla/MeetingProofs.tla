---------------------------- MODULE MeetingProofs ----------------------------
(***************************************************************************)
(* Theorems about how the processes meet, for any number of processes and  *)
(* calls: processes that call alike, one call after the other, on handles  *)
(* that do not buffer, meet in collectives of the same call, return the    *)
(* same results, stay in the same state and leave a file of the size they  *)
(* asked for.  Any of the modelled failures may happen; but to call alike  *)
(* is also that fs_file_get_size in preallocate, and fs_file_set_size in   *)
(* set_size, fail for all of them or none.                                 *)
(***************************************************************************)
EXTENDS CollectivesProofs

Alike == {"alike", "apart"} \subseteq Rules /\ "ACTIVE" \notin StartStates

Last == Len(script)

\* The process takes or took part in the last call.
In(r) == Last >= 1 /\ calls[r] = Last

LastIs(op) == Last >= 1 /\ LastOp[1] = op

\* In how many collectives of the last call the process took part.
Taken(r, c) ==
  IF ~In(r) THEN 0
  ELSE IF c = "file"
  THEN IF LastIs("preallocate") /\ LastOp[3] = {}
          /\ (pc[r] = "resize" \/ (pc[r] = "idle" /\ Len(data[Dest]) <= LastOp[2]))
       THEN 1 ELSE 0
  ELSE IF pc[r] = "bcast" \/ (pc[r] = "idle" /\ LastIs("sync") /\ LastOp[2] = 1) THEN 0
  ELSE IF LastIs("set_size") /\ (pc[r] = "barrier" \/ (pc[r] = "idle" /\ results[r][Last]))
  THEN 2 ELSE 1

\* The first b collectives belong to earlier calls, the others to the last one.
Aligned(c, b) ==
  \A r \in Ranks :
    /\ Len(met[r][c]) = b + Taken(r, c)
    /\ \A i \in 1..Len(met[r][c]) :
         met[r][c][i].call = IF i <= b THEN met[Root][c][i].call ELSE Last

\* The first collective of a call hands out the argument.
FirstIsArg(b) ==
  ~LastIs("sync") =>
    \A r \in Ranks : Taken(r, "ompio") >= 1 => met[r]["ompio"][b + 1].value = LastOp[2]

\* preallocate returns what the root handed out.
ResultIsShared(b) ==
  LastIs("preallocate") =>
    \A r \in Ranks : Taken(r, "file") >= 1 =>
      /\ Taken(Root, "file") >= 1
      /\ met[Root]["file"][b + 1].value = IF pc[r] = "resize" THEN ret[r] ELSE results[r][Last]

Apart ==
  \A r \in Ranks : calls[r] >= Last - 1 /\ (calls[r] < Last => pc[r] = "idle")

SameArg == \A r \in Ranks : In(r) => arg[r] = LastOp[2]

\* Who has pending requests does not meet anybody.
SyncRefuses ==
  LastIs("sync") =>
    /\ LastOp[2] \in {0, 1}
    /\ \A r \in Ranks : In(r) /\ pc[r] # "idle" => LastOp[2] = 0

\* All processes learn the size of the file in the last call, or none.
SameRefusal == Last >= 1 => LastOp[3] \in {{}, Ranks}

\* set_size succeeds for all or for none.
OneOutcome ==
  LastIs("set_size") =>
    \A r, q \in Ranks : ~(Failed(r, Last) /\ Succeeded(q, Last))

\* Who stays in preallocate found the file too small; who leaves it found it too
\* large, or did not learn its size and failed.
SmallFile ==
  ~outgrown /\ LastIs("preallocate") =>
    \A r \in Ranks : In(r) =>
      /\ pc[r] \in {"copy", "result", "resize"}
           => LastOp[3] = {} /\ Len(data[Dest]) <= LastOp[2]
      /\ pc[r] = "idle" /\ LastOp[3] = {} /\ Len(data[Dest]) > LastOp[2] => results[r][Last]
      /\ pc[r] = "idle" /\ LastOp[3] # {} => ~results[r][Last]

NeverActive == \A r \in Ranks : state[r] # "ACTIVE"

Calling == /\ NeverActive /\ Apart /\ SameArg /\ SyncRefuses /\ SameRefusal
           /\ OneOutcome /\ SmallFile

Meeting ==
  /\ \E b \in Nat : Aligned("ompio", b) /\ FirstIsArg(b)
  /\ ~outgrown => \E b \in Nat : Aligned("file", b) /\ ResultIsShared(b)

MInv == TInv /\ Calling /\ Meeting /\ SameResult
-----------------------------------------------------------------------------
(* What a step of a process in its call leaves alone.                      *)

\* The only step that ends a call or goes on in it.
LEMMA OthersKept ==
  ASSUME TInv, NEW r \in Ranks, Step(r), NEW q \in Ranks, q # r
  PROVE  /\ pc'[q] = pc[q] /\ results'[q] = results[q] /\ state'[q] = state[q]
         /\ ret'[q] = ret[q] /\ met'[q] = met[q]
<1>1. /\ pc \in [Ranks -> Places] /\ results \in [Ranks -> Seq(BOOLEAN)] /\ ret \in [Ranks -> BOOLEAN]
      /\ state \in [Ranks -> {"DEFAULT", "FALLBACK", "ACTIVE"}]
      /\ met = [s \in Ranks |-> met[s]]
  BY DEF TInv, TypeOK, MetFcn
<1> USE DEF Step, Agree, GetSize, GetSizeFails, CopyBack, Extend, Restore, Fails,
         NoBuffer, ReadFails, WriteFails, ShareResult,
           EndPreallocate, ResizeFile, ResizeFails, EndAtomicity, LeaveBarrier, EndSync
<1>2. UNCHANGED pc \/ \E place : pc' = [pc EXCEPT ![r] = place]
  BY DEF Return, Goto
<1>3. UNCHANGED results \/ \E b : results' = [results EXCEPT ![r] = Append(@, b)]
  BY DEF Return, Goto
<1>4. UNCHANGED ret \/ \E b : ret' = [ret EXCEPT ![r] = b]
  OBVIOUS
<1>5. UNCHANGED state \/ \E b : state' = [state EXCEPT ![r] = b]
  OBVIOUS
<1>6. UNCHANGED met \/ \E c \in Comms : \E m : met' = [met EXCEPT ![r][c] = Append(@, m)]
  BY DEF Meet, Comms
<1>7. met'[q] = met[q]
  BY <1>1, <1>6
<1> QED
  BY <1>1, <1>2, <1>3, <1>4, <1>5, <1>7

LEMMA CallsAndScript ==
  ASSUME TInv, NEW r \in Ranks, NEW c \in Comms
  PROVE  /\ Last \in Nat /\ calls[r] \in Nat /\ calls[r] <= Last /\ Root \in Ranks
         /\ results[r] \in Seq(BOOLEAN) /\ met[r][c] \in Seq(Meetings(c)) /\ pc[r] \in Places
         /\ arg[r] \in Sizes /\ ret[r] \in BOOLEAN
BY CollectivesAssumption DEF TInv, TypeOK, Progress, Last, CollectivesAssumption

LEMMA TakenType ==
  ASSUME NEW r \in Ranks, NEW c \in Comms
  PROVE  Taken(r, c) \in 0..2
BY DEF Taken

\* A process in a call is in the last one.
LEMMA InCall ==
  ASSUME TInv, Apart, NEW r \in Ranks, pc[r] # "idle"
  PROVE  /\ In(r) /\ Op(r) = LastOp[1] /\ Last \in 1..MaxCalls /\ calls[r] = Last
         /\ Len(results[r]) = Last - 1
<1>1. Last \in Nat /\ calls[r] \in 0..MaxCalls /\ MaxCalls \in Nat /\ Progress(r)
  BY CollectivesAssumption DEF TInv, TypeOK, Last, CollectivesAssumption
<1>2. calls[r] = Last /\ Last >= 1
  BY <1>1 DEF Apart, Progress, Last
<1> QED
  BY <1>1, <1>2 DEF In, Op, LastOp, Last, Progress

\* Collectives stay aligned when one process takes part in one more.
LEMMA AlignedStep ==
  ASSUME TInv, NEW r \in Ranks, NEW c \in Comms, NEW b \in Nat, Aligned(c, b),
         UNCHANGED script,
         \A q \in Ranks : q # r => met'[q][c] = met[q][c] /\ Taken(q, c)' = Taken(q, c),
         \/ met'[r][c] = met[r][c] /\ Taken(r, c)' = Taken(r, c)
         \/ \E m \in Meetings(c) : /\ m.call = Last
                                   /\ met'[r][c] = Append(met[r][c], m)
                                   /\ Taken(r, c)' = Taken(r, c) + 1
  PROVE  Aligned(c, b)'
<1>1. /\ Root \in Ranks /\ Last' = Last
      /\ \A q \in Ranks : /\ met[q][c] \in Seq(Meetings(c)) /\ Len(met[q][c]) \in Nat
                          /\ Taken(q, c) \in 0..2
  <2>1. Root \in Ranks /\ Last' = Last
    BY CallsAndScript DEF Last
  <2>2. \A q \in Ranks : met[q][c] \in Seq(Meetings(c))
    BY DEF TInv, TypeOK
  <2>3. \A q \in Ranks : Len(met[q][c]) \in Nat
    BY <2>2
  <2>4. \A q \in Ranks : Taken(q, c) \in 0..2
    BY TakenType
  <2> QED
    BY <2>1, <2>2, <2>3, <2>4
<1>2. \A q \in Ranks : /\ Len(met[q][c]) = b + Taken(q, c) /\ Len(met[q][c]) >= b
                       /\ \A i \in 1..Len(met[q][c]) :
                            met[q][c][i].call = IF i <= b THEN met[Root][c][i].call ELSE Last
  BY <1>1 DEF Aligned
<1>3. \A q \in Ranks : \A i \in 1..b : met'[q][c][i] = met[q][c][i]
  <2> SUFFICES ASSUME NEW q \in Ranks, NEW i \in 1..b PROVE met'[q][c][i] = met[q][c][i]
    OBVIOUS
  <2>1. i \in 1..Len(met[q][c])
    BY <1>1, <1>2
  <2> QED
    BY <1>1, <2>1
<1>4. ASSUME NEW q \in Ranks, met'[q][c] = met[q][c], Taken(q, c)' = Taken(q, c)
      PROVE  /\ Len(met'[q][c]) = b + Taken(q, c)'
             /\ \A i \in 1..Len(met'[q][c]) :
                  met'[q][c][i].call = IF i <= b THEN met'[Root][c][i].call ELSE Last
  <2>1. Len(met'[q][c]) = b + Taken(q, c)'
    BY <1>2, <1>4
  <2>2. ASSUME NEW i \in 1..Len(met[q][c])
        PROVE  met[q][c][i].call = IF i <= b THEN met'[Root][c][i].call ELSE Last
    <3>1. i <= b => met'[Root][c][i] = met[Root][c][i]
      BY <1>1, <1>3
    <3> QED
      BY <1>2, <3>1
  <2> QED
    BY <1>4, <2>1, <2>2
<1>5. ASSUME NEW m \in Meetings(c), m.call = Last, met'[r][c] = Append(met[r][c], m),
             Taken(r, c)' = Taken(r, c) + 1
      PROVE  /\ Len(met'[r][c]) = b + Taken(r, c)'
             /\ \A i \in 1..Len(met'[r][c]) :
                  met'[r][c][i].call = IF i <= b THEN met'[Root][c][i].call ELSE Last
  <2> DEFINE s == met[r][c]
             t == met'[r][c]
  <2>1. s \in Seq(Meetings(c)) /\ t = Append(s, m) /\ Len(s) = b + Taken(r, c) /\ Len(s) >= b
    BY <1>1, <1>2, <1>5
  <2>2. \A i \in 1..Len(s) : s[i].call = IF i <= b THEN met[Root][c][i].call ELSE Last
    BY <1>2
  <2> HIDE DEF s, t
  <2>3. Len(t) = Len(s) + 1 /\ t[Len(s) + 1] = m /\ \A i \in 1..Len(s) : t[i] = s[i]
    BY <2>1
  <2>4. Len(t) = b + Taken(r, c)'
    BY <1>1, <1>5, <2>1, <2>3
  <2>5. ASSUME NEW i \in 1..Len(t)
        PROVE  t[i].call = IF i <= b THEN met'[Root][c][i].call ELSE Last
    <3>1. CASE i = Len(s) + 1
      BY <1>5, <2>1, <2>3, <3>1
    <3>2. CASE i \in 1..Len(s)
      BY <1>1, <1>3, <2>2, <2>3, <3>2
    <3> QED
      BY <2>1, <2>3, <3>1, <3>2
  <2> QED
    BY <2>4, <2>5 DEF t
<1>6. \A q \in Ranks :
        /\ Len(met'[q][c]) = b + Taken(q, c)'
        /\ \A i \in 1..Len(met'[q][c]) :
             met'[q][c][i].call = IF i <= b THEN met'[Root][c][i].call ELSE Last
  BY <1>4, <1>5
<1> QED
  BY <1>1, <1>6 DEF Aligned
-----------------------------------------------------------------------------
(* The communicator of ompio.                                              *)

\* The root's argument is everybody's: nobody leaves at the broadcast.
LEMMA BcastArg ==
  ASSUME TInv, Calling, NEW b \in Nat, Aligned("ompio", b), FirstIsArg(b),
         NEW r \in Ranks, pc[r] = "bcast", CanBcast(r, "ompio")
  PROVE  /\ Bcast(r, "ompio", arg[r]) = arg[r] /\ arg[r] = LastOp[2]
         /\ Op(r) \in {"preallocate", "set_size", "set_atomicity"}
<1>1. /\ In(r) /\ Op(r) = LastOp[1] /\ Last >= 1 /\ Root \in Ranks
      /\ Op(r) \in {"preallocate", "set_size", "set_atomicity"}
  <2>1. Apart /\ PlaceOfCall(r) /\ Root \in Ranks
    BY CollectivesAssumption DEF Calling, TInv, CollectivesAssumption
  <2>2. In(r) /\ Op(r) = LastOp[1] /\ Last \in 1..MaxCalls
    BY <2>1, InCall
  <2>3. Last >= 1
    BY <2>2 DEF In
  <2> QED
    BY <2>1, <2>2, <2>3 DEF PlaceOfCall
<1>2. arg[r] = LastOp[2]
  BY <1>1 DEF Calling, SameArg
<1>3. CASE r = Root
  BY <1>1, <1>2, <1>3 DEF Bcast
<1>4. CASE r # Root
  <2>1. "ompio" \in Comms
    BY DEF Comms
  <2>2. Taken(r, "ompio") = 0 /\ Taken(Root, "ompio") \in 0..2
    BY <1>1, <2>1, TakenType DEF Taken
  <2>3. Len(met[r]["ompio"]) = b /\ Len(met[Root]["ompio"]) = b + Taken(Root, "ompio")
    BY <1>1, <2>2 DEF Aligned
  <2>4. Taken(Root, "ompio") >= 1
    BY <1>4, <2>2, <2>3 DEF CanBcast
  <2>5. met[Root]["ompio"][b + 1].value = LastOp[2]
    BY <1>1, <2>4 DEF FirstIsArg, LastIs
  <2> QED
    BY <1>1, <1>2, <1>4, <2>3, <2>5 DEF Bcast
<1> QED
  BY <1>3, <1>4

\* Where a step in a call leads.
StepLeads(r) ==
  \/ /\ pc[r] = "bcast" /\ pc'[r] \in {"size", "resize", "atomicity"} /\ UNCHANGED results
     /\ met'[r]["ompio"] = Append(met[r]["ompio"], [call |-> Last, value |-> LastOp[2]])
     /\ met'[r]["file"] = met[r]["file"]
     /\ pc'[r] = "size" => LastIs("preallocate")
     /\ pc'[r] = "resize" => LastIs("set_size")
     /\ pc'[r] = "atomicity" => LastIs("set_atomicity")
  \/ /\ pc[r] \in {"size", "copy"} /\ pc'[r] \in {"copy", "result"} /\ LastIs("preallocate")
     /\ UNCHANGED <<results, met>>
     /\ pc[r] = "size" => ~TooLarge(r) /\ LastOp[3] = {}
  \/ /\ pc[r] = "size" /\ Return(r, TRUE) /\ LastIs("preallocate") /\ UNCHANGED met
     /\ pc'[r] = "idle" /\ TooLarge(r) /\ LastOp[3] = {}
  \/ /\ pc[r] = "size" /\ Return(r, FALSE) /\ LastIs("preallocate") /\ UNCHANGED met
     /\ pc'[r] = "idle" /\ LastOp[3] # {}
  \/ /\ pc[r] = "result" /\ pc'[r] = "resize" /\ LastIs("preallocate") /\ UNCHANGED results
     /\ met'[r]["file"] = Append(met[r]["file"], [call |-> Last, value |-> Shared(r)])
     /\ met'[r]["ompio"] = met[r]["ompio"] /\ CanBcast(r, "file") /\ ret'[r] = Shared(r)
  \/ /\ pc[r] = "resize" /\ pc'[r] = "idle" /\ LastIs("preallocate") /\ Return(r, ret[r])
     /\ UNCHANGED met
  \/ /\ pc[r] = "resize" /\ pc'[r] = "barrier" /\ LastIs("set_size") /\ UNCHANGED results
     /\ met'[r]["ompio"] = Append(met[r]["ompio"], [call |-> Last, value |-> 0])
     /\ met'[r]["file"] = met[r]["file"]
  \/ /\ pc[r] = "resize" /\ pc'[r] = "idle" /\ LastIs("set_size") /\ Return(r, FALSE)
     /\ UNCHANGED met
  \/ /\ pc[r] = "atomicity" /\ pc'[r] = "idle" /\ LastIs("set_atomicity")
     /\ (\E atomic \in BOOLEAN : Return(r, atomic)) /\ UNCHANGED met
  \/ /\ pc[r] = "barrier" /\ pc'[r] = "idle" /\ LastIs("set_size") /\ Return(r, TRUE)
     /\ UNCHANGED met
  \/ /\ pc[r] = "barrier" /\ pc'[r] = "sync" /\ LastIs("sync") /\ UNCHANGED <<results, met>>
  \/ /\ pc[r] = "sync" /\ pc'[r] = "idle" /\ LastIs("sync")
     /\ (\E b \in BOOLEAN : Return(r, b)) /\ UNCHANGED met

LEMMA WhereStepLeads ==
  ASSUME TInv, Calling, Meeting, NEW r \in Ranks, Step(r)
  PROVE  StepLeads(r) /\ In(r) /\ LastOp' = LastOp /\ Last' = Last
         /\ UNCHANGED <<script, calls, arg>> /\ pc[r] # "idle"
<1>1. UNCHANGED <<script, calls, arg>> /\ pc[r] # "idle"
  BY StepMeeting
<1>2. /\ In(r) /\ Op(r) = LastOp[1] /\ Last >= 1 /\ calls[r] = Last /\ PlaceOfCall(r)
      /\ pc \in [Ranks -> Places] /\ ret \in [Ranks -> BOOLEAN]
  BY <1>1, InCall DEF Calling, TInv, TypeOK
<1>3. LastOp' = LastOp /\ Last' = Last
  BY <1>1 DEF LastOp, Last
<1>4. ASSUME NEW place, Goto(r, place) PROVE pc'[r] = place
  BY <1>2, <1>4 DEF Goto
<1>5. ASSUME NEW x, Return(r, x) PROVE pc'[r] = "idle"
  BY <1>4, <1>5 DEF Return
<1>6. ASSUME NEW c \in Comms, NEW v, Meet(r, c, v)
      PROVE  /\ met'[r][c] = Append(met[r][c], [call |-> Last, value |-> v])
             /\ \A d \in Comms : d # c => met'[r][d] = met[r][d]
  <2>1. met = [q \in Ranks |-> met[q]] /\ met[r] = [d \in Comms |-> met[r][d]]
    BY DEF TInv, MetFcn
  <2>2. met'[r] = [met[r] EXCEPT ![c] = Append(met[r][c], [call |-> Last, value |-> v])]
    BY <1>2, <1>6, <2>1 DEF Meet
  <2> QED
    BY <2>1, <2>2
<1>7. CASE Agree(r)
  <2>1. pc[r] = "bcast" /\ CanBcast(r, "ompio")
    BY <1>7 DEF Agree
  <2>2. PICK b \in Nat : Aligned("ompio", b) /\ FirstIsArg(b)
    BY DEF Meeting
  <2>3. /\ Bcast(r, "ompio", arg[r]) = arg[r] /\ arg[r] = LastOp[2]
        /\ Op(r) \in {"preallocate", "set_size", "set_atomicity"}
    BY <2>1, <2>2, BcastArg
  <2> DEFINE place == CASE Op(r) = "preallocate" -> "size"
                        [] Op(r) = "set_size" -> "resize"
                        [] Op(r) = "set_atomicity" -> "atomicity"
  <2>4. Goto(r, place) /\ UNCHANGED results /\ Meet(r, "ompio", LastOp[2])
    BY <1>7, <2>3 DEF Agree
  <2>5. /\ place \in {"size", "resize", "atomicity"}
        /\ place = "size" => Op(r) = "preallocate"
        /\ place = "resize" => Op(r) = "set_size"
        /\ place = "atomicity" => Op(r) = "set_atomicity"
    BY <2>3
  <2> HIDE DEF place
  <2>6. pc'[r] = place
    BY <1>4, <2>4
  <2>7. /\ met'[r]["ompio"] = Append(met[r]["ompio"], [call |-> Last, value |-> LastOp[2]])
        /\ met'[r]["file"] = met[r]["file"]
    BY <1>6, <2>4 DEF Comms
  <2> QED
    BY <1>1, <1>2, <1>3, <2>1, <2>4, <2>5, <2>6, <2>7 DEF StepLeads, LastIs
<1>17. SizeRefused(r) <=> LastOp[3] # {}
  BY <1>2 DEF Calling, SameRefusal, SizeRefused, LastOp, Last
<1>18. CASE GetSizeFails(r)
  <2>1. /\ pc[r] = "size" /\ UNCHANGED met /\ LastIs("preallocate") /\ LastOp[3] # {}
        /\ Return(r, FALSE)
    BY <1>2, <1>17, <1>18 DEF GetSizeFails, PlaceOfCall, LastIs
  <2> QED
    BY <1>1, <1>2, <1>3, <1>5, <2>1 DEF StepLeads
<1>8. CASE GetSize(r)
  <2>1. pc[r] = "size" /\ UNCHANGED met /\ LastIs("preallocate") /\ LastOp[3] = {}
    BY <1>2, <1>8, <1>17 DEF GetSize, PlaceOfCall, LastIs
  <2>2. CASE TooLarge(r)
    <3>1. Return(r, TRUE)
      BY <1>8, <2>2 DEF GetSize
    <3> QED
      BY <1>1, <1>2, <1>3, <1>5, <2>1, <2>2, <3>1 DEF StepLeads
  <2>3. CASE ~TooLarge(r)
    <3>1. \E place \in {"copy", "result"} : Goto(r, place) /\ UNCHANGED results
      BY <1>8, <2>3 DEF GetSize
    <3>2. pc'[r] \in {"copy", "result"} /\ UNCHANGED results
      BY <1>4, <3>1
    <3> QED
      BY <1>1, <1>2, <1>3, <2>1, <2>3, <3>2 DEF StepLeads
  <2> QED
    BY <2>2, <2>3
<1>9. CASE CopyBack(r) \/ Extend(r) \/ Restore(r) \/ NoBuffer(r) \/ ReadFails(r) \/ WriteFails(r)
  <2>1. pc[r] = "copy" /\ UNCHANGED <<met, results>> /\ LastIs("preallocate")
    BY <1>2, <1>9 DEF CopyBack, Extend, Restore, Fails, NoBuffer, ReadFails, WriteFails,
                      PlaceOfCall, LastIs
  <2>2. pc' = pc \/ Goto(r, "result")
    BY <1>9 DEF CopyBack, Extend, Restore, Fails, NoBuffer, ReadFails, WriteFails, AfterFailure
  <2>3. pc'[r] \in {"copy", "result"}
    BY <1>4, <2>1, <2>2
  <2> QED
    BY <1>1, <1>2, <1>3, <2>1, <2>3 DEF StepLeads
<1>10. CASE ShareResult(r)
  <2>1. /\ pc[r] = "result" /\ Goto(r, "resize") /\ UNCHANGED results /\ CanBcast(r, "file")
        /\ Meet(r, "file", Shared(r)) /\ ret' = [ret EXCEPT ![r] = Shared(r)]
    BY <1>10 DEF ShareResult
  <2>2. pc'[r] = "resize" /\ ret'[r] = Shared(r) /\ LastIs("preallocate")
    BY <1>2, <1>4, <2>1 DEF PlaceOfCall, LastIs
  <2>3. /\ met'[r]["file"] = Append(met[r]["file"], [call |-> Last, value |-> Shared(r)])
        /\ met'[r]["ompio"] = met[r]["ompio"]
    BY <1>6, <2>1 DEF Comms
  <2> QED
    BY <1>1, <1>2, <1>3, <2>1, <2>2, <2>3 DEF StepLeads
<1>11. CASE EndPreallocate(r)
  <2>1. pc[r] = "resize" /\ Return(r, ret[r]) /\ UNCHANGED met /\ LastIs("preallocate")
    BY <1>2, <1>11 DEF EndPreallocate, LastIs
  <2> QED
    BY <1>1, <1>2, <1>3, <1>5, <2>1 DEF StepLeads
<1>12. CASE ResizeFile(r)
  <2>1. /\ pc[r] = "resize" /\ Goto(r, "barrier") /\ UNCHANGED results /\ Meet(r, "ompio", 0)
        /\ LastIs("set_size")
    BY <1>2, <1>12 DEF ResizeFile, LastIs
  <2>2. /\ met'[r]["ompio"] = Append(met[r]["ompio"], [call |-> Last, value |-> 0])
        /\ met'[r]["file"] = met[r]["file"] /\ pc'[r] = "barrier"
    BY <1>4, <1>6, <2>1 DEF Comms
  <2> QED
    BY <1>1, <1>2, <1>3, <2>1, <2>2 DEF StepLeads
<1>13. CASE ResizeFails(r)
  <2>1. pc[r] = "resize" /\ Return(r, FALSE) /\ UNCHANGED met /\ LastIs("set_size")
    BY <1>2, <1>13 DEF ResizeFails, LastIs
  <2> QED
    BY <1>1, <1>2, <1>3, <1>5, <2>1 DEF StepLeads
<1>14. CASE EndAtomicity(r)
  <2>1. /\ pc[r] = "atomicity" /\ UNCHANGED met /\ LastIs("set_atomicity")
        /\ \E atomic \in BOOLEAN : Return(r, atomic)
    BY <1>2, <1>14 DEF EndAtomicity, PlaceOfCall, LastIs
  <2>2. pc'[r] = "idle"
    BY <1>5, <2>1
  <2> QED
    BY <1>1, <1>2, <1>3, <2>1, <2>2 DEF StepLeads
<1>15. CASE LeaveBarrier(r)
  <2>1. pc[r] = "barrier" /\ UNCHANGED met /\ Op(r) \in {"set_size", "sync"}
    BY <1>2, <1>15 DEF LeaveBarrier, PlaceOfCall
  <2>2. CASE Op(r) = "sync"
    <3>1. Goto(r, "sync") /\ UNCHANGED results
      BY <1>15, <2>2 DEF LeaveBarrier
    <3> QED
      BY <1>1, <1>2, <1>3, <1>4, <2>1, <2>2, <3>1 DEF StepLeads, LastIs
  <2>3. CASE Op(r) = "set_size"
    <3>1. Return(r, TRUE)
      BY <1>15, <2>3 DEF LeaveBarrier
    <3> QED
      BY <1>1, <1>2, <1>3, <1>5, <2>1, <2>3, <3>1 DEF StepLeads, LastIs
  <2> QED
    BY <2>1, <2>2, <2>3
<1>16. CASE EndSync(r)
  <2>1. /\ pc[r] = "sync" /\ UNCHANGED met /\ LastIs("sync")
        /\ \E b \in BOOLEAN : Return(r, b)
    BY <1>2, <1>16 DEF EndSync, PlaceOfCall, LastIs
  <2> QED
    BY <1>1, <1>2, <1>3, <1>5, <2>1 DEF StepLeads
<1> QED
  BY <1>7, <1>8, <1>9, <1>10, <1>11, <1>12, <1>13, <1>14, <1>15, <1>16, <1>18 DEF Step

LEMMA LastResult ==
  ASSUME TInv, Apart, NEW r \in Ranks, NEW x \in BOOLEAN, pc[r] # "idle", Return(r, x)
  PROVE  results'[r][Last] = x /\ Len(results'[r]) = Last
<1>1. results[r] \in Seq(BOOLEAN) /\ Len(results[r]) = Last - 1 /\ Last \in Nat
  BY InCall DEF TInv, TypeOK, Last
<1>2. results'[r] = Append(results[r], x)
  BY DEF TInv, TypeOK, Return
<1> QED
  BY <1>1, <1>2

LEMMA OmpioTaken ==
  ASSUME TInv, Calling, Meeting, NEW r \in Ranks, Step(r)
  PROVE  /\ \A q \in Ranks : q # r => Taken(q, "ompio")' = Taken(q, "ompio")
         /\ \/ met'[r]["ompio"] = met[r]["ompio"] /\ Taken(r, "ompio")' = Taken(r, "ompio")
            \/ /\ met'[r]["ompio"] = Append(met[r]["ompio"], [call |-> Last, value |-> LastOp[2]])
               /\ Taken(r, "ompio") = 0 /\ Taken(r, "ompio")' = 1
            \/ /\ met'[r]["ompio"] = Append(met[r]["ompio"], [call |-> Last, value |-> 0])
               /\ Taken(r, "ompio") = 1 /\ Taken(r, "ompio")' = 2
<1>1. /\ StepLeads(r) /\ In(r) /\ LastOp' = LastOp /\ Last' = Last
      /\ UNCHANGED <<script, calls, arg>> /\ pc[r] # "idle"
  BY WhereStepLeads
<1>2. \A q \in Ranks : In(q)' = In(q) /\ \A op : LastIs(op)' = LastIs(op)
  BY <1>1 DEF In, LastIs
<1>3. ASSUME NEW q \in Ranks, q # r PROVE Taken(q, "ompio")' = Taken(q, "ompio")
  BY <1>1, <1>2, <1>3, OthersKept DEF Taken
<1>4. \A x \in BOOLEAN : Return(r, x) => results'[r][Last] = x
  BY <1>1, LastResult DEF Calling
<1>5. SyncRefuses /\ Apart
  BY DEF Calling
<1>6. CASE pc[r] = "bcast"
  <2>1. /\ Taken(r, "ompio") = 0 /\ pc'[r] \in {"size", "resize", "atomicity"}
        /\ met'[r]["ompio"] = Append(met[r]["ompio"], [call |-> Last, value |-> LastOp[2]])
    BY <1>1, <1>6 DEF StepLeads, Taken
  <2>2. Taken(r, "ompio")' = 1
    BY <1>1, <1>2, <2>1 DEF Taken
  <2> QED
    BY <1>3, <2>1, <2>2
<1>7. CASE \/ pc[r] \in {"size", "copy", "result", "atomicity"}
           \/ pc[r] = "resize" /\ LastIs("preallocate")
  <2>1. /\ LastIs("preallocate") \/ LastIs("set_atomicity")
        /\ pc'[r] \in {"copy", "result", "resize", "idle"}
    BY <1>1, <1>7 DEF StepLeads, LastIs
  <2>2. Taken(r, "ompio") = 1 /\ Taken(r, "ompio")' = 1
    BY <1>1, <1>2, <1>7, <2>1 DEF Taken, LastIs
  <2>3. met'[r]["ompio"] = met[r]["ompio"]
    BY <1>1, <1>7 DEF StepLeads, LastIs
  <2> QED
    BY <1>3, <2>2, <2>3
<1>8. CASE pc[r] = "resize" /\ LastIs("set_size")
  <2>1. Taken(r, "ompio") = 1
    BY <1>1, <1>8 DEF Taken, LastIs
  <2>2. CASE pc'[r] = "barrier"
    <3>1. met'[r]["ompio"] = Append(met[r]["ompio"], [call |-> Last, value |-> 0])
      BY <1>1, <1>8, <2>2 DEF StepLeads, LastIs
    <3>2. Taken(r, "ompio")' = 2
      BY <1>1, <1>2, <1>8, <2>2 DEF Taken, LastIs
    <3> QED
      BY <1>3, <2>1, <3>1, <3>2
  <2>3. CASE pc'[r] # "barrier"
    <3>1. pc'[r] = "idle" /\ Return(r, FALSE) /\ UNCHANGED met
      BY <1>1, <1>8, <2>3 DEF StepLeads, LastIs
    <3>2. Taken(r, "ompio")' = 1
      BY <1>1, <1>2, <1>4, <1>8, <3>1 DEF Taken, LastIs
    <3> QED
      BY <1>3, <2>1, <3>1, <3>2
  <2> QED
    BY <2>2, <2>3
<1>9. CASE pc[r] = "barrier"
  <2>1. CASE LastIs("set_size")
    <3>1. pc'[r] = "idle" /\ Return(r, TRUE) /\ UNCHANGED met
      BY <1>1, <1>9, <2>1 DEF StepLeads, LastIs
    <3>2. Taken(r, "ompio") = 2 /\ Taken(r, "ompio")' = 2
      BY <1>1, <1>2, <1>4, <1>9, <2>1, <3>1 DEF Taken, LastIs
    <3> QED
      BY <1>3, <3>1, <3>2
  <2>2. CASE ~LastIs("set_size")
    <3>1. pc'[r] = "sync" /\ UNCHANGED met
      BY <1>1, <1>9, <2>2 DEF StepLeads
    <3>2. Taken(r, "ompio") = 1 /\ Taken(r, "ompio")' = 1
      BY <1>1, <1>2, <1>9, <2>2, <3>1 DEF Taken
    <3> QED
      BY <1>3, <3>1, <3>2
  <2> QED
    BY <2>1, <2>2
<1>10. CASE pc[r] = "sync"
  <2>1. pc'[r] = "idle" /\ LastIs("sync") /\ UNCHANGED met
    BY <1>1, <1>10 DEF StepLeads
  <2>2. LastOp[2] = 0
    BY <1>1, <1>5, <1>10, <2>1 DEF SyncRefuses
  <2>3. Taken(r, "ompio") = 1 /\ Taken(r, "ompio")' = 1
    BY <1>1, <1>2, <1>10, <2>1, <2>2 DEF Taken, LastIs
  <2> QED
    BY <1>3, <2>1, <2>3
<1> QED
  BY <1>1, <1>6, <1>7, <1>8, <1>9, <1>10 DEF StepLeads

LEMMA OmpioStep ==
  ASSUME TInv, Calling, Meeting, NEW r \in Ranks, Step(r),
         NEW b \in Nat, Aligned("ompio", b), FirstIsArg(b)
  PROVE  (Aligned("ompio", b) /\ FirstIsArg(b))'
<1>1. /\ \A q \in Ranks : q # r => Taken(q, "ompio")' = Taken(q, "ompio")
      /\ \/ met'[r]["ompio"] = met[r]["ompio"] /\ Taken(r, "ompio")' = Taken(r, "ompio")
         \/ /\ met'[r]["ompio"] = Append(met[r]["ompio"], [call |-> Last, value |-> LastOp[2]])
            /\ Taken(r, "ompio") = 0 /\ Taken(r, "ompio")' = 1
         \/ /\ met'[r]["ompio"] = Append(met[r]["ompio"], [call |-> Last, value |-> 0])
            /\ Taken(r, "ompio") = 1 /\ Taken(r, "ompio")' = 2
  BY OmpioTaken
<1>2. /\ UNCHANGED script /\ LastOp' = LastOp /\ Last' = Last /\ Last \in 1..MaxCalls
      /\ \A q \in Ranks : q # r => met'[q] = met[q]
  BY WhereStepLeads, InCall, OthersKept DEF Calling
<1>3. /\ "ompio" \in Comms /\ 0 \in Sizes /\ LastOp[2] \in Sizes /\ MaxSize \in Nat
  <2>1. script \in Seq(Entries) /\ Last \in 1..Len(script)
    BY <1>2 DEF TInv, TypeOK, Last
  <2>2. LastOp \in Entries
    BY <2>1 DEF LastOp, Last
  <2> QED
    BY <2>2, CollectivesAssumption DEF Entries, Comms, Sizes, CollectivesAssumption
<1>4. \A v \in Sizes : [call |-> Last, value |-> v] \in Meetings("ompio")
  BY <1>2 DEF Meetings
<1>5. Aligned("ompio", b)'
  <2>1. \/ met'[r]["ompio"] = met[r]["ompio"] /\ Taken(r, "ompio")' = Taken(r, "ompio")
        \/ \E m \in Meetings("ompio") : /\ m.call = Last
                                        /\ met'[r]["ompio"] = Append(met[r]["ompio"], m)
                                        /\ Taken(r, "ompio")' = Taken(r, "ompio") + 1
    BY <1>1, <1>3, <1>4
  <2> QED
    BY <1>1, <1>2, <1>3, <2>1, AlignedStep
<1>6. FirstIsArg(b)'
  <2> SUFFICES ASSUME ~LastIs("sync"), NEW q \in Ranks, Taken(q, "ompio")' >= 1
               PROVE  met'[q]["ompio"][b + 1].value = LastOp[2]
    BY <1>2 DEF FirstIsArg, LastIs
  <2>1. Taken(q, "ompio") >= 1 => met[q]["ompio"][b + 1].value = LastOp[2]
    BY DEF FirstIsArg
  <2>2. CASE met'[q]["ompio"] = met[q]["ompio"] /\ Taken(q, "ompio")' = Taken(q, "ompio")
    BY <2>1, <2>2
  <2>3. met[q]["ompio"] \in Seq(Meetings("ompio")) /\ Len(met[q]["ompio"]) = b + Taken(q, "ompio")
    BY <1>3 DEF TInv, TypeOK, Aligned
  <2>4. CASE /\ met'[q]["ompio"] = Append(met[q]["ompio"], [call |-> Last, value |-> LastOp[2]])
             /\ Taken(q, "ompio") = 0
    <3> DEFINE m == [call |-> Last, value |-> LastOp[2]]
    <3>1. m.value = LastOp[2] /\ m \in Meetings("ompio")
      BY <1>3, <1>4
    <3>2. met'[q]["ompio"] = Append(met[q]["ompio"], m) /\ Len(met[q]["ompio"]) = b
      BY <2>3, <2>4
    <3> HIDE DEF m
    <3>3. met'[q]["ompio"][b + 1] = m
      BY <2>3, <3>1, <3>2
    <3> QED
      BY <3>1, <3>3
  <2>5. CASE /\ met'[q]["ompio"] = Append(met[q]["ompio"], [call |-> Last, value |-> 0])
             /\ Taken(q, "ompio") = 1
    <3>1. met'[q]["ompio"][b + 1] = met[q]["ompio"][b + 1]
      BY <1>3, <1>4, <2>3, <2>5
    <3>2. Taken(q, "ompio") >= 1
      BY <2>5
    <3>3. met[q]["ompio"][b + 1].value = LastOp[2]
      BY <2>1, <3>2
    <3> QED
      BY <3>1, <3>3
  <2>6. CASE q # r
    <3>1. met'[q]["ompio"] = met[q]["ompio"] /\ Taken(q, "ompio")' = Taken(q, "ompio")
      BY <1>1, <1>2, <2>6
    <3> QED
      BY <2>2, <3>1
  <2>7. CASE q = r
    BY <1>1, <2>2, <2>4, <2>5, <2>7
  <2> QED
    BY <2>6, <2>7
<1> QED
  BY <1>5, <1>6
-----------------------------------------------------------------------------
(* The call: its argument, its outcome and the file.                       *)

\* While preallocate does not make the file longer than it was asked for, the
\* file stays too large or stays small enough.
LEMMA SameClass ==
  ASSUME TInv, TInv', Calling, NEW r \in Ranks, Step(r), In(r), Op(r) = LastOp[1],
         ~outgrown', LastIs("preallocate")
  PROVE  ~outgrown /\ (Len(data'[Dest]) <= LastOp[2] <=> Len(data[Dest]) <= LastOp[2])
<1>1. ~outgrown
  BY DEF Step, Agree, GetSize, GetSizeFails, CopyBack, Extend, Restore, Fails,
         NoBuffer, ReadFails, WriteFails, ShareResult, EndPreallocate,
         ResizeFile, ResizeFails, EndAtomicity, LeaveBarrier, EndSync, Outgrown
<1>2. /\ File(r) = Dest /\ arg[r] = LastOp[2] /\ arg[r] \in Nat
      /\ data[Dest] \in Seq(Int) /\ data'[Dest] \in Seq(Int)
      /\ data \in [Ranks \cup {Dest} -> Seq(Int)]
  <2>1. File(r) = Dest /\ arg[r] = LastOp[2]
    BY DEF Calling, NeverActive, SameArg, File
  <2>2. arg[r] \in Sizes /\ MaxSize \in Nat
    BY CollectivesAssumption DEF TInv, TypeOK, CollectivesAssumption
  <2>3. arg[r] \in Nat
    BY <2>2 DEF Sizes
  <2>4. /\ data[Dest] \in Seq(Int) /\ data'[Dest] \in Seq(Int)
        /\ data \in [Ranks \cup {Dest} -> Seq(Int)]
    BY DEF TInv, TypeOK
  <2> QED
    BY <2>1, <2>3, <2>4
<1>3. CASE UNCHANGED data
  BY <1>1, <1>3
<1>4. CASE CopyBack(r) \/ Extend(r) \/ WriteFails(r)
  <2>1. pc[r] = "copy" /\ outgrown' = Outgrown(r)
    BY <1>4 DEF CopyBack, Extend, WriteFails, Fails
  <2>2. Len(data[Dest]) <= LastOp[2]
    BY <1>1, <2>1 DEF Calling, SmallFile
  <2>3. ~(Len(data'[Dest]) > LastOp[2])
    BY <1>2, <2>1 DEF Outgrown
  <2>4. Len(data'[Dest]) \in Nat /\ LastOp[2] \in Nat
    BY <1>2
  <2> QED
    BY <1>1, <2>2, <2>3, <2>4
<1>5. CASE EndPreallocate(r)
  <2>1. CASE Resize(r)
    <3>1. pc[r] = "resize"
      BY <1>5 DEF EndPreallocate
    <3>2. Len(data[Dest]) <= LastOp[2]
      BY <1>1, <3>1 DEF Calling, SmallFile
    <3>3. data'[Dest] = Resized(data[Dest], arg[r])
      BY <1>2, <2>1 DEF Resize
    <3>4. Len(data'[Dest]) = LastOp[2] /\ LastOp[2] \in Nat
      BY <1>2, <3>3, ResizedType
    <3> QED
      BY <1>1, <3>2, <3>4
  <2> QED
    BY <1>3, <1>5, <2>1 DEF EndPreallocate
<1>6. CASE ResizeFile(r)
  BY <1>6 DEF ResizeFile, LastIs
<1> QED
  BY <1>3, <1>4, <1>5, <1>6 DEF Step, Agree, GetSize, GetSizeFails, Restore, Fails, NoBuffer, ReadFails,
     ShareResult,
     ResizeFails, EndAtomicity, LeaveBarrier, EndSync

LEMMA CallingStep ==
  ASSUME Alike, TInv, TInv', Calling, Meeting, NEW r \in Ranks, Step(r)
  PROVE  Calling'
<1>1. /\ StepLeads(r) /\ In(r) /\ LastOp' = LastOp /\ Last' = Last
      /\ UNCHANGED <<script, calls, arg>> /\ pc[r] # "idle"
  BY WhereStepLeads
<1>2. /\ calls[r] = Last /\ Last \in Nat /\ Len(results[r]) = Last - 1 /\ Op(r) = LastOp[1]
      /\ \A x \in BOOLEAN : Return(r, x) =>
           results'[r][Last] = x /\ Len(results'[r]) = Last /\ results'[r] \in Seq(BOOLEAN)
      /\ results[r] \in Seq(BOOLEAN)
  BY <1>1, InCall, LastResult DEF Calling, TInv, TypeOK
<1>3. \A q \in Ranks : q # r => /\ pc'[q] = pc[q] /\ results'[q] = results[q]
                                /\ state'[q] = state[q]
  BY OthersKept
<1>4. \A q \in Ranks : In(q)' = In(q) /\ \A op : LastIs(op)' = LastIs(op)
  BY <1>1 DEF In, LastIs
<1>5. NeverActive'
  <2>1. state' = state \/ \E x \in {"FALLBACK", state[r]} : state' = [state EXCEPT ![r] = x]
    BY DEF Step, Agree, GetSize, GetSizeFails, CopyBack, Extend, Restore, Fails,
         NoBuffer, ReadFails, WriteFails, ShareResult, EndPreallocate,
           ResizeFile, ResizeFails, EndAtomicity, LeaveBarrier, EndSync, Fallback
  <2>2. state'[r] # "ACTIVE"
    BY <2>1 DEF Calling, NeverActive, TInv, TypeOK
  <2> QED
    BY <1>3, <2>2 DEF Calling, NeverActive
<1>6. Apart'
  BY <1>1, <1>2, <1>3 DEF Calling, Apart
<1>7. SameArg'
  BY <1>1, <1>4 DEF Calling, SameArg
<1>8. SyncRefuses'
  <2>1. SyncRefuses
    BY DEF Calling
  <2>2. LastIs("sync") => LastOp[2] = 0
    BY <1>1, <2>1 DEF SyncRefuses
  <2> QED
    BY <1>1, <1>3, <1>4, <2>1, <2>2 DEF SyncRefuses
<1>9. OneOutcome'
  <2>1. OneOutcome
    BY DEF Calling
  <2> SUFFICES ASSUME LastIs("set_size"), NEW p \in Ranks, NEW q \in Ranks,
                      Failed(p, Last)', Succeeded(q, Last)'
               PROVE  FALSE
    BY <1>1, <1>4 DEF OneOutcome, Failed, Succeeded
  <2>2. /\ p # r => Failed(p, Last)
        /\ q # r => Succeeded(q, Last)
    BY <1>1, <1>3 DEF Failed, Succeeded
  <2>3. ASSUME ResizeFile(r) PROVE \A s \in Ranks : ~Failed(s, Last)
    BY <1>2, <2>3 DEF ResizeFile, Alike
  <2>4. ASSUME ResizeFails(r) PROVE \A s \in Ranks : ~Succeeded(s, Last)
    BY <1>2, <2>4 DEF ResizeFails, Alike
  <2>5. Last \notin DOMAIN results[r]
    BY <1>2
  <2>6. CASE pc[r] = "barrier"
    <3>1. Succeeded(r, Last)
      BY <1>2, <2>6 DEF Succeeded
    <3>2. results'[r][Last]
      BY <1>1, <1>2, <2>6 DEF StepLeads, LastIs
    <3>3. p # r
      BY <1>1, <3>2 DEF Failed
    <3> QED
      BY <2>1, <2>2, <3>1, <3>3 DEF OneOutcome
  <2>7. CASE pc[r] = "resize" /\ pc'[r] = "barrier"
    <3>1. ResizeFile(r)
      <4>1. pc'[r] # "idle" /\ UNCHANGED results
        BY <1>1, <2>7 DEF StepLeads
      <4> QED
        BY <1>1, <1>2, <2>7, <4>1, Returns
        DEF Step, Agree, GetSize, GetSizeFails, CopyBack, Extend, Restore, Fails,
         NoBuffer, ReadFails, WriteFails, ShareResult,
            EndPreallocate, ResizeFails, EndAtomicity, LeaveBarrier, EndSync, LastIs
    <3>2. p # r
      BY <1>1, <2>5, <2>7 DEF StepLeads, Failed
    <3> QED
      BY <2>2, <2>3, <3>1, <3>2
  <2>8. CASE pc[r] = "resize" /\ pc'[r] # "barrier"
    <3>1. pc'[r] = "idle" /\ Return(r, FALSE)
      BY <1>1, <2>8 DEF StepLeads, LastIs
    <3>2. ResizeFails(r)
      <4>1. ~ResizeFile(r)
        BY <2>8 DEF ResizeFile, Goto, TInv, TypeOK
      <4> QED
        BY <1>2, <2>8, <4>1
        DEF Step, Agree, GetSize, GetSizeFails, CopyBack, Extend, Restore, Fails,
         NoBuffer, ReadFails, WriteFails, ShareResult,
            EndPreallocate, EndAtomicity, LeaveBarrier, EndSync, LastIs
    <3>3. ~results'[r][Last]
      BY <1>2, <3>1
    <3>4. q # r
      BY <1>1, <3>1, <3>3 DEF Succeeded
    <3> QED
      BY <2>2, <2>4, <3>2, <3>4
  <2>9. CASE pc[r] = "bcast"
    <3>1. pc'[r] # "barrier" /\ UNCHANGED results
      BY <1>1, <2>9 DEF StepLeads
    <3>2. p # r /\ q # r
      BY <1>1, <2>5, <3>1 DEF Failed, Succeeded
    <3> QED
      BY <2>1, <2>2, <3>2 DEF OneOutcome
  <2> QED
    BY <1>1, <2>6, <2>7, <2>8, <2>9 DEF StepLeads, LastIs
<1>10. SmallFile'
  <2> SUFFICES ASSUME ~outgrown', LastIs("preallocate"), NEW q \in Ranks, In(q)
               PROVE  /\ pc'[q] \in {"copy", "result", "resize"}
                           => LastOp[3] = {} /\ Len(data'[Dest]) <= LastOp[2]
                      /\ pc'[q] = "idle" /\ LastOp[3] = {} /\ Len(data'[Dest]) > LastOp[2]
                           => results'[q][Last]
                      /\ pc'[q] = "idle" /\ LastOp[3] # {} => ~results'[q][Last]
    BY <1>1, <1>4 DEF SmallFile
  <2>1. ~outgrown /\ (Len(data'[Dest]) <= LastOp[2] <=> Len(data[Dest]) <= LastOp[2])
    BY <1>1, <1>2, SameClass
  <2>2. /\ pc[q] \in {"copy", "result", "resize"}
             => LastOp[3] = {} /\ Len(data[Dest]) <= LastOp[2]
        /\ pc[q] = "idle" /\ LastOp[3] = {} /\ Len(data[Dest]) > LastOp[2] => results[q][Last]
        /\ pc[q] = "idle" /\ LastOp[3] # {} => ~results[q][Last]
    BY <2>1 DEF Calling, SmallFile
  <2>3. /\ Len(data[Dest]) \in Nat /\ Len(data'[Dest]) \in Nat /\ LastOp[2] \in Int
        /\ File(r) = Dest /\ arg[r] = LastOp[2]
    <3>1. data[Dest] \in Seq(Int) /\ data'[Dest] \in Seq(Int) /\ arg[r] \in Int
      BY CollectivesAssumption DEF TInv, TypeOK, Sizes, CollectivesAssumption
    <3>2. File(r) = Dest /\ arg[r] = LastOp[2]
      BY <1>1 DEF Calling, NeverActive, SameArg, File
    <3> QED
      BY <3>1, <3>2
  <2>4. CASE q # r
    BY <1>3, <2>1, <2>2, <2>3, <2>4
  <2>5. CASE q = r /\ pc[r] = "size"
    <3>1. pc'[r] = "idle" => IF LastOp[3] = {} THEN results'[r][Last] ELSE ~results'[r][Last]
      BY <1>1, <1>2, <2>5 DEF StepLeads
    <3>2. pc'[r] \in {"copy", "result", "resize"} => ~TooLarge(r) /\ LastOp[3] = {}
      BY <1>1, <2>5 DEF StepLeads
    <3>3. ~TooLarge(r) => Len(data[Dest]) <= LastOp[2]
      BY <2>3 DEF TooLarge
    <3> QED
      BY <2>1, <2>5, <3>1, <3>2, <3>3
  <2>6. CASE q = r /\ pc[r] \in {"copy", "result", "resize"}
    BY <2>1, <2>2, <2>3, <2>6
  <2>7. CASE q = r /\ pc[r] = "bcast"
    <3>1. pc'[r] = "size"
      BY <1>1, <2>7 DEF StepLeads, LastIs
    <3> QED
      BY <2>7, <3>1
  <2> QED
    BY <1>1, <2>4, <2>5, <2>6, <2>7 DEF StepLeads, LastIs
<1>11. SameRefusal'
  BY <1>1 DEF Calling, SameRefusal
<1> QED
  BY <1>5, <1>6, <1>7, <1>8, <1>9, <1>10, <1>11 DEF Calling
-----------------------------------------------------------------------------
(* The communicator of the file.                                           *)

LEMMA FileTaken ==
  ASSUME TInv, TInv', Calling, Meeting, NEW r \in Ranks, Step(r), ~outgrown'
  PROVE  /\ \A q \in Ranks : q # r => Taken(q, "file")' = Taken(q, "file")
         /\ \/ met'[r]["file"] = met[r]["file"] /\ Taken(r, "file")' = Taken(r, "file")
            \/ /\ met'[r]["file"] = Append(met[r]["file"], [call |-> Last, value |-> Shared(r)])
               /\ Taken(r, "file") = 0 /\ Taken(r, "file")' = 1 /\ LastIs("preallocate")
               /\ CanBcast(r, "file") /\ ret'[r] = Shared(r) /\ pc'[r] = "resize"
<1>1. /\ StepLeads(r) /\ In(r) /\ LastOp' = LastOp /\ Last' = Last
      /\ UNCHANGED <<script, calls, arg>> /\ pc[r] # "idle" /\ Op(r) = LastOp[1]
  BY WhereStepLeads, InCall DEF Calling
<1>2. \A q \in Ranks : In(q)' = In(q) /\ \A op : LastIs(op)' = LastIs(op)
  BY <1>1 DEF In, LastIs
<1>3. CASE ~LastIs("preallocate")
  <2>1. \A q \in Ranks : Taken(q, "file") = 0 /\ Taken(q, "file")' = 0
    BY <1>2, <1>3 DEF Taken
  <2>2. met'[r]["file"] = met[r]["file"]
    BY <1>1, <1>3 DEF StepLeads
  <2> QED
    BY <2>1, <2>2
<1>4. CASE LastIs("preallocate")
  <2>1. ~outgrown /\ (Len(data'[Dest]) <= LastOp[2] <=> Len(data[Dest]) <= LastOp[2])
    BY <1>1, <1>4, SameClass
  <2>2. ASSUME NEW q \in Ranks, q # r PROVE Taken(q, "file")' = Taken(q, "file")
    BY <1>1, <1>2, <2>1, <2>2, OthersKept DEF Taken
  <2>3. /\ File(r) = Dest /\ arg[r] = LastOp[2]
        /\ Len(data[Dest]) > arg[r] => ~(Len(data[Dest]) <= LastOp[2])
    <3>1. data[Dest] \in Seq(Int) /\ arg[r] \in Int
      BY CollectivesAssumption DEF TInv, TypeOK, Sizes, CollectivesAssumption
    <3>2. File(r) = Dest /\ arg[r] = LastOp[2]
      BY <1>1 DEF Calling, NeverActive, SameArg, File
    <3> QED
      BY <3>1, <3>2
  <2>4. CASE pc[r] \in {"bcast", "size", "copy"}
    <3>1. Taken(r, "file") = 0
      BY <1>1, <2>4 DEF Taken
    <3>2. /\ met'[r]["file"] = met[r]["file"]
          /\ pc'[r] # "resize" /\ (pc'[r] = "idle" => TooLarge(r) \/ LastOp[3] # {})
      BY <1>1, <1>4, <2>4 DEF StepLeads, LastIs
    <3>3. Taken(r, "file")' = 0
      BY <1>1, <1>2, <2>1, <2>3, <3>2 DEF Taken, TooLarge
    <3> QED
      BY <2>2, <3>1, <3>2, <3>3
  <2>5. CASE pc[r] = "result"
    <3>1. /\ pc'[r] = "resize" /\ CanBcast(r, "file") /\ ret'[r] = Shared(r)
          /\ met'[r]["file"] = Append(met[r]["file"], [call |-> Last, value |-> Shared(r)])
      BY <1>1, <2>5 DEF StepLeads
    <3>2. LastOp[3] = {}
      BY <1>1, <1>4, <2>1, <2>5 DEF Calling, SmallFile
    <3>3. Taken(r, "file") = 0 /\ Taken(r, "file")' = 1
      BY <1>1, <1>2, <1>4, <2>5, <3>1, <3>2 DEF Taken
    <3> QED
      BY <1>4, <2>2, <3>1, <3>3
  <2>6. CASE pc[r] = "resize"
    <3>1. met'[r]["file"] = met[r]["file"] /\ pc'[r] = "idle"
      BY <1>1, <1>4, <2>6 DEF StepLeads, LastIs
    <3>2. LastOp[3] = {} /\ Len(data[Dest]) <= LastOp[2]
      BY <1>1, <1>4, <2>1, <2>6 DEF Calling, SmallFile
    <3>3. Taken(r, "file") = 1 /\ Taken(r, "file")' = 1
      BY <1>1, <1>2, <1>4, <2>1, <2>6, <3>1, <3>2 DEF Taken
    <3> QED
      BY <2>2, <3>1, <3>3
  <2> QED
    BY <1>1, <1>4, <2>4, <2>5, <2>6 DEF StepLeads, LastIs
<1> QED
  BY <1>3, <1>4

LEMMA FileStep ==
  ASSUME TInv, TInv', Calling, Meeting, NEW r \in Ranks, Step(r), ~outgrown',
         NEW b \in Nat, Aligned("file", b), ResultIsShared(b)
  PROVE  (Aligned("file", b) /\ ResultIsShared(b))'
<1> DEFINE New == [call |-> Last, value |-> Shared(r)]
           Joins == /\ met'[r]["file"] = Append(met[r]["file"], New)
                    /\ Taken(r, "file") = 0 /\ Taken(r, "file")' = 1 /\ LastIs("preallocate")
                    /\ CanBcast(r, "file") /\ ret'[r] = Shared(r) /\ pc'[r] = "resize"
<1>1. /\ \A q \in Ranks : q # r => Taken(q, "file")' = Taken(q, "file")
      /\ \/ met'[r]["file"] = met[r]["file"] /\ Taken(r, "file")' = Taken(r, "file")
         \/ Joins
  BY FileTaken
<1>2. /\ UNCHANGED script /\ LastOp' = LastOp /\ Last' = Last /\ Last \in 1..MaxCalls
      /\ \A q \in Ranks : q # r => /\ met'[q] = met[q] /\ pc'[q] = pc[q]
                                   /\ ret'[q] = ret[q] /\ results'[q] = results[q]
      /\ Root \in Ranks /\ "file" \in Comms /\ StepLeads(r) /\ In(r) /\ pc[r] # "idle"
  BY WhereStepLeads, InCall, OthersKept, CollectivesAssumption
  DEF Calling, Comms, CollectivesAssumption
<1>3. /\ \A q \in Ranks : /\ met[q]["file"] \in Seq(Meetings("file"))
                          /\ Len(met[q]["file"]) = b + Taken(q, "file")
                          /\ Taken(q, "file") \in 0..2
  BY <1>2, TakenType DEF TInv, TypeOK, Aligned
<1>4. Joins => New \in Meetings("file") /\ New.value = Shared(r) /\ New.call = Last
  <2>1. ret[r] \in IF "file" = "file" THEN BOOLEAN ELSE Sizes
    BY DEF TInv, TypeOK
  <2>2. Joins => Shared(r) \in BOOLEAN
    <3>1. CanBcast(r, "file") => Bcast(r, "file", ret[r]) \in IF "file" = "file" THEN BOOLEAN ELSE Sizes
      BY <1>2, <2>1, BcastType
    <3> QED
      BY <3>1 DEF Shared
  <2> QED
    BY <1>2, <2>2 DEF Meetings
<1> HIDE DEF New
<1>5. Aligned("file", b)'
  <2>1. \/ met'[r]["file"] = met[r]["file"] /\ Taken(r, "file")' = Taken(r, "file")
        \/ \E m \in Meetings("file") : /\ m.call = Last
                                       /\ met'[r]["file"] = Append(met[r]["file"], m)
                                       /\ Taken(r, "file")' = Taken(r, "file") + 1
    BY <1>1, <1>4
  <2> QED
    BY <1>1, <1>2, <2>1, AlignedStep
<1>6. ResultIsShared(b)'
  <2> SUFFICES ASSUME LastIs("preallocate"), NEW q \in Ranks, Taken(q, "file")' >= 1
               PROVE  /\ Taken(Root, "file")' >= 1
                      /\ met'[Root]["file"][b + 1].value
                           = IF pc'[q] = "resize" THEN ret'[q] ELSE results'[q][Last]
    BY <1>2 DEF ResultIsShared, LastIs
  <2>1. Taken(Root, "file") >= 1 => /\ Taken(Root, "file")' >= 1
                                    /\ met'[Root]["file"][b + 1] = met[Root]["file"][b + 1]
    <3> SUFFICES ASSUME Taken(Root, "file") >= 1
                 PROVE  /\ Taken(Root, "file")' >= 1
                        /\ met'[Root]["file"][b + 1] = met[Root]["file"][b + 1]
      OBVIOUS
    <3>1. CASE r = Root
      <4>1. ~Joins
        BY <3>1
      <4>2. met'[r]["file"] = met[r]["file"] /\ Taken(r, "file")' = Taken(r, "file")
        BY <1>1, <4>1
      <4> QED
        BY <3>1, <4>2
    <3>2. CASE r # Root
      BY <1>1, <1>2, <3>2
    <3> QED
      BY <3>1, <3>2
  <2>2. ASSUME NEW s \in Ranks, Taken(s, "file") >= 1
        PROVE  /\ Taken(Root, "file") >= 1
               /\ met[Root]["file"][b + 1].value
                    = IF pc[s] = "resize" THEN ret[s] ELSE results[s][Last]
    BY <2>2 DEF ResultIsShared
  <2>3. CASE q # r
    <3>1. Taken(q, "file") >= 1
      BY <1>1, <2>3
    <3> QED
      BY <1>2, <2>1, <2>2, <2>3, <3>1
  <2>4. CASE q = r /\ Joins
    <3>1. CASE r = Root
      <4>1. met'[r]["file"][b + 1] = New
        BY <1>3, <1>4, <2>4
      <4> QED
        BY <1>4, <2>4, <3>1, <4>1
    <3>2. CASE r # Root
      <4>1. Len(met[Root]["file"]) > Len(met[r]["file"])
        BY <2>4, <3>2 DEF CanBcast
      <4>2. Len(met[r]["file"]) = b /\ Taken(Root, "file") >= 1
        BY <1>2, <1>3, <2>4, <4>1
      <4>3. Shared(r) = met[Root]["file"][b + 1].value
        BY <3>2, <4>2 DEF Shared, Bcast
      <4> QED
        BY <2>1, <2>4, <4>2, <4>3
    <3> QED
      BY <3>1, <3>2
  <2>5. CASE q = r /\ ~Joins
    <3>1. Taken(r, "file") >= 1
      BY <1>1, <2>5
    <3>2. pc[r] = "resize"
      BY <1>2, <3>1 DEF Taken
    <3>3. Return(r, ret[r]) /\ pc'[r] = "idle"
      BY <1>2, <3>2 DEF StepLeads, LastIs
    <3>4. results'[r][Last] = ret[r]
      BY <1>2, <3>3, LastResult DEF Calling, TInv, TypeOK
    <3>5. met[Root]["file"][b + 1].value = ret[r] /\ Taken(Root, "file") >= 1
      BY <2>2, <3>1, <3>2
    <3> QED
      BY <2>1, <2>5, <3>3, <3>4, <3>5
  <2> QED
    BY <2>3, <2>4, <2>5
<1> QED
  BY <1>5, <1>6
-----------------------------------------------------------------------------
(* Results.                                                                *)

LEMMA ResultIsLast ==
  ASSUME TInv, NEW r \in Ranks, Last \in DOMAIN results[r]
  PROVE  /\ In(r) /\ pc[r] = "idle" /\ results[r][Last] \in BOOLEAN
         /\ LastOp[1] \in {"preallocate", "set_size", "set_atomicity", "sync"}
<1>1. /\ results[r] \in Seq(BOOLEAN) /\ Last \in Nat /\ calls[r] \in 0..MaxCalls /\ calls[r] <= Last
      /\ Progress(r) /\ script \in Seq(Entries) /\ MaxCalls \in Nat
  BY CollectivesAssumption DEF TInv, TypeOK, Last, Progress, CollectivesAssumption
<1>2. Last \in 1..Len(results[r]) /\ results[r][Last] \in BOOLEAN
  BY <1>1
<1>3. In(r) /\ pc[r] = "idle"
  BY <1>1, <1>2 DEF Progress, In
<1>4. LastOp \in Entries
  BY <1>1, <1>2 DEF LastOp, Last
<1> QED
  BY <1>2, <1>3, <1>4, CollectivesAssumption DEF Entries, CollectivesAssumption, OpKinds

LastAgree ==
  ~outgrown /\ LastOp[1] \notin {"set_atomicity", "sync"} =>
    \A r, q \in Ranks : Last \in DOMAIN results[r] \cap DOMAIN results[q]
                        => results[r][Last] = results[q][Last]

\* What the invariant says of the last call's results.
LEMMA LastAgrees == TInv /\ Calling /\ Meeting => LastAgree
<1> SUFFICES ASSUME TInv, Calling, Meeting, ~outgrown,
                    LastOp[1] \notin {"set_atomicity", "sync"},
                    NEW r \in Ranks, NEW q \in Ranks,
                    Last \in DOMAIN results[r], Last \in DOMAIN results[q]
             PROVE  results[r][Last] = results[q][Last]
  BY DEF LastAgree
<1>1. /\ In(r) /\ pc[r] = "idle" /\ results[r][Last] \in BOOLEAN
      /\ In(q) /\ pc[q] = "idle" /\ results[q][Last] \in BOOLEAN /\ Last >= 1
      /\ LastOp[1] \in {"preallocate", "set_size"}
  BY ResultIsLast DEF In
<1>2. CASE LastIs("preallocate") /\ LastOp[3] # {}
  BY <1>1, <1>2 DEF Calling, SmallFile
<1>3. CASE LastIs("set_size")
  BY <1>1, <1>3 DEF Calling, OneOutcome, Failed, Succeeded
<1>4. CASE LastIs("preallocate") /\ LastOp[3] = {}
  <2>1. CASE Len(data[Dest]) <= LastOp[2]
    <3>1. Taken(r, "file") = 1 /\ Taken(q, "file") = 1
      BY <1>1, <1>4, <2>1 DEF Taken
    <3>2. PICK b \in Nat : ResultIsShared(b)
      BY DEF Meeting
    <3> QED
      BY <1>1, <1>4, <3>1, <3>2 DEF ResultIsShared
  <2>2. CASE ~(Len(data[Dest]) <= LastOp[2])
    <3>1. data[Dest] \in Seq(Int) /\ script \in Seq(Entries) /\ Last \in 1..Len(script)
          /\ MaxSize \in Nat
      BY <1>1, CollectivesAssumption DEF TInv, TypeOK, Last, CollectivesAssumption
    <3>2. LastOp[2] \in Int /\ Len(data[Dest]) \in Nat
      BY <3>1 DEF Entries, LastOp, Last, Sizes
    <3>3. Len(data[Dest]) > LastOp[2]
      BY <2>2, <3>2
    <3> QED
      BY <1>1, <1>4, <3>3 DEF Calling, SmallFile
  <2> QED
    BY <2>1, <2>2
<1> QED
  BY <1>1, <1>2, <1>3, <1>4 DEF LastIs

\* Earlier results stay.
LEMMA SameResultKept ==
  ASSUME SameResult, LastAgree', ~outgrown' => ~outgrown,
         \A r \in Ranks : \A k \in DOMAIN results'[r] :
           k # Last' => k \in DOMAIN results[r] /\ results'[r][k] = results[r][k]
                        /\ script'[k] = script[k]
  PROVE  SameResult'
<1> SUFFICES ASSUME ~outgrown', NEW r \in Ranks, NEW q \in Ranks,
                    NEW k \in DOMAIN results'[r] \cap DOMAIN results'[q],
                    script'[k][1] \notin {"set_atomicity", "sync"}
             PROVE  results'[r][k] = results'[q][k]
  BY DEF SameResult
<1>1. CASE k = Last'
  <2>1. LastOp'[1] \notin {"set_atomicity", "sync"}
    BY <1>1 DEF LastOp, Last
  <2>2. Last' \in DOMAIN results'[r] \cap DOMAIN results'[q]
    BY <1>1
  <2>3. results'[r][Last'] = results'[q][Last']
    BY <2>1, <2>2 DEF LastAgree
  <2> QED
    BY <1>1, <2>3
<1>2. CASE k # Last'
  BY <1>2 DEF SameResult
<1> QED
  BY <1>1, <1>2

LEMMA ResultsStep ==
  ASSUME TInv, Calling, Meeting, NEW r \in Ranks, Step(r)
  PROVE  /\ ~outgrown' => ~outgrown
         /\ \A q \in Ranks : \A k \in DOMAIN results'[q] :
              k # Last' => k \in DOMAIN results[q] /\ results'[q][k] = results[q][k]
                           /\ script'[k] = script[k]
<1>1. ~outgrown' => ~outgrown
  BY DEF Step, Agree, GetSize, GetSizeFails, CopyBack, Extend, Restore, Fails,
         NoBuffer, ReadFails, WriteFails, ShareResult, EndPreallocate,
         ResizeFile, ResizeFails, EndAtomicity, LeaveBarrier, EndSync, Outgrown
<1>2. /\ UNCHANGED script /\ Last' = Last /\ Last \in Nat
      /\ results[r] \in Seq(BOOLEAN) /\ Len(results[r]) = Last - 1
      /\ \A q \in Ranks : q # r => results'[q] = results[q]
  <2>1. UNCHANGED script /\ Last' = Last /\ pc[r] # "idle" /\ Apart
    BY WhereStepLeads DEF Calling
  <2>2. /\ Last \in Nat /\ results[r] \in Seq(BOOLEAN) /\ Len(results[r]) = Last - 1
    BY <2>1, InCall, CallsAndScript DEF Comms
  <2>3. \A q \in Ranks : q # r => results'[q] = results[q]
    BY OthersKept
  <2> QED
    BY <2>1, <2>2, <2>3
<1>3. results'[r] = results[r] \/ \E x \in BOOLEAN : results'[r] = Append(results[r], x)
  <2>1. UNCHANGED results \/ \E x \in BOOLEAN : Return(r, x)
    BY WhereStepLeads DEF StepLeads, TInv, TypeOK
  <2> QED
    BY <2>1 DEF Return, TInv, TypeOK
<1>4. ASSUME NEW k \in DOMAIN results'[r], k # Last
      PROVE  k \in DOMAIN results[r] /\ results'[r][k] = results[r][k]
  <2>1. CASE results'[r] = results[r]
    BY <1>4, <2>1
  <2>2. ASSUME NEW x \in BOOLEAN, results'[r] = Append(results[r], x)
        PROVE  k \in DOMAIN results[r] /\ results'[r][k] = results[r][k]
    <3>1. DOMAIN results'[r] = 1..Last /\ DOMAIN results[r] = 1..Last - 1
          /\ \A i \in 1..Last - 1 : results'[r][i] = results[r][i]
      BY <1>2, <2>2
    <3>2. k \in 1..Last - 1
      BY <1>2, <1>4, <3>1
    <3> QED
      BY <3>1, <3>2
  <2> QED
    BY <1>3, <2>1, <2>2
<1> QED
  BY <1>1, <1>2, <1>4
-----------------------------------------------------------------------------
(* A process begins a call: the last one, or, when all are quiet, a new one. *)

Joins(r) == Last >= 1 /\ calls[r] = Last - 1 /\ UNCHANGED script

\* Where the beginning of a call leads.
CallLeads(r) ==
  \/ /\ pc'[r] = "bcast" /\ UNCHANGED <<met, results>> /\ ~LastIs("sync")'
  \/ /\ pc'[r] = "barrier" /\ UNCHANGED results /\ LastIs("sync")' /\ LastOp'[2] = 0
     /\ met'[r]["ompio"] = Append(met[r]["ompio"], [call |-> Last', value |-> 0])
     /\ met'[r]["file"] = met[r]["file"]
  \/ /\ pc'[r] = "idle" /\ UNCHANGED met /\ LastIs("sync")' /\ LastOp'[2] = 1
     /\ results'[r] = Append(results[r], FALSE)

LEMMA CallBegins ==
  ASSUME Alike, TInv, TInv', Calling, NEW r \in Ranks, Call(r)
  PROVE  /\ CallLeads(r)
         /\ Joins(r) \/ (Quiet /\ Last' = Last + 1 /\ LastOp'[3] \in {{}, Ranks})
         /\ pc[r] = "idle" /\ In(r)' /\ arg'[r] = LastOp'[2] /\ Last' \in 1..MaxCalls
         /\ UNCHANGED <<state, data, outgrown>>
         /\ \A i \in 1..Last : script'[i] = script[i]
         /\ \A q \in Ranks : q # r =>
              /\ calls'[q] = calls[q] /\ pc'[q] = pc[q] /\ arg'[q] = arg[q]
              /\ results'[q] = results[q] /\ met'[q] = met[q]
<1>1. PICK op \in Ops, n \in Sizes :
        /\ Begins(r, op, n)
        /\ \/ /\ Goto(r, "bcast") /\ UNCHANGED <<met, results>>
              /\ op \in {"preallocate", "set_size", "set_atomicity"}
           \/ /\ Goto(r, "barrier") /\ UNCHANGED results /\ op = "sync" /\ n = 0
              /\ met' = [met EXCEPT ![r]["ompio"] = Append(@, [call |-> calls'[r], value |-> 0])]
           \/ /\ Return(r, FALSE) /\ UNCHANGED met /\ op = "sync" /\ n = 1
  BY CallFacts DEF Calling, NeverActive
<1>2. /\ script \in Seq(Entries) /\ calls \in [Ranks -> 0..MaxCalls] /\ MaxCalls \in Nat
      /\ pc \in [Ranks -> Places] /\ arg \in [Ranks -> Sizes] /\ results \in [Ranks -> Seq(BOOLEAN)]
      /\ Last \in Nat /\ calls[r] <= Last /\ calls[r] >= Last - 1
  <2>1. TypeOK /\ Progress(r) /\ Apart /\ MaxCalls \in Nat
    BY CollectivesAssumption DEF TInv, Calling, CollectivesAssumption
  <2>2. script \in Seq(Entries) /\ Last \in Nat
    BY <2>1 DEF TypeOK, Last
  <2>3. calls[r] <= Last /\ calls[r] >= Last - 1
    BY <2>1 DEF Progress, Apart, Last
  <2> QED
    BY <2>1, <2>2, <2>3 DEF TypeOK
<1>3. /\ script' \in Seq(Entries) /\ calls' \in [Ranks -> 0..MaxCalls]
      /\ calls'[r] = calls[r] + 1 /\ \A q \in Ranks : q # r => calls'[q] = calls[q]
      /\ \A i \in 1..Last : script'[i] = script[i]
      /\ calls'[r] \in 1..Last' /\ script'[calls'[r]][1] = op
  BY <1>1, BeginsFacts DEF Last
<1>4. /\ pc[r] = "idle" /\ UNCHANGED <<state, data, outgrown>> /\ arg' = [arg EXCEPT ![r] = n]
  BY <1>1 DEF Begins
<1>5. /\ Joins(r) \/ (Quiet /\ Last' = Last + 1 /\ script'[Last'][3] \in {{}, Ranks})
      /\ calls'[r] = Last' /\ script'[Last'][2] = n
  <2>1. CASE calls[r] < Last
    <3>1. UNCHANGED script /\ script[calls[r] + 1][2] = n
      BY <1>1, <2>1 DEF Begins, Last, Alike
    <3>2. calls[r] = Last - 1 /\ Last >= 1 /\ Last' = Last
      BY <1>2, <2>1, <3>1 DEF Last
    <3> QED
      BY <1>2, <1>3, <3>1, <3>2 DEF Joins
  <2>2. CASE ~(calls[r] < Last)
    <3>1. PICK lost \in Refusals(op) : Quiet /\ script' = Append(script, <<op, n, lost>>)
      BY <1>1, <2>2 DEF Begins, Last, Alike
    <3>0. lost \in {{}, Ranks}
      BY DEF Refusals, Alike
    <3>2. /\ <<op, n, lost>> \in Entries /\ Last' = Last + 1
          /\ script'[Last + 1] = <<op, n, lost>>
      BY <1>2, <3>0, <3>1 DEF Last, Entries
    <3>3. <<op, n, lost>>[2] = n /\ <<op, n, lost>>[3] = lost /\ calls[r] = Last
      BY <1>2, <2>2
    <3> QED
      BY <1>3, <3>0, <3>1, <3>2, <3>3
  <2> QED
    BY <2>1, <2>2
<1>6. /\ In(r)' /\ LastOp' = script'[Last'] /\ LastOp'[1] = op /\ LastOp'[2] = n
      /\ Last' \in 1..MaxCalls /\ arg'[r] = LastOp'[2]
      /\ \A x : LastIs(x)' <=> op = x
  <2>1. Last' \in Nat /\ Last' >= 1 /\ Last' \in 0..MaxCalls
    BY <1>2, <1>3, <1>5
  <2>2. LastOp' = script'[Last']
    BY DEF LastOp, Last
  <2> QED
    BY <1>2, <1>3, <1>4, <1>5, <2>1, <2>2 DEF In, LastIs
<1>7. CallLeads(r) /\ \A q \in Ranks : q # r => met'[q] = met[q]
  <2>1. \A place \in Places : Goto(r, place) => pc'[r] = place
    BY <1>2 DEF Goto
  <2>2. CASE Goto(r, "bcast") /\ UNCHANGED <<met, results>>
             /\ op \in {"preallocate", "set_size", "set_atomicity"}
    <3>1. pc'[r] = "bcast" /\ ~LastIs("sync")'
      BY <1>6, <2>1, <2>2 DEF Places
    <3> QED
      BY <2>2, <3>1 DEF CallLeads
  <2>3. CASE /\ Goto(r, "barrier") /\ UNCHANGED results /\ op = "sync" /\ n = 0
             /\ met' = [met EXCEPT ![r]["ompio"] = Append(@, [call |-> calls'[r], value |-> 0])]
    <3>1. met = [q \in Ranks |-> met[q]] /\ met[r] = [d \in Comms |-> met[r][d]]
      BY DEF TInv, MetFcn
    <3>2. /\ met'[r] = [met[r] EXCEPT !["ompio"] = Append(met[r]["ompio"], [call |-> Last', value |-> 0])]
          /\ \A q \in Ranks : q # r => met'[q] = met[q]
      BY <1>5, <2>3, <3>1
    <3>3. /\ met'[r]["ompio"] = Append(met[r]["ompio"], [call |-> Last', value |-> 0])
          /\ met'[r]["file"] = met[r]["file"]
      BY <3>1, <3>2 DEF Comms
    <3> QED
      BY <1>6, <2>1, <2>3, <3>2, <3>3 DEF CallLeads, Places
  <2>4. CASE Return(r, FALSE) /\ UNCHANGED met /\ op = "sync" /\ n = 1
    <3>1. pc'[r] = "idle" /\ results'[r] = Append(results[r], FALSE)
      BY <1>2, <2>1, <2>4 DEF Return, Places
    <3> QED
      BY <1>6, <2>4, <3>1 DEF CallLeads
  <2> QED
    BY <1>1, <2>2, <2>3, <2>4
<1>8. \A q \in Ranks : q # r => pc'[q] = pc[q] /\ arg'[q] = arg[q] /\ results'[q] = results[q]
  BY <1>1, <1>2, <1>4 DEF Goto, Return
<1> QED
  BY <1>3, <1>4, <1>5, <1>6, <1>7, <1>8

\* How many results there are.
LEMMA ResultsLength ==
  ASSUME TInv, NEW q \in Ranks
  PROVE  /\ results[q] \in Seq(BOOLEAN) /\ Len(results[q]) \in Nat
         /\ Len(results[q]) <= calls[q] /\ calls[q] <= Last
         /\ calls[q] \in Nat /\ Last \in Nat /\ DOMAIN results[q] = 1..Len(results[q])
         /\ pc[q] = "idle" => Len(results[q]) = calls[q]
<1>1. /\ results[q] \in Seq(BOOLEAN) /\ calls[q] \in 0..MaxCalls /\ script \in Seq(Entries)
      /\ MaxCalls \in Nat /\ Progress(q)
  BY CollectivesAssumption DEF TInv, TypeOK, CollectivesAssumption
<1> QED
  BY <1>1 DEF Progress, Last

LEMMA CallCalling ==
  ASSUME Alike, TInv, TInv', Calling, NEW r \in Ranks, Call(r)
  PROVE  Calling'
<1>1. /\ CallLeads(r)
      /\ Joins(r) \/ (Quiet /\ Last' = Last + 1 /\ LastOp'[3] \in {{}, Ranks})
      /\ pc[r] = "idle" /\ In(r)' /\ arg'[r] = LastOp'[2] /\ Last' \in 1..MaxCalls
      /\ UNCHANGED <<state, data, outgrown>>
      /\ \A q \in Ranks : q # r =>
           /\ calls'[q] = calls[q] /\ pc'[q] = pc[q] /\ arg'[q] = arg[q]
           /\ results'[q] = results[q] /\ met'[q] = met[q]
  BY CallBegins
<1>2. /\ Last \in Nat /\ calls'[r] = Last' /\ Last' \in Nat
      /\ \A q \in Ranks : /\ Len(results[q]) \in Nat /\ DOMAIN results[q] = 1..Len(results[q])
                          /\ calls[q] <= Last /\ calls[q] \in Nat /\ Len(results[q]) <= calls[q]
  BY <1>1, ResultsLength DEF In
<1>3. Joins(r) => Last' = Last /\ LastOp' = LastOp /\ \A x : LastIs(x)' = LastIs(x)
  BY DEF Joins, Last, LastOp, LastIs
\* Who took part in the last call before took part in the same one.
<1>4. ASSUME NEW q \in Ranks, q # r, In(q)'
      PROVE  Joins(r) /\ In(q)
  <2>1. calls[q] = Last' /\ calls[q] <= Last /\ Last' >= 1
    BY <1>1, <1>2, <1>4 DEF In
  <2>2. Joins(r)
    BY <1>1, <1>2, <2>1
  <2> QED
    BY <1>3, <2>1, <2>2 DEF In
<1>5. NeverActive'
  BY <1>1 DEF Calling, NeverActive
<1>6. Apart'
  <2>1. CASE Joins(r)
    BY <1>1, <1>2, <1>3, <2>1 DEF Calling, Apart
  <2>2. CASE Quiet /\ Last' = Last + 1
    BY <1>1, <1>2, <2>2 DEF Apart, Quiet, Last
  <2> QED
    BY <1>1, <2>1, <2>2
<1>7. SameArg'
  <2> SUFFICES ASSUME NEW q \in Ranks, In(q)' PROVE arg'[q] = LastOp'[2]
    BY DEF SameArg
  <2>1. CASE q = r
    BY <1>1, <2>1
  <2>2. CASE q # r
    BY <1>1, <1>3, <1>4, <2>2 DEF Calling, SameArg
  <2> QED
    BY <2>1, <2>2
<1>8. results[r] \in Seq(BOOLEAN) /\ Len(results[r]) = Last' - 1
  <2>1. results[r] \in Seq(BOOLEAN) /\ Len(results[r]) = calls[r]
    BY <1>1, ResultsLength
  <2>2. calls[r] = Last' - 1
    <3>1. CASE Joins(r)
      BY <1>3, <3>1 DEF Joins
    <3>2. CASE Quiet /\ Last' = Last + 1
      BY <1>2, <3>2 DEF Quiet, Last
    <3> QED
      BY <1>1, <3>1, <3>2
  <2> QED
    BY <2>1, <2>2
<1>9. SyncRefuses'
  <2> SUFFICES ASSUME LastIs("sync")'
               PROVE  /\ LastOp'[2] \in {0, 1}
                      /\ \A q \in Ranks : In(q)' /\ pc'[q] # "idle" => LastOp'[2] = 0
    BY DEF SyncRefuses
  <2>1. LastOp'[2] \in {0, 1}
    BY <1>1 DEF CallLeads
  <2>2. pc'[r] # "idle" => LastOp'[2] = 0
    BY <1>1 DEF CallLeads
  <2>3. ASSUME NEW q \in Ranks, q # r, In(q)', pc'[q] # "idle"
        PROVE  LastOp'[2] = 0
    BY <1>1, <1>3, <1>4, <2>3 DEF Calling, SyncRefuses
  <2> QED
    BY <2>1, <2>2, <2>3
<1>10. OneOutcome'
  <2> SUFFICES ASSUME LastIs("set_size")', NEW q \in Ranks, NEW s \in Ranks,
                      Failed(q, Last)', Succeeded(s, Last)'
               PROVE  FALSE
    BY DEF OneOutcome
  <2>1. pc'[r] = "bcast" /\ results'[r] = results[r]
    BY <1>1 DEF CallLeads, LastIs
  <2>2. ~Failed(r, Last)' /\ ~Succeeded(r, Last)'
    BY <1>2, <1>8, <2>1 DEF Failed, Succeeded
  <2>3. q # r /\ s # r
    BY <2>2
  <2>4. In(q)'
    <3>1. Last' \in DOMAIN results[q]
      BY <1>1, <2>3 DEF Failed
    <3>2. calls[q] = Last'
      <4>1. Last' <= Last
        BY <1>2, <3>1
      <4>2. Last' = Last
        BY <1>1, <1>2, <1>3, <4>1
      <4> QED
        BY <1>2, <3>1, <4>2
    <3> QED
      BY <1>1, <2>3, <3>2 DEF In
  <2>5. Joins(r)
    BY <1>4, <2>3, <2>4
  <2>6. Failed(q, Last) /\ Succeeded(s, Last)
    BY <1>1, <1>3, <2>3, <2>5 DEF Failed, Succeeded
  <2> QED
    BY <1>3, <2>5, <2>6 DEF Calling, OneOutcome
<1>11. SmallFile'
  <2> SUFFICES ASSUME ~outgrown', LastIs("preallocate")', NEW q \in Ranks, In(q)'
               PROVE  /\ pc'[q] \in {"copy", "result", "resize"}
                           => LastOp'[3] = {} /\ Len(data'[Dest]) <= LastOp'[2]
                      /\ pc'[q] = "idle" /\ LastOp'[3] = {} /\ Len(data'[Dest]) > LastOp'[2]
                           => results'[q][Last']
                      /\ pc'[q] = "idle" /\ LastOp'[3] # {} => ~results'[q][Last']
    BY DEF SmallFile
  <2>1. CASE q = r
    BY <1>1, <2>1 DEF CallLeads, LastIs
  <2>2. CASE q # r
    BY <1>1, <1>3, <1>4, <2>2 DEF Calling, SmallFile
  <2> QED
    BY <2>1, <2>2
<1>12. SameRefusal'
  BY <1>1, <1>3 DEF Joins, Calling, SameRefusal
<1> QED
  BY <1>5, <1>6, <1>7, <1>9, <1>10, <1>11, <1>12 DEF Calling

\* Between calls everybody took part in as many collectives of the last one.
LEMMA QuietTaken ==
  ASSUME TInv, Calling, Quiet, NEW c \in Comms, NEW q \in Ranks, NEW s \in Ranks
  PROVE  Taken(q, c) = Taken(s, c)
<1>1. /\ pc[q] = "idle" /\ pc[s] = "idle" /\ (In(q) <=> Last >= 1) /\ (In(s) <=> Last >= 1)
  BY DEF Quiet, In, Last
<1>2. CASE ~(Last >= 1)
  BY <1>1, <1>2 DEF Taken
<1>3. CASE Last >= 1
  <2>1. LastIs("set_size") => (results[q][Last] <=> results[s][Last])
    <3>1. /\ Last \in Nat /\ DOMAIN results[q] = 1..Last /\ DOMAIN results[s] = 1..Last
          /\ results[q] \in Seq(BOOLEAN) /\ results[s] \in Seq(BOOLEAN)
      BY <1>1, ResultsLength DEF Quiet, Last
    <3>2. /\ Last \in DOMAIN results[q] /\ Last \in DOMAIN results[s]
          /\ results[q][Last] \in BOOLEAN /\ results[s][Last] \in BOOLEAN
      BY <1>3, <3>1
    <3> QED
      BY <3>2 DEF Calling, OneOutcome, Failed, Succeeded
  <2> QED
    BY <1>1, <1>3, <2>1 DEF Taken
<1> QED
  BY <1>2, <1>3

\* A new call begins where the collectives of the last one end.
LEMMA AlignedNew ==
  ASSUME TInv, Calling, Quiet, NEW r \in Ranks, NEW c \in Comms, NEW b \in Nat, Aligned(c, b),
         \A q \in Ranks : q # r => met'[q][c] = met[q][c] /\ Taken(q, c)' = 0,
         \/ met'[r][c] = met[r][c] /\ Taken(r, c)' = 0
         \/ \E m \in Meetings(c) : /\ m.call = Last'
                                   /\ met'[r][c] = Append(met[r][c], m)
                                   /\ Taken(r, c)' = 1
  PROVE  \E n \in Nat : Aligned(c, n)'
<1>1. /\ Root \in Ranks
      /\ \A q \in Ranks : met[q][c] \in Seq(Meetings(c)) /\ Taken(q, c) \in 0..2
  <2>1. Root \in Ranks /\ \A q \in Ranks : met[q][c] \in Seq(Meetings(c))
    BY CollectivesAssumption DEF TInv, TypeOK, CollectivesAssumption
  <2>2. \A q \in Ranks : Taken(q, c) \in 0..2
    BY TakenType
  <2> QED
    BY <2>1, <2>2
<1>2. PICK n \in Nat : n = b + Taken(Root, c)
  BY <1>1
<1>3. \A q \in Ranks : Len(met[q][c]) = n
  BY <1>2, <1>1, QuietTaken DEF Aligned
<1>4. \A q \in Ranks : \A i \in 1..n : met[q][c][i].call = met[Root][c][i].call
  BY <1>2, <1>1, <1>3 DEF Aligned
<1>5. \A q \in Ranks : \A i \in 1..n : met'[q][c][i] = met[q][c][i]
  <2> SUFFICES ASSUME NEW q \in Ranks, NEW i \in 1..n PROVE met'[q][c][i] = met[q][c][i]
    OBVIOUS
  <2>1. met[q][c] \in Seq(Meetings(c)) /\ i \in 1..Len(met[q][c])
    BY <1>1, <1>3
  <2> QED
    BY <2>1
<1>6. ASSUME NEW q \in Ranks, met'[q][c] = met[q][c], Taken(q, c)' = 0
      PROVE  /\ Len(met'[q][c]) = n + Taken(q, c)'
             /\ \A i \in 1..Len(met'[q][c]) :
                  met'[q][c][i].call = IF i <= n THEN met'[Root][c][i].call ELSE Last'
  BY <1>1, <1>3, <1>4, <1>5, <1>6
<1>7. ASSUME NEW m \in Meetings(c), m.call = Last', met'[r][c] = Append(met[r][c], m),
             Taken(r, c)' = 1
      PROVE  /\ Len(met'[r][c]) = n + Taken(r, c)'
             /\ \A i \in 1..Len(met'[r][c]) :
                  met'[r][c][i].call = IF i <= n THEN met'[Root][c][i].call ELSE Last'
  <2> DEFINE s == met[r][c]
             t == met'[r][c]
  <2>1. s \in Seq(Meetings(c)) /\ t = Append(s, m) /\ Len(s) = n
    BY <1>1, <1>3, <1>7
  <2>2. \A i \in 1..n : t[i].call = met'[Root][c][i].call
    BY <1>1, <1>4, <1>5
  <2> HIDE DEF s, t
  <2>3. Len(t) = n + 1 /\ t[n + 1] = m
    BY <2>1
  <2>4. \A i \in 1..Len(t) : t[i].call = IF i <= n THEN met'[Root][c][i].call ELSE Last'
    BY <1>1, <1>7, <2>2, <2>3
  <2> QED
    BY <1>7, <2>3, <2>4 DEF t
<1>8. \A q \in Ranks :
        /\ Len(met'[q][c]) = n + Taken(q, c)'
        /\ \A i \in 1..Len(met'[q][c]) :
             met'[q][c][i].call = IF i <= n THEN met'[Root][c][i].call ELSE Last'
  BY <1>6, <1>7
<1>9. Aligned(c, n)'
  BY <1>8 DEF Aligned
<1> QED
  BY <1>1, <1>9

\* The collectives of a process that begins a call.
LEMMA CallTaken ==
  ASSUME Alike, TInv, TInv', Calling, NEW r \in Ranks, Call(r)
  PROVE  /\ met'[r]["file"] = met[r]["file"] /\ Taken(r, "file")' = 0
         /\ \/ met'[r]["ompio"] = met[r]["ompio"] /\ Taken(r, "ompio")' = 0
            \/ /\ LastIs("sync")' /\ Taken(r, "ompio")' = 1
               /\ \E m \in Meetings("ompio") :
                    m.call = Last' /\ met'[r]["ompio"] = Append(met[r]["ompio"], m)
         /\ \A q \in Ranks : \A c \in Comms : q # r =>
              /\ met'[q][c] = met[q][c]
              /\ Taken(q, c)' = IF Joins(r) THEN Taken(q, c) ELSE 0
         /\ Joins(r) => Taken(r, "ompio") = 0 /\ Taken(r, "file") = 0
<1>1. /\ CallLeads(r)
      /\ Joins(r) \/ (Quiet /\ Last' = Last + 1)
      /\ pc[r] = "idle" /\ In(r)' /\ Last' \in 1..MaxCalls /\ UNCHANGED data
      /\ \A q \in Ranks : q # r =>
           /\ calls'[q] = calls[q] /\ pc'[q] = pc[q]
           /\ results'[q] = results[q] /\ met'[q] = met[q]
  BY CallBegins
<1>2. Last \in Nat /\ \A q \in Ranks : calls[q] <= Last /\ calls[q] \in Nat
  BY ResultsLength
<1>5. \A q \in Ranks : \A c \in Comms : q # r =>
        /\ met'[q][c] = met[q][c]
        /\ Taken(q, c)' = IF Joins(r) THEN Taken(q, c) ELSE 0
  <2> SUFFICES ASSUME NEW q \in Ranks, NEW c \in Comms, q # r
               PROVE  Taken(q, c)' = IF Joins(r) THEN Taken(q, c) ELSE 0
    BY <1>1
  <2>1. CASE Joins(r)
    <3>1. /\ LastOp' = LastOp /\ Last' = Last /\ In(q)' = In(q)
          /\ \A op : LastIs(op)' = LastIs(op)
      BY <1>1, <2>1 DEF Joins, LastOp, Last, In, LastIs
    <3> QED
      BY <1>1, <2>1, <3>1 DEF Taken
  <2>2. CASE ~Joins(r)
    <3>1. ~In(q)'
      BY <1>1, <1>2, <2>2 DEF In
    <3> QED
      BY <2>2, <3>1 DEF Taken
  <2> QED
    BY <2>1, <2>2
<1>6. Joins(r) => Taken(r, "ompio") = 0 /\ Taken(r, "file") = 0
  <2>1. Joins(r) => ~In(r)
    BY <1>2 DEF Joins, In
  <2> QED
    BY <2>1 DEF Taken
<1>3. CASE pc'[r] = "bcast"
  <2>1. UNCHANGED met /\ Taken(r, "file")' = 0 /\ Taken(r, "ompio")' = 0
    BY <1>1, <1>3 DEF CallLeads, Taken
  <2> QED
    BY <2>1, <1>5, <1>6
<1>4. CASE pc'[r] # "bcast"
  <2>1. LastIs("sync")' /\ ~LastIs("preallocate")' /\ ~LastIs("set_size")'
    BY <1>1, <1>4 DEF CallLeads, LastIs
  <2>2. Taken(r, "file")' = 0 /\ met'[r]["file"] = met[r]["file"]
    BY <1>1, <1>4, <2>1 DEF CallLeads, Taken
  <2>3. CASE pc'[r] = "idle"
    <3>1. UNCHANGED met /\ Taken(r, "ompio")' = 0
      BY <1>1, <2>1, <2>3 DEF CallLeads, Taken
    <3> QED
      BY <1>5, <1>6, <2>2, <3>1
  <2>4. CASE pc'[r] = "barrier"
    <3> DEFINE m == [call |-> Last', value |-> 0]
    <3>1. met'[r]["ompio"] = Append(met[r]["ompio"], m) /\ Taken(r, "ompio")' = 1
      BY <1>1, <2>1, <2>4 DEF CallLeads, Taken
    <3>2. m \in Meetings("ompio") /\ m.call = Last'
      <4>1. 0 \in Sizes
        BY CollectivesAssumption DEF CollectivesAssumption, Sizes
      <4> QED
        BY <1>1, <4>1 DEF Meetings
    <3> HIDE DEF m
    <3> QED
      BY <1>5, <1>6, <2>1, <2>2, <3>1, <3>2
  <2> QED
    BY <1>1, <1>4, <2>3, <2>4 DEF CallLeads
<1> QED
  BY <1>3, <1>4

LEMMA CallMeeting ==
  ASSUME Alike, TInv, TInv', Calling, Meeting, NEW r \in Ranks, Call(r)
  PROVE  Meeting'
<1>1. /\ Joins(r) \/ (Quiet /\ Last' = Last + 1)
      /\ In(r)' /\ Last' \in 1..MaxCalls /\ UNCHANGED outgrown
      /\ \A q \in Ranks : q # r => pc'[q] = pc[q] /\ results'[q] = results[q] /\ ret'[q] = ret[q]
      /\ "ompio" \in Comms /\ "file" \in Comms /\ Root \in Ranks
  <2>1. \A q \in Ranks : q # r => ret'[q] = ret[q]
    <3>1. PICK op \in Ops, n \in Sizes : Begins(r, op, n)
      BY CallFacts
    <3>2. ret' = [ret EXCEPT ![r] = TRUE] /\ ret \in [Ranks -> BOOLEAN]
      BY <3>1 DEF Begins, TInv, TypeOK
    <3> QED
      BY <3>2
  <2> QED
    BY <2>1, CallBegins, CollectivesAssumption DEF Comms, CollectivesAssumption
<1>2. /\ met'[r]["file"] = met[r]["file"] /\ Taken(r, "file")' = 0
      /\ \/ met'[r]["ompio"] = met[r]["ompio"] /\ Taken(r, "ompio")' = 0
         \/ /\ LastIs("sync")' /\ Taken(r, "ompio")' = 1
            /\ \E m \in Meetings("ompio") :
                 m.call = Last' /\ met'[r]["ompio"] = Append(met[r]["ompio"], m)
      /\ \A q \in Ranks : \A c \in Comms : q # r =>
           /\ met'[q][c] = met[q][c]
           /\ Taken(q, c)' = IF Joins(r) THEN Taken(q, c) ELSE 0
      /\ Joins(r) => Taken(r, "ompio") = 0 /\ Taken(r, "file") = 0
  BY CallTaken
<1>3. Joins(r) => LastOp' = LastOp /\ Last' = Last /\ \A op : LastIs(op)' = LastIs(op)
  BY DEF Joins, Last, LastOp, LastIs
<1>4. \E b \in Nat : Aligned("ompio", b)' /\ FirstIsArg(b)'
  <2>1. PICK b \in Nat : Aligned("ompio", b) /\ FirstIsArg(b)
    BY DEF Meeting
  <2>2. CASE Joins(r)
    <3>1. Aligned("ompio", b)'
      BY <1>1, <1>2, <1>3, <2>1, <2>2, AlignedStep DEF Joins
    <3>2. FirstIsArg(b)'
      <4> SUFFICES ASSUME ~LastIs("sync")', NEW q \in Ranks, Taken(q, "ompio")' >= 1
                   PROVE  met'[q]["ompio"][b + 1].value = LastOp'[2]
        BY DEF FirstIsArg
      <4>1. q # r
        BY <1>2
      <4> QED
        BY <1>1, <1>2, <1>3, <2>1, <2>2, <4>1 DEF FirstIsArg
    <3> QED
      BY <3>1, <3>2
  <2>3. CASE ~Joins(r)
    <3>1. PICK n \in Nat : Aligned("ompio", n)'
      BY <1>1, <1>2, <2>1, <2>3, AlignedNew
    <3>2. ~LastIs("sync")' => \A q \in Ranks : Taken(q, "ompio")' = 0
      BY <1>1, <1>2, <2>3
    <3>3. FirstIsArg(n)'
      BY <3>2 DEF FirstIsArg
    <3> QED
      BY <3>1, <3>3
  <2> QED
    BY <2>2, <2>3
<1>5. ~outgrown' => \E b \in Nat : Aligned("file", b)' /\ ResultIsShared(b)'
  <2> SUFFICES ASSUME ~outgrown'
               PROVE  \E b \in Nat : Aligned("file", b)' /\ ResultIsShared(b)'
    OBVIOUS
  <2>1. PICK b \in Nat : Aligned("file", b) /\ ResultIsShared(b)
    BY <1>1 DEF Meeting
  <2>2. CASE Joins(r)
    <3>1. Aligned("file", b)'
      BY <1>1, <1>2, <1>3, <2>1, <2>2, AlignedStep DEF Joins
    <3>2. ResultIsShared(b)'
      <4> SUFFICES ASSUME LastIs("preallocate")', NEW q \in Ranks, Taken(q, "file")' >= 1
                   PROVE  /\ Taken(Root, "file")' >= 1
                          /\ met'[Root]["file"][b + 1].value
                               = IF pc'[q] = "resize" THEN ret'[q] ELSE results'[q][Last']
        BY DEF ResultIsShared
      <4>1. q # r /\ Taken(q, "file") >= 1
        BY <1>1, <1>2, <2>2
      <4>2. /\ Taken(Root, "file") >= 1
            /\ met[Root]["file"][b + 1].value = IF pc[q] = "resize" THEN ret[q] ELSE results[q][Last]
        BY <1>3, <2>1, <2>2, <4>1 DEF ResultIsShared
      <4>3. Root # r
        BY <1>2, <2>2, <4>2
      <4> QED
        BY <1>1, <1>2, <1>3, <2>2, <4>1, <4>2, <4>3
    <3> QED
      BY <3>1, <3>2
  <2>3. CASE ~Joins(r)
    <3>1. PICK n \in Nat : Aligned("file", n)'
      BY <1>1, <1>2, <2>1, <2>3, AlignedNew
    <3>2. \A q \in Ranks : Taken(q, "file")' = 0
      BY <1>1, <1>2, <2>3
    <3>3. ResultIsShared(n)'
      BY <3>2 DEF ResultIsShared
    <3> QED
      BY <3>1, <3>3
  <2> QED
    BY <2>2, <2>3
<1> QED
  BY <1>4, <1>5 DEF Meeting

LEMMA ResultsCall ==
  ASSUME Alike, TInv, TInv', Calling, NEW r \in Ranks, Call(r)
  PROVE  \A q \in Ranks : \A k \in DOMAIN results'[q] :
           k # Last' => k \in DOMAIN results[q] /\ results'[q][k] = results[q][k]
                        /\ script'[k] = script[k]
<1>1. /\ CallLeads(r)
      /\ Joins(r) \/ (Quiet /\ Last' = Last + 1)
      /\ pc[r] = "idle" /\ \A i \in 1..Last : script'[i] = script[i]
      /\ \A q \in Ranks : q # r => results'[q] = results[q]
  BY CallBegins
<1>2. ASSUME NEW q \in Ranks, NEW k \in DOMAIN results[q]
      PROVE  script'[k] = script[k]
  <2>1. k \in 1..Last
    BY ResultsLength
  <2> QED
    BY <1>1, <2>1
<1>3. results[r] \in Seq(BOOLEAN) /\ Len(results[r]) = Last' - 1 /\ Last' \in Nat
  <2>1. /\ results[r] \in Seq(BOOLEAN) /\ Len(results[r]) = calls[r] /\ Last \in Nat
        /\ calls[r] \in Nat
    BY <1>1, ResultsLength
  <2>2. CASE Joins(r)
    BY <2>1, <2>2 DEF Joins, Last
  <2>3. CASE Quiet /\ Last' = Last + 1
    BY <2>1, <2>3 DEF Quiet, Last
  <2> QED
    BY <1>1, <2>1, <2>2, <2>3
<1>4. ASSUME NEW k \in DOMAIN results'[r], k # Last'
      PROVE  k \in DOMAIN results[r] /\ results'[r][k] = results[r][k]
  <2>1. CASE results'[r] = results[r]
    BY <1>4, <2>1
  <2>2. ASSUME NEW x \in BOOLEAN, results'[r] = Append(results[r], x)
        PROVE  k \in DOMAIN results[r] /\ results'[r][k] = results[r][k]
    <3> DEFINE s == results[r]
               t == results'[r]
               n == Len(results[r])
    <3>1. s \in Seq(BOOLEAN) /\ t = Append(s, x) /\ Len(s) = n /\ n + 1 = Last'
      <4>1. s \in Seq(BOOLEAN)
        BY <1>3
      <4>2. t = Append(s, x)
        BY <2>2
      <4>3. n + 1 = Last'
        <5>1. Last' - 1 + 1 = Last'
          <6>1. \A i \in Nat : i - 1 + 1 = i
            OBVIOUS
          <6> QED
            BY <1>3, <6>1
        <5>2. n = Last' - 1
          BY <1>3
        <5> QED
          BY <5>1, <5>2
      <4> QED
        BY <4>1, <4>2, <4>3
    <3>2. k \in DOMAIN t /\ k # Last'
      BY <1>4
    <3> HIDE DEF s, t, n
    <3>3. DOMAIN t = 1..n + 1 /\ DOMAIN s = 1..n /\ (\A i \in 1..n : t[i] = s[i]) /\ n \in Nat
      BY <3>1
    <3>4. k \in 1..n
      BY <3>1, <3>2, <3>3
    <3>5. k \in DOMAIN s /\ t[k] = s[k]
      BY <3>3, <3>4
    <3> QED
      BY <3>5 DEF s, t
  <2>3. results'[r] = results[r] \/ \E x \in BOOLEAN : results'[r] = Append(results[r], x)
    BY <1>1 DEF CallLeads
  <2> QED
    BY <2>1, <2>2, <2>3
<1> QED
  BY <1>1, <1>2, <1>4
-----------------------------------------------------------------------------
LEMMA InitMInv == Alike /\ Init => MInv
<1> SUFFICES ASSUME Alike, Init PROVE MInv
  OBVIOUS
<1>1. /\ TInv
      /\ Last = 0
      /\ \A r \in Ranks : calls[r] = 0 /\ pc[r] = "idle"
  BY InitTInv DEF Init, Last
<1>2. \A r \in Ranks : \A c \in Comms : met[r][c] = << >>
  BY DEF Init
<1>3. /\ \A r \in Ranks : ~In(r)
      /\ \A op : ~LastIs(op)
      /\ \A r \in Ranks : \A c \in Comms : Taken(r, c) = 0
  BY <1>1 DEF In, LastIs, Taken
<1>4. Calling
  <2>1. NeverActive
    BY DEF Init, Alike, NeverActive
  <2>2. Apart
    <3>1. 0 >= Last - 1 /\ ~(0 < Last)
      BY <1>1
    <3>2. ASSUME NEW r \in Ranks PROVE calls[r] >= Last - 1 /\ ~(calls[r] < Last)
      <4>1. calls[r] = 0
        BY <1>1
      <4> QED
        BY <3>1, <4>1
    <3> QED
      BY <3>2 DEF Apart
  <2>3. SameArg /\ SyncRefuses /\ SameRefusal /\ OneOutcome /\ SmallFile
    BY <1>1, <1>3 DEF SameArg, SyncRefuses, SameRefusal, OneOutcome, SmallFile
  <2> QED
    BY <2>1, <2>2, <2>3 DEF Calling
<1>5. \A c \in Comms : Aligned(c, 0)
  <2> SUFFICES ASSUME NEW c \in Comms, NEW r \in Ranks
               PROVE  Len(met[r][c]) = 0 + Taken(r, c) /\ 1..Len(met[r][c]) = {}
    BY DEF Aligned
  <2>1. met[r][c] = << >> /\ Taken(r, c) = 0
    BY <1>2, <1>3
  <2> QED
    BY <2>1
<1>6. FirstIsArg(0) /\ ResultIsShared(0)
  <2>1. \A r \in Ranks : ~(Taken(r, "ompio") >= 1) /\ ~(Taken(r, "file") >= 1)
    <3>1. \A r \in Ranks : Taken(r, "ompio") = 0 /\ Taken(r, "file") = 0
      BY <1>3 DEF Comms
    <3>2. ~(0 >= 1)
      OBVIOUS
    <3> QED
      BY <3>1, <3>2
  <2> QED
    BY <2>1 DEF FirstIsArg, ResultIsShared
<1>7. Meeting
  BY <1>5, <1>6 DEF Meeting, Comms
<1>8. SameResult
  BY DEF Init, SameResult
<1> QED
  BY <1>1, <1>4, <1>7, <1>8 DEF MInv

LEMMA StutterMInv == MInv /\ UNCHANGED vars => MInv'
<1> SUFFICES ASSUME MInv, UNCHANGED vars PROVE MInv'
  OBVIOUS
<1> USE DEF vars
<1>1. TInv'
  BY StepTInv DEF MInv
<1>2. /\ Last' = Last /\ LastOp' = LastOp
      /\ \A op : LastIs(op)' = LastIs(op)
      /\ \A r \in Ranks : /\ In(r)' = In(r)
                          /\ \A c \in Comms : Taken(r, c)' = Taken(r, c)
                          /\ \A k : /\ Failed(r, k)' = Failed(r, k)
                                    /\ Succeeded(r, k)' = Succeeded(r, k)
  BY DEF Last, LastOp, LastIs, In, Taken, Failed, Succeeded
<1>3. Calling'
  BY <1>2 DEF MInv, Calling, NeverActive, Apart, SameArg, SyncRefuses, SameRefusal, OneOutcome,
                 SmallFile
<1>4. Meeting'
  <2>1. \A b \in Nat : \A c \in Comms : Aligned(c, b) => Aligned(c, b)'
    BY <1>2 DEF Aligned
  <2>2. \A b \in Nat : /\ FirstIsArg(b) => FirstIsArg(b)'
                       /\ ResultIsShared(b) => ResultIsShared(b)'
    <3>1. /\ \A r \in Ranks : /\ Taken(r, "ompio")' = Taken(r, "ompio")
                              /\ Taken(r, "file")' = Taken(r, "file")
          /\ LastIs("sync")' = LastIs("sync") /\ LastIs("preallocate")' = LastIs("preallocate")
      BY <1>2 DEF Comms
    <3>2. ASSUME NEW b \in Nat, FirstIsArg(b) PROVE FirstIsArg(b)'
      BY <1>2, <3>1, <3>2 DEF FirstIsArg
    <3>3. ASSUME NEW b \in Nat, ResultIsShared(b) PROVE ResultIsShared(b)'
      <4>1. Taken(Root, "file")' = Taken(Root, "file")
        BY <3>1, CollectivesAssumption DEF CollectivesAssumption
      <4> QED
        BY <1>2, <3>1, <3>3, <4>1 DEF ResultIsShared
    <3> QED
      BY <3>2, <3>3
  <2> QED
    BY <2>1, <2>2 DEF MInv, Meeting, Comms
<1>5. SameResult'
  BY DEF MInv, SameResult
<1> QED
  BY <1>1, <1>3, <1>4, <1>5 DEF MInv

LEMMA StepMInv == Alike /\ MInv /\ [Next]_vars => MInv'
<1> SUFFICES ASSUME Alike, MInv, [Next]_vars PROVE MInv'
  OBVIOUS
<1>1. TInv' /\ TInv /\ Calling /\ Meeting /\ SameResult
  BY StepTInv DEF MInv
<1>2. (TInv /\ Calling /\ Meeting)' => LastAgree'
  BY LastAgrees, PTL
<1>3. ASSUME NEW r \in Ranks, Step(r) PROVE MInv'
  <2>1. Calling'
    BY <1>1, <1>3, CallingStep
  <2>2. Meeting'
    <3>1. PICK b \in Nat : Aligned("ompio", b) /\ FirstIsArg(b)
      BY <1>1 DEF Meeting
    <3>2. Aligned("ompio", b)' /\ FirstIsArg(b)'
      BY <1>1, <1>3, <3>1, OmpioStep
    <3>3. ASSUME ~outgrown' PROVE \E n \in Nat : Aligned("file", n)' /\ ResultIsShared(n)'
      <4>1. PICK n \in Nat : Aligned("file", n) /\ ResultIsShared(n)
        BY <1>1, <1>3, <3>3, ResultsStep DEF Meeting
      <4> QED
        BY <1>1, <1>3, <3>3, <4>1, FileStep
    <3> QED
      BY <3>2, <3>3 DEF Meeting
  <2>3. SameResult'
    BY <1>1, <1>2, <1>3, <2>1, <2>2, ResultsStep, SameResultKept
  <2> QED
    BY <1>1, <2>1, <2>2, <2>3 DEF MInv
<1>4. ASSUME NEW r \in Ranks, Call(r) PROVE MInv'
  <2>1. Calling'
    BY <1>1, <1>4, CallCalling
  <2>2. Meeting'
    BY <1>1, <1>4, CallMeeting
  <2>3. SameResult'
    BY <1>1, <1>2, <1>4, <2>1, <2>2, CallBegins, ResultsCall, SameResultKept
  <2> QED
    BY <1>1, <2>1, <2>2, <2>3 DEF MInv
<1>5. CASE UNCHANGED vars
  BY <1>5, StutterMInv
<1> QED
  BY <1>3, <1>4, <1>5 DEF Next

LEMMA AlignedMatched == MInv => Matched
<1> SUFFICES ASSUME MInv, ~outgrown, NEW r \in Ranks, NEW q \in Ranks, NEW c \in Comms,
                    NEW i \in DOMAIN met[r][c] \cap DOMAIN met[q][c]
             PROVE  met[r][c][i].call = met[q][c][i].call
  BY DEF Matched
<1>1. PICK b \in Nat : Aligned(c, b)
  BY DEF MInv, Meeting, Comms
<1>2. i \in 1..Len(met[r][c]) /\ i \in 1..Len(met[q][c])
  <2>1. met[r][c] \in Seq(Meetings(c)) /\ met[q][c] \in Seq(Meetings(c))
    BY DEF MInv, TInv, TypeOK
  <2> QED
    BY <2>1
<1> QED
  BY <1>1, <1>2 DEF Aligned

\* Processes that call alike, one call after the other, on handles that do not
\* buffer, meet in collectives of the same call: the early returns of preallocate,
\* set_size and sync are taken by all or none, as long as fs_file_get_size and
\* fs_file_set_size fail for all of them or none (rule "alike").
THEOREM MatchedCorrect == ASSUME Alike PROVE SafeSpec => []Matched
<1>1. Init => MInv
  BY InitMInv
<1>2. MInv /\ [Next]_vars => MInv'
  BY StepMInv
<1> QED
  BY <1>1, <1>2, AlignedMatched, PTL DEF SafeSpec

\* And under the same rule preallocate and set_size return the same everywhere;
\* set_atomicity and sync end with an operation that is each process's own.
THEOREM ResultsAgree == ASSUME Alike PROVE SafeSpec => []SameResult
<1>1. Init => MInv
  BY InitMInv
<1>2. MInv /\ [Next]_vars => MInv'
  BY StepMInv
<1>3. MInv => SameResult
  BY DEF MInv
<1> QED
  BY <1>1, <1>2, <1>3, PTL DEF SafeSpec

\* No process syncs the file before every process called sync (the barrier of
\* mca_io_bbview_file_sync): who left it saw the others in it.
THEOREM SyncWaits == ASSUME Alike PROVE SafeSpec => SyncAfterAll
<1> DEFINE Waits == \A r \in Ranks : pc[r] # "sync" /\ pc'[r] = "sync"
                                       => \A q \in Ranks : calls'[q] >= calls'[r]
<1>1. Init => MInv
  BY InitMInv
<1>2. MInv /\ [Next]_vars => MInv'
  BY StepMInv
<1>3. MInv /\ [Next]_vars => [Waits]_vars
  <2> SUFFICES ASSUME MInv, Next, NEW r \in Ranks, pc[r] # "sync", pc'[r] = "sync", NEW q \in Ranks
               PROVE  calls'[q] >= calls'[r]
    OBVIOUS
  <2>1. PICK s \in Ranks : Call(s) \/ Step(s)
    BY DEF Next
  <2>2. pc \in [Ranks -> Places] /\ TInv /\ Calling /\ Meeting
    BY DEF MInv, TInv, TypeOK
  <2>3. ~Call(s)
    <3> SUFFICES ASSUME Call(s) PROVE FALSE
      OBVIOUS
    <3>1. PICK op \in Ops, n \in Sizes :
            Goto(s, "bcast") \/ Goto(s, "barrier") \/ Return(s, FALSE)
      BY <2>2, CallFacts
    <3> QED
      BY <2>2, <3>1 DEF Goto, Return
  <2>4. Step(s) /\ s = r
    BY <2>1, <2>2, <2>3, OthersKept
  <2>5. UNCHANGED calls /\ pc[r] = "barrier" /\ LastIs("sync") /\ calls[r] = Last /\ In(r)
    BY <2>2, <2>4, WhereStepLeads, InCall DEF StepLeads, Calling
  <2>6. AllCame(r, "ompio")
    BY <2>4, <2>5 DEF Step, Agree, GetSize, GetSizeFails, CopyBack, Extend, Restore, Fails,
         NoBuffer, ReadFails, WriteFails, ShareResult,
           EndPreallocate, ResizeFile, ResizeFails, EndAtomicity, LeaveBarrier, EndSync
  <2>7. PICK b \in Nat : Aligned("ompio", b)
    BY <2>2 DEF Meeting
  <2>8. Taken(r, "ompio") = 1 /\ Taken(q, "ompio") \in 0..2
    BY <2>5, TakenType DEF Taken, LastIs, Comms
  <2>9. Taken(q, "ompio") >= 1
    <3>1. Len(met[q]["ompio"]) >= Len(met[r]["ompio"])
      BY <2>6 DEF AllCame
    <3>2. /\ Len(met[q]["ompio"]) = b + Taken(q, "ompio")
          /\ Len(met[r]["ompio"]) = b + Taken(r, "ompio")
      BY <2>7 DEF Aligned
    <3> QED
      BY <2>8, <3>1, <3>2
  <2>10. In(q)
    BY <2>9 DEF Taken
  <2> QED
    BY <2>2, <2>5, <2>10, CallsAndScript DEF In, Comms
<1> QED
  BY <1>1, <1>2, <1>3, PTL DEF SafeSpec, SyncAfterAll
-----------------------------------------------------------------------------
(* The states of the handles.                                              *)

FellBack(r) == In(r) /\ pc[r] = "idle" /\ LastIs("set_atomicity") /\ LastOp[2] = 1

\* During a call a handle is in the state all were in before, or fell back.
States(s) == \A r \in Ranks : state[r] = IF FellBack(r) THEN "FALLBACK" ELSE s

SInv == MInv /\ \E s \in {"DEFAULT", "FALLBACK"} : States(s)

LEMMA StatesStep ==
  ASSUME TInv, Calling, Meeting, NEW r \in Ranks, Step(r), NEW s, States(s)
  PROVE  States(s)'
<1>1. /\ StepLeads(r) /\ In(r) /\ LastOp' = LastOp /\ Last' = Last
      /\ UNCHANGED <<script, calls, arg>> /\ pc[r] # "idle" /\ arg[r] = LastOp[2]
  BY WhereStepLeads DEF Calling, SameArg
<1>2. \A q \in Ranks : In(q)' = In(q)
  BY <1>1 DEF In
<1>3. LastIs("set_atomicity")' = LastIs("set_atomicity")
  BY <1>1 DEF LastIs
<1>4. ASSUME NEW q \in Ranks, q # r PROVE state'[q] = IF FellBack(q)' THEN "FALLBACK" ELSE s
  <2>1. state'[q] = state[q] /\ pc'[q] = pc[q]
    BY <1>4, OthersKept
  <2>2. FellBack(q)' = FellBack(q)
    BY <1>1, <1>2, <1>3, <2>1 DEF FellBack
  <2> QED
    BY <2>1, <2>2 DEF States
<1>5. state'[r] = IF FellBack(r)' THEN "FALLBACK" ELSE s
  <2>1. state[r] = s /\ state \in [Ranks -> {"DEFAULT", "FALLBACK", "ACTIVE"}]
    BY <1>1 DEF States, FellBack, TInv, TypeOK
  <2>2. CASE EndAtomicity(r)
    <3>1. state'[r] = IF LastOp[2] = 1 THEN "FALLBACK" ELSE s
      BY <1>1, <2>1, <2>2 DEF EndAtomicity, Fallback
    <3>2. pc'[r] = "idle" /\ LastIs("set_atomicity")
      BY <1>1, <2>2 DEF EndAtomicity, StepLeads
    <3> QED
      BY <1>1, <1>2, <1>3, <3>1, <3>2 DEF FellBack
  <2>3. CASE ~EndAtomicity(r)
    <3>1. UNCHANGED state /\ pc[r] # "atomicity"
      BY <2>3 DEF Step, Agree, GetSize, GetSizeFails, CopyBack, Extend, Restore, Fails,
         NoBuffer, ReadFails, WriteFails, ShareResult,
             EndPreallocate, ResizeFile, ResizeFails, LeaveBarrier, EndSync
    <3>2. ~FellBack(r)'
      BY <1>1, <1>3, <3>1 DEF FellBack, StepLeads, LastIs
    <3> QED
      BY <2>1, <3>1, <3>2
  <2> QED
    BY <2>2, <2>3
<1> QED
  BY <1>4, <1>5 DEF States

\* Between calls all fell back or none.
LEMMA StatesQuiet ==
  ASSUME Quiet, NEW s \in {"DEFAULT", "FALLBACK"}, States(s)
  PROVE  \E t \in {"DEFAULT", "FALLBACK"} : \A r \in Ranks : state[r] = t
<1>1. \A r \in Ranks : FellBack(r) <=> Last >= 1 /\ LastIs("set_atomicity") /\ LastOp[2] = 1
  BY DEF Quiet, FellBack, In, Last, LastIs
<1>2. CASE Last >= 1 /\ LastIs("set_atomicity") /\ LastOp[2] = 1
  BY <1>1, <1>2 DEF States
<1>3. CASE ~(Last >= 1 /\ LastIs("set_atomicity") /\ LastOp[2] = 1)
  BY <1>1, <1>3 DEF States
<1> QED
  BY <1>2, <1>3

LEMMA StatesCall ==
  ASSUME Alike, TInv, TInv', Calling, NEW r \in Ranks, Call(r),
         NEW s \in {"DEFAULT", "FALLBACK"}, States(s)
  PROVE  \E t \in {"DEFAULT", "FALLBACK"} : States(t)'
<1>1. /\ CallLeads(r)
      /\ Joins(r) \/ (Quiet /\ Last' = Last + 1)
      /\ pc[r] = "idle" /\ In(r)' /\ UNCHANGED state
      /\ \A q \in Ranks : q # r => calls'[q] = calls[q] /\ pc'[q] = pc[q]
  BY CallBegins
<1>2. ~FellBack(r)'
  BY <1>1 DEF CallLeads, FellBack, LastIs
<1>3. Last \in Nat /\ \A q \in Ranks : calls[q] <= Last /\ calls[q] \in Nat
  BY ResultsLength
<1>4. CASE Joins(r)
  <2>1. LastOp' = LastOp /\ Last' = Last /\ LastIs("set_atomicity")' = LastIs("set_atomicity")
    BY <1>4 DEF Joins, Last, LastOp, LastIs
  <2>2. ~FellBack(r)
    BY <1>3, <1>4 DEF Joins, FellBack, In
  <2>3. \A q \in Ranks : FellBack(q)' = FellBack(q)
    BY <1>1, <1>2, <2>1, <2>2 DEF FellBack, In
  <2> QED
    BY <1>1, <2>3 DEF States
<1>5. CASE ~Joins(r)
  <2>1. PICK t \in {"DEFAULT", "FALLBACK"} : \A q \in Ranks : state[q] = t
    BY <1>1, <1>5, StatesQuiet
  <2>2. \A q \in Ranks : ~FellBack(q)'
    <3>1. ASSUME NEW q \in Ranks, q # r PROVE ~In(q)'
      BY <1>1, <1>3, <1>5, <3>1 DEF In
    <3> QED
      BY <1>2, <3>1 DEF FellBack
  <2> QED
    BY <1>1, <2>1, <2>2 DEF States
<1> QED
  BY <1>4, <1>5

\* Handles that start alike never differ between calls: set_atomicity makes all
\* of them fall back or none, whatever each one's check says.
THEOREM StatesAgree ==
  ASSUME Alike, \A s, t \in StartStates : s = t PROVE SafeSpec => []SameState
<1>1. Init => SInv
  <2> SUFFICES ASSUME Init PROVE SInv
    OBVIOUS
  <2>1. MInv
    BY InitMInv
  <2>2. \A r \in Ranks : ~FellBack(r)
    <3>1. Last = 0
      BY DEF Init, Last
    <3> QED
      BY <3>1 DEF FellBack, LastIs
  <2>3. /\ \A r \in Ranks : state[r] \in {"DEFAULT", "FALLBACK"} /\ state[r] = state[Root]
        /\ Root \in Ranks
    BY CollectivesAssumption DEF Init, Alike, CollectivesAssumption
  <2>4. States(state[Root])
    BY <2>2, <2>3 DEF States
  <2> QED
    BY <2>1, <2>3, <2>4 DEF SInv
<1>2. SInv /\ [Next]_vars => SInv'
  <2> SUFFICES ASSUME SInv, [Next]_vars PROVE SInv'
    OBVIOUS
  <2>1. MInv' /\ MInv /\ TInv /\ TInv' /\ Calling /\ Meeting
    BY StepMInv DEF SInv, MInv
  <2>2. PICK s \in {"DEFAULT", "FALLBACK"} : States(s)
    BY DEF SInv
  <2>3. CASE UNCHANGED vars
    <3>1. \A r \in Ranks : FellBack(r)' = FellBack(r)
      BY <2>3 DEF vars, FellBack, In, LastIs, LastOp, Last
    <3>2. States(s)'
      BY <2>2, <2>3, <3>1 DEF vars, States
    <3> QED
      BY <2>1, <3>2 DEF SInv
  <2>4. ASSUME NEW r \in Ranks, Step(r) PROVE SInv'
    BY <2>1, <2>2, <2>4, StatesStep DEF SInv
  <2>5. ASSUME NEW r \in Ranks, Call(r) PROVE SInv'
    BY <2>1, <2>2, <2>5, StatesCall DEF SInv
  <2> QED
    BY <2>3, <2>4, <2>5 DEF Next
<1>3. SInv => SameState
  BY StatesQuiet DEF SInv, SameState
<1> QED
  BY <1>1, <1>2, <1>3, PTL DEF SafeSpec
-----------------------------------------------------------------------------
(* The size of the destination.                                            *)

\* Who set the size set the size asked for, and nobody changed it since.
SetSized ==
  LastIs("set_size") =>
    \A r \in Ranks : Succeeded(r, Last) => Len(data[Dest]) = LastOp[2]

\* The root wrote what it counts as written, and no more than is asked for.
CopyGrows ==
  pc[Root] = "copy" =>
    /\ written <= pos /\ written <= Len(data[Dest])
    /\ written <= LastOp[2] /\ size[Root] <= LastOp[2]

\* The root went through with preallocate, as far as it knows.
WentWell ==
  \/ pc[Root] \in {"result", "resize"} /\ ret[Root]
  \/ pc[Root] = "idle" /\ In(Root) /\ results[Root][Last]

Grown ==
  LastIs("preallocate") => CopyGrows /\ (WentWell => Len(data[Dest]) >= LastOp[2])

ZInv == MInv /\ SetSized /\ Grown

\* What a step does to the destination.
LEMMA DataStep ==
  ASSUME TInv, Calling, NEW r \in Ranks, Step(r)
  PROVE  /\ \/ UNCHANGED data
            \/ pc[r] = "resize" /\ Len(data'[Dest]) = LastOp[2]
            \/ CopyBack(r) \/ Extend(r) \/ WriteFails(r)
         /\ ResizeFile(r) => Len(data'[Dest]) = LastOp[2]
<1>1. In(r) /\ NeverActive /\ SameArg
  BY StepMeeting, InCall DEF Calling
<1>2. /\ File(r) = Dest /\ arg[r] = LastOp[2] /\ arg[r] \in Nat
      /\ data[Dest] \in Seq(Int) /\ data = [f \in Ranks \cup {Dest} |-> data[f]]
  <2>1. File(r) = Dest /\ arg[r] = LastOp[2]
    BY <1>1 DEF NeverActive, SameArg, File
  <2>2. arg[r] \in Sizes /\ MaxSize \in Nat
    BY CollectivesAssumption DEF TInv, TypeOK, CollectivesAssumption
  <2> QED
    BY <2>1, <2>2 DEF TInv, TypeOK, Sizes
<1>3. Resize(r) => Len(data'[Dest]) = LastOp[2]
  <2> SUFFICES ASSUME Resize(r) PROVE Len(data'[Dest]) = LastOp[2]
    OBVIOUS
  <2>1. data'[Dest] = Resized(data[Dest], arg[r])
    BY <1>2 DEF Resize
  <2> QED
    BY <1>2, <2>1, ResizedType
<1> QED
  BY <1>3 DEF Step, Agree, GetSize, GetSizeFails, Restore, Fails, NoBuffer, ReadFails,
     ShareResult, EndPreallocate, ResizeFile,
              ResizeFails, EndAtomicity, LeaveBarrier, EndSync

\* Only ResizeFile goes from "resize" to the barrier.
LEMMA ResizeLeads ==
  ASSUME TInv, NEW r \in Ranks, Step(r), pc[r] = "resize", pc'[r] = "barrier"
  PROVE  ResizeFile(r)
<1>1. pc \in [Ranks -> Places]
  BY DEF TInv, TypeOK
<1>2. ~EndPreallocate(r) /\ ~ResizeFails(r)
  BY <1>1 DEF EndPreallocate, ResizeFails, Return, Goto
<1> QED
  BY <1>2 DEF Step, Agree, GetSize, GetSizeFails, CopyBack, Extend, Restore, Fails,
         NoBuffer, ReadFails, WriteFails, ShareResult,
              EndAtomicity, LeaveBarrier, EndSync

\* set_size keeps its promise while it is carried out.
LEMMA SetSizedStep ==
  ASSUME TInv, Calling, Meeting, SetSized, NEW r \in Ranks, Step(r)
  PROVE  SetSized'
<1>1. /\ StepLeads(r) /\ LastOp' = LastOp /\ Last' = Last /\ UNCHANGED <<script, calls>>
      /\ calls[r] = Last /\ Last \in Nat /\ Len(results[r]) = Last - 1 /\ PlaceOfCall(r)
      /\ Op(r) = LastOp[1] /\ results[r] \in Seq(BOOLEAN)
  BY WhereStepLeads, InCall DEF Calling, TInv, TypeOK
<1> SUFFICES ASSUME LastIs("set_size"), NEW q \in Ranks, Succeeded(q, Last)'
             PROVE  Len(data'[Dest]) = LastOp[2]
  BY <1>1 DEF SetSized, LastIs, Succeeded
<1>2. CASE ResizeFile(r)
  BY <1>2, DataStep
<1>3. CASE ~ResizeFile(r)
  <2>1. UNCHANGED data \/ Len(data'[Dest]) = LastOp[2]
    <3>1. pc[r] # "copy"
      BY <1>1 DEF LastIs, PlaceOfCall
    <3> QED
      BY <3>1, DataStep DEF CopyBack, Extend, WriteFails, Fails
  <2>2. Succeeded(q, Last)
    <3>1. CASE q # r
      BY <1>1, <3>1, OthersKept DEF Succeeded
    <3>2. CASE q = r
      <4>1. pc[r] = "resize" => pc'[r] # "barrier"
        BY <1>3, ResizeLeads
      <4>2. ASSUME UNCHANGED results PROVE Last \notin DOMAIN results'[r]
        BY <1>1, <4>2
      <4>3. ASSUME Return(r, FALSE), pc'[r] = "idle" PROVE ~Succeeded(r, Last)'
        <5>1. results'[r][Last] = FALSE
          BY <4>3, LastResult, StepMeeting DEF Calling
        <5> QED
          BY <1>1, <4>3, <5>1 DEF Succeeded
      <4>4. pc[r] # "barrier" => ~Succeeded(r, Last)'
        BY <1>1, <4>1, <4>2, <4>3 DEF StepLeads, Succeeded, LastIs
      <4> QED
        BY <1>1, <3>2, <4>4 DEF Succeeded
    <3> QED
      BY <3>1, <3>2
  <2> QED
    BY <2>1, <2>2 DEF SetSized
<1> QED
  BY <1>2, <1>3

\* The types the size of the destination depends on.
LEMMA GrownTypes ==
  ASSUME TInv, Calling
  PROVE  /\ Root \in Ranks /\ written \in Nat /\ pos \in Nat /\ size[Root] \in Nat
         /\ data[Dest] \in Seq(Int) /\ Len(data[Dest]) \in Nat
         /\ LastIs("preallocate") => LastOp[2] \in Nat
<1>1. /\ Root \in Ranks /\ MaxSize \in Nat /\ script \in Seq(Entries)
      /\ written \in Nat /\ pos \in Nat /\ size[Root] \in Nat /\ data[Dest] \in Seq(Int)
  BY CollectivesAssumption DEF TInv, TypeOK, CollectivesAssumption
<1>2. ASSUME LastIs("preallocate") PROVE LastOp[2] \in Nat
  <2>1. LastOp \in Entries
    BY <1>1, <1>2 DEF LastIs, LastOp, Last
  <2> QED
    BY <1>1, <2>1 DEF Entries, Sizes
<1> QED
  BY <1>1, <1>2

\* Writing at a position makes the file reach at least to the end of what is written.
LEMMA CopyFacts ==
  ASSUME TInv, Calling, LastIs("preallocate"), pc[Root] = "copy", CopyGrows,
         CopyBack(Root) \/ Extend(Root)
  PROVE  CopyGrows' /\ pc'[Root] = "copy"
<1>1. /\ Root \in Ranks /\ written \in Nat /\ pos \in Nat /\ size[Root] \in Nat
      /\ data[Dest] \in Seq(Int) /\ Len(data[Dest]) \in Nat /\ LastOp[2] \in Nat
  BY GrownTypes
<1>n. PICK n \in Nat : n = Len(data[Dest])
  BY <1>1
<1>2. /\ File(Root) = Dest /\ arg[Root] = LastOp[2]
      /\ data = [f \in Ranks \cup {Dest} |-> data[f]]
  <2>1. In(Root)
    BY <1>1, InCall DEF Calling
  <2> QED
    BY <1>1, <2>1 DEF TInv, TypeOK, Calling, NeverActive, SameArg, File
<1>3. written <= pos /\ written <= n /\ written <= LastOp[2] /\ size[Root] <= LastOp[2]
  BY <1>n DEF CopyGrows
<1>L. PICK L \in Nat \ {0} : L = Length(Root)
  <2>1. written < size[Root] \/ written < arg[Root]
    BY DEF CopyBack, Extend
  <2> QED
    BY <1>1, <2>1, LengthType
<1>4. UNCHANGED <<script, size, pc>> /\ written' = written + L
  BY <1>L DEF CopyBack, Extend
<1>5. written + L <= LastOp[2]
  <2>1. Buf \in Nat \ {0}
    BY CollectivesAssumption DEF CollectivesAssumption
  <2>2. CASE written < size[Root]
    <3>1. PICK m \in Nat : m = size[Root]
      BY <1>1
    <3>2. L <= m - written
      BY <1>1, <1>L, <2>1, <2>2, <3>1 DEF Length, LeastOf
    <3> QED
      BY <1>1, <1>3, <3>1, <3>2
  <2>3. CASE ~(written < size[Root])
    <3>1. written < arg[Root]
      BY <2>3 DEF CopyBack, Extend
    <3> QED
      BY <1>1, <1>2, <2>1, <2>3, <3>1, <1>L DEF Length, LeastOf
  <2> QED
    BY <2>2, <2>3
<1>6. \E p \in Nat : \E buf \in Seq(Int) :
        /\ Len(buf) = L /\ p >= pos /\ pos' = p + L
        /\ data'[Dest] = Overwrite(data[Dest], p, buf)
  <2>1. CASE CopyBack(Root)
    <3> DEFINE buf == Chunk(Root)
    <3>1. buf \in Seq(Int) /\ Len(buf) = L
      BY <1>1, <1>2, <1>L, BufferType
    <3>2. data'[Dest] = Overwrite(data[Dest], pos + L, buf) /\ pos' = pos + 2 * L
      BY <1>2, <1>L, <1>n, <2>1 DEF CopyBack
    <3> HIDE DEF buf
    <3>3. pos + L \in Nat /\ pos + L >= pos /\ pos' = (pos + L) + L
      BY <1>1, <3>2
    <3> QED
      BY <3>1, <3>2, <3>3
  <2>2. CASE Extend(Root)
    <3> DEFINE buf == Zeros(Root)
    <3>1. buf \in Seq(Int) /\ Len(buf) = L
      BY <1>1, <1>2, <1>L, BufferType
    <3>2. data'[Dest] = Overwrite(data[Dest], pos, buf) /\ pos' = pos + L
      BY <1>2, <1>L, <2>2 DEF Extend
    <3> HIDE DEF buf
    <3>3. pos >= pos
      BY <1>1
    <3> QED
      BY <1>1, <3>1, <3>2, <3>3
  <2> QED
    BY <2>1, <2>2
<1>7. written + L <= Len(data'[Dest]) /\ written + L <= pos'
  <2>1. PICK p \in Nat, buf \in Seq(Int) :
          /\ Len(buf) = L /\ p >= pos /\ pos' = p + L
          /\ data'[Dest] = Overwrite(data[Dest], p, buf)
    BY <1>6
  <2>2. Len(data'[Dest]) = IF p + Len(buf) > n THEN p + Len(buf) ELSE n
    BY <1>1, <1>n, <2>1, OverwriteType
  <2>3. PICK k \in Nat : k = Len(data'[Dest])
    BY <1>1, <2>1, <2>2
  <2>4. k >= p + L
    <3>1. k = IF p + L > n THEN p + L ELSE n
      BY <2>1, <2>2, <2>3
    <3> QED
      BY <3>1
  <2>5. written <= p
    BY <1>1, <1>3, <2>1
  <2> QED
    BY <1>1, <2>1, <2>3, <2>4, <2>5
<1> QED
  BY <1>4, <1>5, <1>7 DEF CopyGrows, LastOp, Last

\* A step of another process leaves the root's copy alone and makes the file
\* no shorter than was asked for.
LEMMA GrownOther ==
  ASSUME TInv, Calling, Meeting, Grown, NEW r \in Ranks, r # Root, Step(r)
  PROVE  Grown'
<1>1. /\ LastOp' = LastOp /\ Last' = Last /\ UNCHANGED <<script, calls>> /\ PlaceOfCall(r)
  BY WhereStepLeads DEF TInv
<1> SUFFICES ASSUME LastIs("preallocate")
             PROVE  CopyGrows' /\ (WentWell' => Len(data'[Dest]) >= LastOp[2])
  BY <1>1 DEF Grown, LastIs
<1>2. /\ Root \in Ranks /\ written \in Nat /\ Len(data[Dest]) \in Nat /\ LastOp[2] \in Nat
      /\ size[Root] \in Nat
  BY GrownTypes
<1>3. /\ pc'[Root] = pc[Root] /\ ret'[Root] = ret[Root] /\ results'[Root] = results[Root]
  BY <1>2, OthersKept
<1>4. ~CopyBack(r) /\ ~Extend(r) /\ ~Restore(r) /\ ~NoBuffer(r) /\ ~ReadFails(r) /\ ~WriteFails(r)
  BY <1>1 DEF PlaceOfCall, CopyBack, Extend, Restore, Fails, NoBuffer, ReadFails, WriteFails
<1>5. UNCHANGED <<pos, written>> /\ size'[Root] = size[Root]
  <2>1. CASE GetSize(r)
    BY <1>2, <2>1 DEF GetSize, TInv, TypeOK
  <2>2. CASE ~GetSize(r)
    BY <1>4, <2>2 DEF Step, Agree, GetSizeFails, ShareResult, EndPreallocate, ResizeFile, ResizeFails,
                      EndAtomicity, LeaveBarrier, EndSync
  <2> QED
    BY <2>1, <2>2
<1>6. UNCHANGED data \/ Len(data'[Dest]) = LastOp[2]
  BY <1>4, DataStep
<1>7. CopyGrows'
  <2>1. CopyGrows
    BY DEF Grown
  <2> QED
    BY <1>1, <1>2, <1>3, <1>5, <1>6, <2>1 DEF CopyGrows
<1>8. WentWell' => Len(data'[Dest]) >= LastOp[2]
  <2>1. WentWell' <=> WentWell
    BY <1>1, <1>3 DEF WentWell, In
  <2> QED
    BY <1>2, <1>6, <2>1 DEF Grown
<1> QED
  BY <1>7, <1>8

\* The root itself copies, tells the others how it went and sets the size.
LEMMA GrownRoot ==
  ASSUME TInv, Calling, Meeting, Grown, Step(Root)
  PROVE  Grown'
<1>1. /\ Root \in Ranks /\ written \in Nat /\ pos \in Nat /\ Len(data[Dest]) \in Nat
      /\ LastIs("preallocate") => LastOp[2] \in Nat
  BY GrownTypes
<1>2. /\ LastOp' = LastOp /\ Last' = Last /\ UNCHANGED <<script, calls>> /\ PlaceOfCall(Root)
      /\ In(Root) /\ StepLeads(Root) /\ calls[Root] = Last /\ Op(Root) = LastOp[1]
      /\ pc[Root] # "idle" /\ Apart
      /\ pc \in [Ranks -> Places] /\ ret \in [Ranks -> BOOLEAN] /\ size \in [Ranks -> Nat]
  BY <1>1, WhereStepLeads, InCall DEF TInv, TypeOK, Calling
<1>3. ASSUME NEW place, Goto(Root, place) PROVE pc'[Root] = place
  BY <1>1, <1>2, <1>3 DEF Goto
<1> SUFFICES ASSUME LastIs("preallocate")
             PROVE  CopyGrows' /\ (WentWell' => Len(data'[Dest]) >= LastOp[2])
  BY <1>2 DEF Grown, LastIs
<1>4. LastOp[1] = "preallocate" /\ CopyGrows /\ (WentWell => Len(data[Dest]) >= LastOp[2])
  BY DEF Grown, LastIs
<1>5. /\ arg[Root] = LastOp[2] /\ File(Root) = Dest
  BY <1>1, <1>2 DEF Calling, SameArg, NeverActive, File
<1>6. CASE Agree(Root)
  <2>1. pc'[Root] \notin {"copy", "result", "resize", "idle"}
    BY <1>2, <1>4, <1>6 DEF Agree, StepLeads, LastIs
  <2> QED
    BY <2>1 DEF CopyGrows, WentWell
<1>7. CASE GetSize(Root)
  <2>1. CASE TooLarge(Root)
    <3>1. UNCHANGED data /\ pc'[Root] = "idle" /\ Len(data[Dest]) > LastOp[2]
      BY <1>3, <1>5, <1>7, <2>1 DEF GetSize, Return, TooLarge
    <3> QED
      BY <1>1, <3>1 DEF CopyGrows
  <2>2. CASE ~TooLarge(Root)
    <3>1. /\ pc'[Root] = "copy" /\ written' = 0 /\ UNCHANGED <<data, pos>>
          /\ size'[Root] = Len(data[Dest]) /\ ~(Len(data[Dest]) > LastOp[2])
      BY <1>1, <1>2, <1>3, <1>5, <1>7, <2>2 DEF GetSize, TooLarge
    <3> QED
      BY <1>1, <1>2, <3>1 DEF CopyGrows, WentWell
  <2> QED
    BY <2>1, <2>2
<1>8. CASE CopyBack(Root) \/ Extend(Root)
  <2>1. CopyGrows' /\ pc'[Root] = "copy"
    BY <1>4, <1>8, CopyFacts DEF CopyBack, Extend
  <2> QED
    BY <2>1 DEF WentWell
<1>9. CASE Restore(Root)
  <2>1. pc'[Root] = "result" /\ UNCHANGED data /\ written >= LastOp[2] /\ pc[Root] = "copy"
    BY <1>3, <1>5, <1>9 DEF Restore
  <2> QED
    BY <1>1, <1>4, <2>1 DEF CopyGrows
<1>10. CASE NoBuffer(Root) \/ ReadFails(Root) \/ WriteFails(Root)
  <2>1. pc'[Root] = "result" /\ ret'[Root] = FALSE
    BY <1>1, <1>2, <1>3, <1>10 DEF NoBuffer, ReadFails, WriteFails, Fails, AfterFailure
  <2> QED
    BY <2>1 DEF CopyGrows, WentWell
<1>11. CASE ShareResult(Root)
  <2>1. pc[Root] = "result" /\ pc'[Root] = "resize" /\ UNCHANGED data /\ ret'[Root] = ret[Root]
    BY <1>1, <1>2, <1>3, <1>11 DEF ShareResult, Shared, Bcast
  <2> QED
    BY <1>4, <2>1 DEF CopyGrows, WentWell
<1>12. CASE EndPreallocate(Root)
  <2>1. /\ pc[Root] = "resize" /\ pc'[Root] = "idle" /\ results'[Root][Last] = ret[Root]
    <3>1. pc[Root] = "resize" /\ Return(Root, ret[Root])
      BY <1>12 DEF EndPreallocate
    <3> QED
      BY <1>1, <1>2, <1>3, <3>1, LastResult DEF Return
  <2>2. UNCHANGED data \/ Len(data'[Dest]) = LastOp[2]
    BY <1>1, <2>1, DataStep DEF CopyBack, Extend, WriteFails, Fails
  <2>3. WentWell' => WentWell
    BY <1>2, <2>1 DEF WentWell
  <2> QED
    BY <1>1, <1>4, <2>1, <2>2, <2>3 DEF CopyGrows
<1>14. CASE GetSizeFails(Root)
  <2>1. Return(Root, FALSE) /\ pc'[Root] = "idle"
    BY <1>3, <1>14 DEF GetSizeFails, Return
  <2>2. results'[Root][Last] = FALSE
    BY <1>1, <1>2, <2>1, LastResult
  <2> QED
    BY <1>2, <2>1, <2>2 DEF CopyGrows, WentWell
<1>13. ~ResizeFile(Root) /\ ~ResizeFails(Root) /\ ~EndAtomicity(Root) /\ ~LeaveBarrier(Root)
       /\ ~EndSync(Root)
  BY <1>2, <1>4 DEF PlaceOfCall, ResizeFile, ResizeFails, EndAtomicity, LeaveBarrier, EndSync
<1> QED
  BY <1>6, <1>7, <1>8, <1>9, <1>10, <1>11, <1>12, <1>13, <1>14 DEF Step

\* A process that begins a call did not go through with it yet.
LEMMA SizedCall ==
  ASSUME Alike, TInv, TInv', Calling, SetSized, Grown, NEW r \in Ranks, Call(r)
  PROVE  (SetSized /\ Grown)'
<1>1. /\ CallLeads(r)
      /\ Joins(r) \/ (Quiet /\ Last' = Last + 1)
      /\ pc[r] = "idle" /\ In(r)' /\ UNCHANGED data
      /\ \A q \in Ranks : q # r => calls'[q] = calls[q] /\ pc'[q] = pc[q]
                                   /\ results'[q] = results[q]
  BY CallBegins
<1>2. /\ UNCHANGED <<size, pos, written>> /\ \A q \in Ranks : q # r => ret'[q] = ret[q]
  <2>1. PICK op \in Ops, n \in Sizes : Begins(r, op, n)
    BY CallFacts
  <2> QED
    BY <2>1 DEF Begins, TInv, TypeOK
<1>3. /\ Root \in Ranks /\ Last \in Nat /\ calls'[r] = Last'
      /\ \A q \in Ranks : /\ DOMAIN results[q] = 1..Len(results[q]) /\ Len(results[q]) \in Nat
                          /\ Len(results[q]) <= calls[q] /\ calls[q] <= Last /\ calls[q] \in Nat
  BY <1>1, ResultsLength, GrownTypes DEF In
<1>4. ASSUME NEW q \in Ranks, q # r, ~Joins(r)
      PROVE  ~In(q)' /\ ~Succeeded(q, Last)'
  <2>1. calls'[q] # Last' /\ Last' \notin DOMAIN results'[q]
    BY <1>1, <1>3, <1>4
  <2> QED
    BY <2>1 DEF In, Succeeded
<1>5. Joins(r) => /\ LastOp' = LastOp /\ Last' = Last /\ \A op : LastIs(op)' = LastIs(op)
                  /\ \A q \in Ranks : q # r => Succeeded(q, Last)' = Succeeded(q, Last)
                                               /\ In(q)' = In(q)
  <2>1. Joins(r) => LastOp' = LastOp /\ Last' = Last /\ \A op : LastIs(op)' = LastIs(op)
    BY DEF Joins, LastOp, Last, LastIs
  <2> QED
    BY <1>1, <2>1 DEF Succeeded, In
<1>6. LastIs("set_size")' \/ LastIs("preallocate")' => pc'[r] = "bcast" /\ UNCHANGED results
  BY <1>1 DEF CallLeads, LastIs
<1>7. SetSized'
  <2> SUFFICES ASSUME LastIs("set_size")', NEW q \in Ranks, Succeeded(q, Last)'
               PROVE  Len(data'[Dest]) = LastOp'[2]
    BY DEF SetSized
  <2>1. q # r
    <3>1. Last' \notin DOMAIN results[r]
      BY <1>1, <1>3 DEF Joins, Last
    <3> QED
      BY <1>6, <3>1 DEF Succeeded
  <2> QED
    BY <1>1, <1>4, <1>5, <2>1 DEF SetSized
<1>8. Grown'
  <2> SUFFICES ASSUME LastIs("preallocate")'
               PROVE  CopyGrows' /\ (WentWell' => Len(data'[Dest]) >= LastOp'[2])
    BY DEF Grown
  <2>1. CASE r = Root
    BY <1>6, <2>1 DEF CopyGrows, WentWell
  <2>2. CASE r # Root /\ Joins(r)
    <3>1. CopyGrows /\ (WentWell => Len(data[Dest]) >= LastOp[2])
      BY <1>5, <2>2 DEF Grown
    <3>2. WentWell' <=> WentWell
      BY <1>1, <1>2, <1>3, <1>5, <2>2 DEF WentWell
    <3> QED
      BY <1>1, <1>2, <1>3, <1>5, <2>2, <3>1, <3>2 DEF CopyGrows
  <2>3. CASE r # Root /\ ~Joins(r)
    <3>1. pc'[Root] = "idle" /\ ~In(Root)'
      BY <1>1, <1>3, <1>4, <2>3 DEF Quiet
    <3> QED
      BY <3>1 DEF CopyGrows, WentWell
  <2> QED
    BY <2>1, <2>2, <2>3
<1> QED
  BY <1>7, <1>8

\* When set_size succeeded everywhere the destination has the size asked for, and
\* when preallocate did it has at least that size, although nobody looks at how
\* setting it went.
THEOREM SizeCorrect == ASSUME Alike PROVE SafeSpec => []SizeIsSet
<1>1. Init => ZInv
  <2> SUFFICES ASSUME Init PROVE ZInv
    OBVIOUS
  <2>1. MInv
    BY InitMInv
  <2>2. \A op : ~LastIs(op)
    BY DEF Init, LastIs, Last
  <2> QED
    BY <2>1, <2>2 DEF ZInv, SetSized, Grown
<1>2. ZInv /\ [Next]_vars => ZInv'
  <2> SUFFICES ASSUME ZInv, [Next]_vars PROVE ZInv'
    OBVIOUS
  <2>1. MInv' /\ MInv /\ TInv /\ TInv' /\ Calling /\ Meeting /\ SetSized /\ Grown
    BY StepMInv DEF ZInv, MInv
  <2>2. CASE UNCHANGED vars
    <3>1. /\ LastOp' = LastOp /\ Last' = Last /\ \A op : LastIs(op)' = LastIs(op)
          /\ \A q \in Ranks : Succeeded(q, Last)' = Succeeded(q, Last)
      BY <2>2 DEF vars, LastOp, Last, LastIs, Succeeded
    <3>2. SetSized' /\ Grown'
      BY <2>1, <2>2, <3>1 DEF vars, SetSized, Grown, CopyGrows, WentWell, In
    <3> QED
      BY <2>1, <3>2 DEF ZInv
  <2>3. ASSUME NEW r \in Ranks, Step(r) PROVE ZInv'
    <3>1. SetSized'
      BY <2>1, <2>3, SetSizedStep
    <3>2. Grown'
      BY <2>1, <2>3, GrownOther, GrownRoot
    <3> QED
      BY <2>1, <3>1, <3>2 DEF ZInv
  <2>4. ASSUME NEW r \in Ranks, Call(r) PROVE ZInv'
    BY <2>1, <2>4, SizedCall DEF ZInv
  <2> QED
    BY <2>2, <2>3, <2>4 DEF Next
<1>3. ZInv => SizeIsSet
  <2> SUFFICES ASSUME ZInv, Quiet, script # << >>, \A r \in Ranks : results[r][Len(script)]
               PROVE  /\ LastOp[1] = "set_size" => Len(data[Dest]) = LastOp[2]
                      /\ LastOp[1] = "preallocate" => Len(data[Dest]) >= LastOp[2]
    BY DEF SizeIsSet
  <2>1. TInv /\ SetSized /\ Grown
    BY DEF ZInv, MInv
  <2>2. /\ Root \in Ranks /\ pc[Root] = "idle" /\ calls[Root] = Last /\ results[Root][Last]
        /\ script \in Seq(Entries)
    BY CollectivesAssumption, <2>1 DEF Quiet, Last, CollectivesAssumption, TInv, TypeOK
  <2>3. Last >= 1 /\ Last \in Nat
    BY <2>2 DEF Last
  <2>4. Last \in DOMAIN results[Root] /\ In(Root)
    BY <2>1, <2>2, <2>3, ResultsLength DEF In
  <2> QED
    BY <2>1, <2>2, <2>3, <2>4 DEF SetSized, Grown, LastIs, Succeeded, WentWell
<1> QED
  BY <1>1, <1>2, <1>3, PTL DEF SafeSpec
=============================================================================
