-------------------------- MODULE CollectivesProofs --------------------------
(***************************************************************************)
(* Theorems about the calls in which the processes meet, for any number of *)
(* processes, calls and sizes, whatever the application does and whichever *)
(* of the modelled failures happen: the types, and that a preallocate      *)
(* which succeeds brings the root's file pointer back.                     *)
(***************************************************************************)
EXTENDS Collectives, TLAPS

MetFcn == met = [r \in Ranks |-> [c \in Comms |-> met[r][c]]]

\* The calls a place belongs to.
PlaceOfCall(r) ==
  /\ pc[r] = "bcast" => Op(r) \in {"preallocate", "set_size", "set_atomicity"}
  /\ pc[r] \in {"size", "copy", "result"} => Op(r) = "preallocate"
  /\ pc[r] = "resize" => Op(r) \in {"preallocate", "set_size"}
  /\ pc[r] = "atomicity" => Op(r) = "set_atomicity"
  /\ pc[r] = "barrier" => Op(r) \in {"set_size", "sync"}
  /\ pc[r] = "sync" => Op(r) = "sync"
  /\ pc[r] = "copy" => r = Root

\* A process has a result for each of its calls that ended.
Progress(r) ==
  /\ calls[r] <= Len(script)
  /\ pc[r] # "idle" => calls[r] >= 1 /\ Len(results[r]) = calls[r] - 1
  /\ pc[r] = "idle" => Len(results[r]) = calls[r]

TInv == TypeOK /\ MetFcn /\ \A r \in Ranks : Progress(r) /\ PlaceOfCall(r)

LEMMA InitTInv == Init => TInv
<1> SUFFICES ASSUME Init PROVE TInv
  OBVIOUS
<1>1. \E n \in StartSizes :
        data = [f \in Ranks \cup {Dest} |-> IF f = Dest THEN [i \in 1..n |-> i] ELSE << >>]
  BY DEF Init
<1>2. data \in [Ranks \cup {Dest} -> Seq(Int)]
  BY <1>1, CollectivesAssumption DEF CollectivesAssumption
<1>3. TypeOK
  <2>1. /\ 0 \in 0..MaxCalls /\ 0 \in Sizes /\ MaxSize \in Nat
    BY CollectivesAssumption DEF CollectivesAssumption, Sizes
  <2>2. state \in [Ranks -> {"DEFAULT", "FALLBACK", "ACTIVE"}]
    BY CollectivesAssumption DEF Init, CollectivesAssumption
  <2>3. /\ calls \in [Ranks -> 0..MaxCalls] /\ arg \in [Ranks -> Sizes]
        /\ pc \in [Ranks -> Places] /\ size \in [Ranks -> Nat] /\ ret \in [Ranks -> BOOLEAN]
    BY <2>1 DEF Init, Places
  <2>4. script \in Seq(Entries) /\ results \in [Ranks -> Seq(BOOLEAN)]
    BY DEF Init, Entries
  <2>5. \A r \in Ranks : \A c \in Comms : met[r][c] \in Seq(Meetings(c))
    BY DEF Init
  <2> QED
    BY <1>2, <2>2, <2>3, <2>4, <2>5 DEF Init, TypeOK
<1>4. MetFcn
  BY DEF Init, MetFcn
<1>5. \A r \in Ranks : Progress(r) /\ PlaceOfCall(r)
  <2> SUFFICES ASSUME NEW r \in Ranks PROVE Progress(r) /\ PlaceOfCall(r)
    OBVIOUS
  <2>1. pc[r] = "idle" /\ calls[r] = 0 /\ results[r] = << >> /\ script = << >>
    BY DEF Init
  <2> QED
    BY <2>1 DEF Progress, PlaceOfCall
<1> QED
  BY <1>3, <1>4, <1>5 DEF TInv
-----------------------------------------------------------------------------
(* What the parts of the actions do.                                       *)

\* Taking part in a collective.
LEMMA MeetFacts ==
  ASSUME TInv, NEW r \in Ranks, NEW c \in Comms, NEW m \in Meetings(c),
         met' = [met EXCEPT ![r][c] = Append(@, m)]
  PROVE  /\ MetFcn'
         /\ \A q \in Ranks : \A d \in Comms : met'[q][d] \in Seq(Meetings(d))
         /\ \A q \in Ranks : \A d \in Comms :
              met'[q][d] = IF q = r /\ d = c THEN Append(met[q][d], m) ELSE met[q][d]
<1>1. met' = [met EXCEPT ![r] = [met[r] EXCEPT ![c] = Append(met[r][c], m)]]
  OBVIOUS
<1>2. met = [q \in Ranks |-> met[q]] /\ \A q \in Ranks : met[q] = [d \in Comms |-> met[q][d]]
  BY DEF TInv, MetFcn
<1>3. \A q \in Ranks : \A d \in Comms : met[q][d] \in Seq(Meetings(d))
  BY DEF TInv, TypeOK
<1>4. \A q \in Ranks : met'[q] = IF q = r THEN [met[r] EXCEPT ![c] = Append(met[r][c], m)] ELSE met[q]
  BY <1>1, <1>2
<1>5. \A q \in Ranks : \A d \in Comms :
        met'[q][d] = IF q = r /\ d = c THEN Append(met[q][d], m) ELSE met[q][d]
  BY <1>2, <1>4
<1>6. met' = [q \in Ranks |-> met'[q]]
  BY <1>1, <1>2
<1>7. \A q \in Ranks : met'[q] = [d \in Comms |-> met'[q][d]]
  BY <1>2, <1>4
<1>8. Append(met[r][c], m) \in Seq(Meetings(c))
  BY <1>3
<1> QED
  BY <1>3, <1>5, <1>6, <1>7, <1>8 DEF MetFcn

\* Nobody takes part.
LEMMA NotMet ==
  ASSUME TInv, UNCHANGED met
  PROVE  MetFcn' /\ \A q \in Ranks : \A d \in Comms : met'[q][d] \in Seq(Meetings(d))
BY DEF TInv, MetFcn, TypeOK, Meetings

\* What a broadcast hands out.
LEMMA BcastType ==
  ASSUME TInv, NEW r \in Ranks, NEW c \in Comms, NEW v, CanBcast(r, c),
         v \in IF c = "file" THEN BOOLEAN ELSE Sizes
  PROVE  Bcast(r, c, v) \in IF c = "file" THEN BOOLEAN ELSE Sizes
<1>1. CASE r = Root
  BY <1>1 DEF Bcast
<1>2. CASE r # Root
  <2>1. /\ met[Root][c] \in Seq(Meetings(c)) /\ met[r][c] \in Seq(Meetings(c))
    BY CollectivesAssumption DEF TInv, TypeOK, CollectivesAssumption
  <2>2. Len(met[r][c]) + 1 \in 1..Len(met[Root][c])
    BY <1>2, <2>1 DEF CanBcast
  <2>3. met[Root][c][Len(met[r][c]) + 1] \in Meetings(c)
    BY <2>1, <2>2
  <2> QED
    BY <1>2, <2>3 DEF Bcast, Meetings
<1> QED
  BY <1>1, <1>2

\* Beginning a call.
LEMMA BeginsFacts ==
  ASSUME TInv, NEW r \in Ranks, NEW op \in Ops, NEW n \in Sizes, Begins(r, op, n)
  PROVE  /\ script' \in Seq(Entries)
         /\ calls' \in [Ranks -> 0..MaxCalls] /\ calls'[r] = calls[r] + 1
         /\ \A q \in Ranks : q # r => calls'[q] = calls[q]
         /\ Len(script) <= Len(script')
         /\ \A i \in 1..Len(script) : script'[i] = script[i]
         /\ calls'[r] \in 1..Len(script') /\ script'[calls'[r]][1] = op
<1>1. script \in Seq(Entries) /\ calls \in [Ranks -> 0..MaxCalls] /\ calls[r] <= Len(script)
  BY DEF TInv, TypeOK, Progress
<1>2. calls' = [calls EXCEPT ![r] = @ + 1] /\ calls[r] < MaxCalls
  BY DEF Begins
<1>3. MaxCalls \in Nat
  BY CollectivesAssumption DEF CollectivesAssumption
<1>4. calls' \in [Ranks -> 0..MaxCalls] /\ calls'[r] = calls[r] + 1
      /\ \A q \in Ranks : q # r => calls'[q] = calls[q]
  BY <1>1, <1>2, <1>3
<1>5. CASE calls[r] < Len(script)
  <2>1. script' = script /\ script[calls[r] + 1][1] = op
    BY <1>5 DEF Begins
  <2> QED
    BY <1>1, <1>4, <1>5, <2>1
<1>6. CASE ~(calls[r] < Len(script))
  <2>0. PICK lost \in Refusals(op) : script' = Append(script, <<op, n, lost>>)
    BY <1>6 DEF Begins
  <2>1. lost \subseteq Ranks /\ <<op, n, lost>> \in Entries
    BY DEF Refusals, Entries
  <2>2. calls[r] = Len(script)
    BY <1>1, <1>6
  <2>3. /\ script' \in Seq(Entries) /\ Len(script') = Len(script) + 1
        /\ \A i \in 1..Len(script) : script'[i] = script[i]
        /\ script'[Len(script) + 1] = <<op, n, lost>>
    BY <1>1, <2>0, <2>1
  <2>4. <<op, n, lost>>[1] = op
    OBVIOUS
  <2> QED
    BY <1>1, <1>4, <2>2, <2>3, <2>4
<1> QED
  BY <1>5, <1>6
-----------------------------------------------------------------------------
(* Where the processes are.                                                *)

Where == /\ pc \in [Ranks -> Places] /\ results \in [Ranks -> Seq(BOOLEAN)]
         /\ \A r \in Ranks : Progress(r) /\ PlaceOfCall(r)

Fits(r, place) ==
  /\ place \in Places \ {"idle"}
  /\ place = "bcast" => Op(r) \in {"preallocate", "set_size", "set_atomicity"}
  /\ place \in {"size", "copy", "result"} => Op(r) = "preallocate"
  /\ place = "resize" => Op(r) \in {"preallocate", "set_size"}
  /\ place = "atomicity" => Op(r) = "set_atomicity"
  /\ place = "barrier" => Op(r) \in {"set_size", "sync"}
  /\ place = "sync" => Op(r) = "sync"
  /\ place = "copy" => r = Root

LEMMA GoesOn ==
  ASSUME TInv, NEW r \in Ranks, NEW place, pc[r] # "idle", Goto(r, place), Fits(r, place),
         UNCHANGED <<script, calls, results>>
  PROVE  Where'
<1>1. pc \in [Ranks -> Places] /\ results \in [Ranks -> Seq(BOOLEAN)]
  BY DEF TInv, TypeOK
<1>2. /\ pc' = [pc EXCEPT ![r] = place] /\ place \in Places \ {"idle"}
  BY DEF Goto, Fits
<1>3. pc' \in [Ranks -> Places] /\ pc'[r] = place /\ \A q \in Ranks : q # r => pc'[q] = pc[q]
  BY <1>1, <1>2
<1>4. \A q \in Ranks : Op(q)' = Op(q)
  BY DEF Op
<1>5. \A q \in Ranks : Progress(q)'
  BY <1>2, <1>3 DEF TInv, Progress
<1>6. \A q \in Ranks : PlaceOfCall(q)'
  <2>1. PlaceOfCall(r)'
    BY <1>3, <1>4 DEF PlaceOfCall, Fits
  <2>2. ASSUME NEW q \in Ranks, q # r PROVE PlaceOfCall(q)'
    BY <1>3, <1>4, <2>2 DEF TInv, PlaceOfCall
  <2> QED
    BY <2>1, <2>2
<1> QED
  BY <1>1, <1>3, <1>5, <1>6 DEF Where

LEMMA Returns ==
  ASSUME TInv, NEW r \in Ranks, NEW b \in BOOLEAN, pc[r] # "idle", Return(r, b),
         UNCHANGED <<script, calls>>
  PROVE  /\ Where' /\ pc'[r] = "idle" /\ results'[r] = Append(results[r], b)
         /\ \A q \in Ranks : q # r => pc'[q] = pc[q] /\ results'[q] = results[q]
<1>1. pc \in [Ranks -> Places] /\ results \in [Ranks -> Seq(BOOLEAN)] /\ calls \in [Ranks -> 0..MaxCalls]
  BY DEF TInv, TypeOK
<1>2. pc' = [pc EXCEPT ![r] = "idle"] /\ results' = [results EXCEPT ![r] = Append(@, b)]
  BY DEF Goto, Return
<1>3. /\ pc' \in [Ranks -> Places] /\ pc'[r] = "idle" /\ results'[r] = Append(results[r], b)
      /\ \A q \in Ranks : q # r => pc'[q] = pc[q] /\ results'[q] = results[q]
  BY <1>1, <1>2 DEF Places
<1>4. results' \in [Ranks -> Seq(BOOLEAN)] /\ Len(results'[r]) = Len(results[r]) + 1
  BY <1>1, <1>2
<1>5. \A q \in Ranks : Op(q)' = Op(q)
  BY DEF Op
<1>6. ASSUME NEW q \in Ranks PROVE Progress(q)' /\ PlaceOfCall(q)'
  <2>1. CASE q = r
    <3>1. calls[r] \in Int /\ Progress(r)
      BY <1>1, CollectivesAssumption DEF TInv, CollectivesAssumption
    <3> QED
      BY <1>3, <1>4, <2>1, <3>1 DEF Progress, PlaceOfCall
  <2>2. CASE q # r
    BY <1>3, <1>5, <2>2 DEF TInv, Progress, PlaceOfCall
  <2> QED
    BY <2>1, <2>2
<1> QED
  BY <1>3, <1>4, <1>6 DEF Where

LEMMA BeginsMoves ==
  ASSUME TInv, NEW r \in Ranks, NEW op \in Ops, NEW n \in Sizes, Begins(r, op, n),
         \/ \E place \in {"bcast", "barrier"} :
              /\ Goto(r, place) /\ UNCHANGED results
              /\ place = "bcast" => op \in {"preallocate", "set_size", "set_atomicity"}
              /\ place = "barrier" => op = "sync"
         \/ Return(r, FALSE)
  PROVE  Where'
<1>1. /\ pc \in [Ranks -> Places] /\ results \in [Ranks -> Seq(BOOLEAN)]
      /\ calls \in [Ranks -> 0..MaxCalls] /\ pc[r] = "idle" /\ script \in Seq(Entries)
      /\ MaxCalls \in Nat
  BY CollectivesAssumption DEF TInv, TypeOK, Begins, CollectivesAssumption
<1>2. /\ calls'[r] = calls[r] + 1 /\ \A q \in Ranks : q # r => calls'[q] = calls[q]
      /\ Len(script) <= Len(script')
      /\ \A i \in 1..Len(script) : script'[i] = script[i]
      /\ calls'[r] \in 1..Len(script') /\ script'[calls'[r]][1] = op
      /\ script' \in Seq(Entries)
  BY BeginsFacts
<1>3. \A q \in Ranks : Progress(q)
  BY DEF TInv
<1>4. ASSUME NEW q \in Ranks, q # r, pc'[q] = pc[q], results'[q] = results[q]
      PROVE  Progress(q)' /\ PlaceOfCall(q)'
  <2>1. Progress(q)'
    BY <1>1, <1>2, <1>3, <1>4 DEF Progress
  <2>2. pc[q] # "idle" => Op(q)' = Op(q)
    BY <1>1, <1>2, <1>3, <1>4 DEF Progress, Op
  <2> QED
    BY <1>4, <2>1, <2>2 DEF TInv, PlaceOfCall
<1>5. ASSUME NEW place \in {"bcast", "barrier"}, Goto(r, place), UNCHANGED results,
             place = "bcast" => op \in {"preallocate", "set_size", "set_atomicity"},
             place = "barrier" => op = "sync"
      PROVE  Where'
  <2>1. /\ pc' \in [Ranks -> Places] /\ pc'[r] = place
        /\ \A q \in Ranks : q # r => pc'[q] = pc[q]
    BY <1>1, <1>5 DEF Goto, Places
  <2>2. Progress(r)' /\ PlaceOfCall(r)'
    BY <1>1, <1>2, <1>3, <1>5, <2>1 DEF Progress, PlaceOfCall, Op
  <2> QED
    BY <1>1, <1>4, <1>5, <2>1, <2>2 DEF Where
<1>6. CASE Return(r, FALSE)
  <2>1. pc' = [pc EXCEPT ![r] = "idle"] /\ results' = [results EXCEPT ![r] = Append(@, FALSE)]
    BY <1>6 DEF Goto, Return
  <2>2. /\ pc' \in [Ranks -> Places] /\ pc'[r] = "idle"
        /\ \A q \in Ranks : q # r => pc'[q] = pc[q] /\ results'[q] = results[q]
    BY <1>1, <2>1 DEF Places
  <2>3. results' \in [Ranks -> Seq(BOOLEAN)] /\ Len(results'[r]) = Len(results[r]) + 1
    BY <1>1, <2>1
  <2>4. Progress(r)' /\ PlaceOfCall(r)'
    BY <1>1, <1>2, <1>3, <2>2, <2>3 DEF Progress, PlaceOfCall
  <2> QED
    BY <1>4, <2>2, <2>3, <2>4 DEF Where
<1> QED
  BY <1>5, <1>6
-----------------------------------------------------------------------------
(* The contents of the files.                                              *)

LEMMA ResizedType ==
  ASSUME NEW s \in Seq(Int), NEW n \in Nat
  PROVE  Resized(s, n) \in Seq(Int) /\ Len(Resized(s, n)) = n
BY DEF Resized

LEMMA OverwriteType ==
  ASSUME NEW s \in Seq(Int), NEW p \in Nat, NEW buf \in Seq(Int)
  PROVE  /\ Overwrite(s, p, buf) \in Seq(Int)
         /\ Len(Overwrite(s, p, buf)) = IF p + Len(buf) > Len(s) THEN p + Len(buf) ELSE Len(s)
<1> DEFINE n == IF p + Len(buf) > Len(s) THEN p + Len(buf) ELSE Len(s)
           e(i) == IF i \in p + 1..p + Len(buf) THEN buf[i - p]
                   ELSE IF i <= Len(s) THEN s[i] ELSE 0
<1>1. n \in Nat /\ Overwrite(s, p, buf) = [i \in 1..n |-> e(i)]
  BY DEF Overwrite
<1>2. \A i \in 1..n : e(i) \in Int
  <2> SUFFICES ASSUME NEW i \in 1..n PROVE e(i) \in Int
    OBVIOUS
  <2>1. i \in p + 1..p + Len(buf) => i - p \in 1..Len(buf)
    OBVIOUS
  <2>2. i <= Len(s) => i \in 1..Len(s)
    OBVIOUS
  <2> QED
    BY <2>1, <2>2
<1> HIDE DEF n, e
<1>3. Overwrite(s, p, buf) \in Seq(Int) /\ Len(Overwrite(s, p, buf)) = n
  BY <1>1, <1>2
<1> QED
  BY <1>3 DEF n

\* What the buffer of preallocate holds.
LEMMA BufferType ==
  ASSUME NEW r \in Ranks, Length(r) \in Nat, pos \in Nat, data[File(r)] \in Seq(Int),
         NEW buf \in {Chunk(r), Zeros(r)}
  PROVE  buf \in Seq(Int) /\ Len(buf) = Length(r)
<1> DEFINE s == data[File(r)]
           n == Length(r)
           e(i) == IF pos + i <= Len(s) THEN s[pos + i] ELSE Junk
<1>1. \A i \in 1..n : e(i) \in Int
  <2> SUFFICES ASSUME NEW i \in 1..n PROVE e(i) \in Int
    OBVIOUS
  <2>1. pos + i <= Len(s) => pos + i \in 1..Len(s)
    OBVIOUS
  <2> QED
    BY <2>1 DEF Junk
<1>2. Chunk(r) = [i \in 1..n |-> e(i)] /\ Zeros(r) = [i \in 1..n |-> 0]
  BY DEF Chunk, Zeros
<1>3. n \in Nat
  OBVIOUS
<1> HIDE DEF n, e, s
<1>4. [i \in 1..n |-> e(i)] \in Seq(Int) /\ Len([i \in 1..n |-> e(i)]) = n
  BY <1>1, <1>3
<1>5. [i \in 1..n |-> 0] \in Seq(Int) /\ Len([i \in 1..n |-> 0]) = n
  BY <1>3
<1> QED
  BY <1>2, <1>4, <1>5 DEF n

\* The first k elements of a buffer.
LEMMA PartType ==
  ASSUME NEW s \in Seq(Int), NEW k \in 1..Len(s)
  PROVE  SubSeq(s, 1, k) \in Seq(Int) /\ Len(SubSeq(s, 1, k)) = k
OBVIOUS

LEMMA FileType ==
  ASSUME TInv, NEW r \in Ranks
  PROVE  File(r) \in Ranks \cup {Dest} /\ data[File(r)] \in Seq(Int)
BY DEF TInv, TypeOK, File

LEMMA LengthType ==
  ASSUME TInv, NEW r \in Ranks, written < size[r] \/ written < arg[r]
  PROVE  Length(r) \in Nat \ {0}
<1>1. /\ written \in Nat /\ size[r] \in Nat /\ arg[r] \in Nat /\ Buf \in Nat \ {0}
  BY CollectivesAssumption DEF TInv, TypeOK, Sizes, CollectivesAssumption
<1> QED
  BY <1>1 DEF Length, LeastOf

\* The types that do not concern where the processes are or whom they met.
Fields == /\ script \in Seq(Entries) /\ calls \in [Ranks -> 0..MaxCalls]
          /\ arg \in [Ranks -> Sizes] /\ state \in [Ranks -> {"DEFAULT", "FALLBACK", "ACTIVE"}]
          /\ size \in [Ranks -> Nat] /\ ret \in [Ranks -> BOOLEAN]
          /\ data \in [Ranks \cup {Dest} -> Seq(Int)]
          /\ pos \in Nat /\ prev \in Nat /\ written \in Nat
          /\ outgrown \in BOOLEAN

LEMMA FieldsBegin ==
  ASSUME TInv, NEW r \in Ranks, NEW op \in Ops, NEW n \in Sizes, Begins(r, op, n)
  PROVE  Fields'
<1>1. script' \in Seq(Entries) /\ calls' \in [Ranks -> 0..MaxCalls]
  BY BeginsFacts
<1>2. arg' \in [Ranks -> Sizes] /\ ret' \in [Ranks -> BOOLEAN]
  BY DEF Begins, TInv, TypeOK
<1> QED
  <2>1. UNCHANGED <<state, size, data, pos, prev, written, outgrown>>
    BY DEF Begins
  <2> QED
    BY <1>1, <1>2, <2>1 DEF TInv, TypeOK, Fields

LEMMA FieldsStep ==
  ASSUME TInv, NEW r \in Ranks, Step(r)
  PROVE  Fields'
<1> USE DEF Fields
<1>1. Fields /\ data[File(r)] \in Seq(Int) /\ File(r) \in Ranks \cup {Dest} /\ arg[r] \in Nat
  <2>1. Fields
    BY DEF TInv, TypeOK
  <2>2. arg[r] \in Sizes /\ MaxSize \in Nat
    BY <2>1, CollectivesAssumption DEF CollectivesAssumption
  <2>3. arg[r] \in Nat
    BY <2>2 DEF Sizes
  <2> QED
    BY <2>1, <2>3, FileType
<1>2. CASE Agree(r)
  BY <1>1, <1>2 DEF Agree
<1>3. CASE GetSize(r)
  <2>1. Len(data[File(r)]) \in Nat
    BY <1>1
  <2>2. size' \in [Ranks -> Nat]
    BY <1>1, <1>3, <2>1 DEF GetSize
  <2>3. prev' \in Nat /\ written' \in Nat
    BY <1>1, <1>3 DEF GetSize
  <2> QED
    BY <1>1, <1>3, <2>2, <2>3 DEF GetSize
<1>4. CASE CopyBack(r)
  <2> DEFINE s == data[File(r)]
             buf == Chunk(r)
  <2>1. Length(r) \in Nat
    BY <1>4, LengthType DEF CopyBack
  <2>3. buf \in Seq(Int)
    BY <1>1, <2>1, BufferType
  <2>4. data' = [data EXCEPT ![File(r)] = Overwrite(s, pos + Length(r), buf)]
    BY <1>4 DEF CopyBack
  <2> HIDE DEF s, buf
  <2>5. s \in Seq(Int) /\ pos + Length(r) \in Nat
    BY <1>1, <2>1 DEF s
  <2>6. data' \in [Ranks \cup {Dest} -> Seq(Int)]
    BY <1>1, <2>3, <2>4, <2>5, OverwriteType
  <2>7. pos' \in Nat /\ written' \in Nat
    <3>1. pos' = pos + 2 * Length(r) /\ written' = written + Length(r)
      BY <1>4 DEF CopyBack
    <3>2. pos \in Nat /\ written \in Nat /\ 2 * Length(r) \in Nat
      BY <1>1, <2>1
    <3> QED
      BY <2>1, <3>1, <3>2
  <2>8. outgrown' \in BOOLEAN
    BY <1>1, <1>4 DEF CopyBack, Outgrown
  <2> QED
    BY <1>1, <1>4, <2>6, <2>7, <2>8 DEF CopyBack
<1>5. CASE Extend(r)
  <2> DEFINE buf == Zeros(r)
  <2>1. Length(r) \in Nat
    BY <1>5, LengthType DEF Extend
  <2>2. buf \in Seq(Int)
    BY <1>1, <2>1, BufferType
  <2>3. data' = [data EXCEPT ![File(r)] = Overwrite(data[File(r)], pos, buf)]
    BY <1>5 DEF Extend
  <2> HIDE DEF buf
  <2>4. data' \in [Ranks \cup {Dest} -> Seq(Int)]
    BY <1>1, <2>2, <2>3, OverwriteType
  <2>5. pos' \in Nat /\ written' \in Nat
    BY <1>1, <1>5, <2>1 DEF Extend
  <2>6. outgrown' \in BOOLEAN
    BY <1>1, <1>5 DEF Extend, Outgrown
  <2> QED
    BY <1>1, <1>5, <2>4, <2>5, <2>6 DEF Extend
<1>6. CASE Restore(r)
  BY <1>1, <1>6 DEF Restore, Restored
<1>7. CASE NoBuffer(r) \/ ReadFails(r)
  <2>1. pos' \in Nat
    <3>1. CASE NoBuffer(r)
      BY <1>1, <3>1 DEF NoBuffer
    <3>2. CASE ReadFails(r)
      <4>1. Length(r) \in Nat
        BY <3>2, LengthType DEF ReadFails
      <4>2. PICK n \in 0..Length(r) : pos' = pos + n
        BY <3>2 DEF ReadFails
      <4> QED
        BY <1>1, <4>1, <4>2
    <3> QED
      BY <1>7, <3>1, <3>2
  <2>2. ret' = [ret EXCEPT ![r] = FALSE]
        /\ UNCHANGED <<script, calls, arg, state, size, data, prev, written, outgrown>>
    BY <1>7 DEF NoBuffer, ReadFails, Fails
  <2> QED
    BY <1>1, <2>1, <2>2
<1>14. CASE WriteFails(r)
  <2> DEFINE start == IF written < size[r] THEN pos + Length(r) ELSE pos
             buf   == IF written < size[r] THEN Chunk(r) ELSE Zeros(r)
             s     == data[File(r)]
  <2>1. Length(r) \in Nat
    BY <1>14, LengthType DEF WriteFails
  <2>2. start \in Nat /\ s \in Seq(Int)
    BY <1>1, <2>1
  <2>3. buf \in Seq(Int) /\ Len(buf) = Length(r)
    BY <1>1, <2>1, BufferType
  <2>4. PICK n \in 0..Length(r) :
          /\ pos' = start + n
          /\ \/ UNCHANGED data
             \/ \E k \in 1..n :
                  data' = [data EXCEPT ![File(r)] = Overwrite(s, start, SubSeq(buf, 1, k))]
    BY <1>14 DEF WriteFails
  <2>5. /\ ret' = [ret EXCEPT ![r] = FALSE] /\ outgrown' = Outgrown(r)
        /\ UNCHANGED <<script, calls, arg, state, size, prev, written>>
    BY <1>14 DEF WriteFails, Fails
  <2> HIDE DEF start, buf, s
  <2>6. data' \in [Ranks \cup {Dest} -> Seq(Int)]
    <3>1. ASSUME NEW k \in 1..n PROVE Overwrite(s, start, SubSeq(buf, 1, k)) \in Seq(Int)
      <4>1. k \in 1..Len(buf)
        BY <2>1, <2>3
      <4>2. SubSeq(buf, 1, k) \in Seq(Int)
        BY <2>3, <4>1, PartType
      <4> QED
        BY <2>2, <4>2, OverwriteType
    <3> QED
      BY <1>1, <2>4, <3>1
  <2>7. pos' \in Nat
    BY <2>1, <2>2, <2>4
  <2> QED
    BY <1>1, <2>5, <2>6, <2>7 DEF Outgrown
<1>8. CASE ShareResult(r)
  <2>1. Shared(r) \in BOOLEAN
    <3>1. /\ "file" \in Comms /\ CanBcast(r, "file")
          /\ ret[r] \in IF "file" = "file" THEN BOOLEAN ELSE Sizes
      BY <1>1, <1>8 DEF ShareResult, Comms
    <3>2. Bcast(r, "file", ret[r]) \in IF "file" = "file" THEN BOOLEAN ELSE Sizes
      BY <3>1, BcastType
    <3> QED
      BY <3>2 DEF Shared
  <2> QED
    BY <1>1, <1>8, <2>1 DEF ShareResult
<1>9. CASE EndPreallocate(r) \/ ResizeFile(r)
  <2>1. data' = data \/ data' = [data EXCEPT ![File(r)] = Resized(data[File(r)], arg[r])]
    BY <1>9 DEF EndPreallocate, ResizeFile, Resize
  <2>2. data' \in [Ranks \cup {Dest} -> Seq(Int)]
    <3>1. Resized(data[File(r)], arg[r]) \in Seq(Int)
      BY <1>1, ResizedType
    <3> QED
      BY <1>1, <2>1, <3>1
  <2> QED
    BY <1>1, <1>9, <2>2 DEF EndPreallocate, ResizeFile
<1>10. CASE GetSizeFails(r) \/ ResizeFails(r) \/ LeaveBarrier(r) \/ EndSync(r)
  BY <1>1, <1>10 DEF GetSizeFails, ResizeFails, LeaveBarrier, EndSync
<1>11. CASE EndAtomicity(r)
  <2>1. \E x \in {"FALLBACK", state[r]} : state' = [state EXCEPT ![r] = x]
    BY <1>11 DEF EndAtomicity, Fallback
  <2>2. state' \in [Ranks -> {"DEFAULT", "FALLBACK", "ACTIVE"}]
    BY <1>1, <2>1
  <2> QED
    BY <1>1, <1>11, <2>2 DEF EndAtomicity
<1> QED
  BY <1>2, <1>3, <1>4, <1>5, <1>6, <1>7, <1>8, <1>9, <1>10, <1>11, <1>14 DEF Step
-----------------------------------------------------------------------------
(* The meetings of a step.                                                 *)

\* A step takes part in one collective or in none.
StepMeets(r) ==
  \/ pc[r] = "bcast" /\ Agree(r) /\ CanBcast(r, "ompio")
     /\ Meet(r, "ompio", Bcast(r, "ompio", arg[r]))
  \/ pc[r] = "result" /\ ShareResult(r) /\ CanBcast(r, "file") /\ Meet(r, "file", Shared(r))
  \/ pc[r] = "resize" /\ ResizeFile(r) /\ Meet(r, "ompio", 0)
  \/ UNCHANGED met

LEMMA StepMeeting ==
  ASSUME NEW r \in Ranks, Step(r)
  PROVE  StepMeets(r) /\ UNCHANGED <<script, calls, arg>> /\ pc[r] # "idle"
BY DEF Step, StepMeets, Agree, GetSize, GetSizeFails, CopyBack, Extend, Restore, Fails, NoBuffer,
           ReadFails, WriteFails, ShareResult, EndPreallocate, ResizeFile, ResizeFails, EndAtomicity, LeaveBarrier, EndSync

LEMMA MetStep ==
  ASSUME TInv, NEW r \in Ranks, Step(r)
  PROVE  MetFcn' /\ \A q \in Ranks : \A d \in Comms : met'[q][d] \in Seq(Meetings(d))
<1>1. StepMeets(r) /\ pc[r] # "idle"
  BY StepMeeting
<1>2. calls[r] \in 1..MaxCalls
  BY <1>1, CollectivesAssumption DEF TInv, TypeOK, Progress, CollectivesAssumption
<1>3. ASSUME NEW c \in Comms, NEW v \in IF c = "file" THEN BOOLEAN ELSE Sizes, Meet(r, c, v)
      PROVE  MetFcn' /\ \A q \in Ranks : \A d \in Comms : met'[q][d] \in Seq(Meetings(d))
  <2>1. [call |-> calls[r], value |-> v] \in Meetings(c)
    BY <1>2 DEF Meetings
  <2>2. met' = [met EXCEPT ![r][c] = Append(@, [call |-> calls[r], value |-> v])]
    BY <1>3 DEF Meet
  <2> HIDE DEF Meetings
  <2> QED
    BY <2>1, <2>2, MeetFacts
<1>4. CASE Meet(r, "ompio", Bcast(r, "ompio", arg[r])) /\ CanBcast(r, "ompio")
  <2>1. "ompio" \in Comms /\ arg[r] \in IF "ompio" = "file" THEN BOOLEAN ELSE Sizes
    BY DEF TInv, TypeOK, Comms
  <2>2. Bcast(r, "ompio", arg[r]) \in IF "ompio" = "file" THEN BOOLEAN ELSE Sizes
    BY <1>4, <2>1, BcastType
  <2> QED
    BY <1>3, <1>4, <2>1, <2>2
<1>5. CASE Meet(r, "file", Shared(r)) /\ CanBcast(r, "file")
  <2>1. "file" \in Comms /\ ret[r] \in IF "file" = "file" THEN BOOLEAN ELSE Sizes
    BY DEF TInv, TypeOK, Comms
  <2>2. Shared(r) \in IF "file" = "file" THEN BOOLEAN ELSE Sizes
    BY <1>5, <2>1, BcastType DEF Shared
  <2> QED
    BY <1>3, <1>5, <2>1, <2>2
<1>6. CASE Meet(r, "ompio", 0)
  <2>1. "ompio" \in Comms /\ 0 \in IF "ompio" = "file" THEN BOOLEAN ELSE Sizes
    BY CollectivesAssumption DEF Comms, Sizes, CollectivesAssumption
  <2> QED
    BY <1>3, <1>6, <2>1
<1>7. CASE UNCHANGED met
  BY <1>7, NotMet
<1> QED
  BY <1>1, <1>4, <1>5, <1>6, <1>7 DEF StepMeets

LEMMA WhereStep ==
  ASSUME TInv, NEW r \in Ranks, Step(r)
  PROVE  Where'
<1>1. UNCHANGED <<script, calls>> /\ pc[r] # "idle"
  BY StepMeeting
<1>2. PlaceOfCall(r) /\ Where
  BY DEF TInv, Where, TypeOK
<1>3. ASSUME NEW place, Goto(r, place), Fits(r, place), UNCHANGED results PROVE Where'
  BY <1>1, <1>3, GoesOn
<1>4. ASSUME NEW b \in BOOLEAN, Return(r, b) PROVE Where'
  BY <1>1, <1>4, Returns
<1>5. CASE Agree(r)
  <2>1. CASE Return(r, FALSE)
    BY <1>4, <2>1
  <2>2. CASE ~Return(r, FALSE)
    <3> DEFINE place == CASE Op(r) = "preallocate" -> "size"
                          [] Op(r) = "set_size" -> "resize"
                          [] Op(r) = "set_atomicity" -> "atomicity"
    <3>1. Goto(r, place) /\ UNCHANGED results
      BY <1>5, <2>2 DEF Agree
    <3>2. Op(r) \in {"preallocate", "set_size", "set_atomicity"}
      BY <1>2, <1>5 DEF PlaceOfCall, Agree
    <3>3. Fits(r, place)
      BY <3>2 DEF Fits, Places
    <3> QED
      BY <1>3, <3>1, <3>3
  <2> QED
    BY <2>1, <2>2
<1>6. CASE GetSize(r)
  <2>1. Return(r, TRUE) \/ \E place \in {"copy", "result"} :
          Goto(r, place) /\ UNCHANGED results /\ (place = "copy" => r = Root)
    BY <1>6 DEF GetSize
  <2>2. Op(r) = "preallocate"
    BY <1>2, <1>6 DEF PlaceOfCall, GetSize
  <2> QED
    BY <1>3, <1>4, <2>1, <2>2 DEF Fits, Places
<1>7. CASE CopyBack(r) \/ Extend(r)
  <2>1. UNCHANGED <<pc, results>>
    BY <1>7 DEF CopyBack, Extend
  <2> QED
    BY <1>1, <1>2, <2>1 DEF Where, Progress, PlaceOfCall, Op
<1>8. CASE Restore(r) \/ NoBuffer(r) \/ ReadFails(r) \/ WriteFails(r)
  <2>1. Goto(r, "result") /\ UNCHANGED results /\ pc[r] = "copy"
    BY <1>8 DEF Restore, NoBuffer, ReadFails, WriteFails, Fails, AfterFailure
  <2>2. Fits(r, "result")
    BY <1>2, <2>1 DEF Fits, Places, PlaceOfCall
  <2> QED
    BY <1>3, <2>1, <2>2
<1>9. CASE ShareResult(r)
  <2>1. Goto(r, "resize") /\ UNCHANGED results /\ pc[r] = "result"
    BY <1>9 DEF ShareResult
  <2>2. Fits(r, "resize")
    BY <1>2, <2>1 DEF Fits, Places, PlaceOfCall
  <2> QED
    BY <1>3, <2>1, <2>2
<1>10. CASE ResizeFile(r)
  <2>1. Goto(r, "barrier") /\ UNCHANGED results /\ Op(r) = "set_size"
    BY <1>10 DEF ResizeFile
  <2>2. Fits(r, "barrier")
    BY <2>1 DEF Fits, Places
  <2> QED
    BY <1>3, <2>1, <2>2
<1>11. CASE EndPreallocate(r)
  <2>1. Return(r, ret[r]) /\ ret[r] \in BOOLEAN
    BY <1>11 DEF EndPreallocate, TInv, TypeOK
  <2> QED
    BY <1>4, <2>1
<1>12. CASE GetSizeFails(r) \/ ResizeFails(r) \/ EndSync(r) \/ EndAtomicity(r)
  <2>1. \E b \in BOOLEAN : Return(r, b)
    BY <1>12 DEF GetSizeFails, ResizeFails, EndSync, EndAtomicity
  <2> QED
    BY <1>4, <2>1
<1>13. CASE LeaveBarrier(r)
  <2>1. CASE Op(r) = "sync"
    <3>1. Goto(r, "sync") /\ UNCHANGED results
      BY <1>13, <2>1 DEF LeaveBarrier
    <3>2. Fits(r, "sync")
      BY <2>1 DEF Fits, Places
    <3> QED
      BY <1>3, <3>1, <3>2
  <2>2. CASE Op(r) # "sync"
    BY <1>4, <1>13, <2>2 DEF LeaveBarrier
  <2> QED
    BY <2>1, <2>2
<1> QED
  BY <1>5, <1>6, <1>7, <1>8, <1>9, <1>10, <1>11, <1>12, <1>13 DEF Step

\* What the processes do in a call before they wait for each other.
LEMMA CallFacts ==
  ASSUME TInv, NEW r \in Ranks, Call(r)
  PROVE  \E op \in Ops : \E n \in Sizes :
           /\ Begins(r, op, n)
           /\ \/ /\ Goto(r, "bcast") /\ UNCHANGED <<met, results>>
                 /\ op \in {"preallocate", "set_size", "set_atomicity"}
                 /\ op = "set_atomicity" => state[r] # "ACTIVE"
              \/ /\ Goto(r, "barrier") /\ UNCHANGED results /\ op = "sync" /\ n = 0
                 /\ met' = [met EXCEPT ![r]["ompio"] = Append(@, [call |-> calls'[r], value |-> 0])]
              \/ /\ Return(r, FALSE) /\ UNCHANGED met
                 /\ \/ op = "set_atomicity" /\ state[r] = "ACTIVE"
                    \/ op = "sync" /\ n = 1
<1>1. {0, 1} \subseteq Sizes
  BY CollectivesAssumption DEF CollectivesAssumption, Sizes
<1>2. CASE "preallocate" \in Ops /\ \E n \in Sizes : Preallocate(r, n)
  <2>1. PICK n \in Sizes : Preallocate(r, n)
    BY <1>2
  <2>2. Begins(r, "preallocate", n) /\ Goto(r, "bcast") /\ UNCHANGED <<met, results>>
    BY <2>1 DEF Preallocate
  <2> QED
    BY <1>2, <2>2
<1>3. CASE "set_size" \in Ops /\ \E n \in Sizes : SetSize(r, n)
  <2>1. PICK n \in Sizes : SetSize(r, n)
    BY <1>3
  <2>2. Begins(r, "set_size", n) /\ Goto(r, "bcast") /\ UNCHANGED <<met, results>>
    BY <2>1 DEF SetSize
  <2> QED
    BY <1>3, <2>2
<1>4. CASE "set_atomicity" \in Ops /\ \E flag \in {0, 1} : SetAtomicity(r, flag)
  <2>1. PICK flag \in {0, 1} : SetAtomicity(r, flag)
    BY <1>4
  <2>2. /\ Begins(r, "set_atomicity", flag)
        /\ \/ Goto(r, "bcast") /\ UNCHANGED <<met, results>> /\ state[r] # "ACTIVE"
           \/ Return(r, FALSE) /\ UNCHANGED met /\ state[r] = "ACTIVE"
    BY <2>1 DEF SetAtomicity
  <2>3. flag \in Sizes
    BY <1>1
  <2> QED
    BY <1>4, <2>2, <2>3
<1>5. CASE "sync" \in Ops /\ \E waiting \in {0, 1} : Sync(r, waiting)
  <2>1. PICK waiting \in {0, 1} : Sync(r, waiting)
    BY <1>5
  <2>2. /\ Begins(r, "sync", waiting)
        /\ \/ /\ Goto(r, "barrier") /\ UNCHANGED results /\ waiting = 0
              /\ met' = [met EXCEPT ![r]["ompio"] = Append(@, [call |-> calls'[r], value |-> 0])]
           \/ Return(r, FALSE) /\ UNCHANGED met /\ waiting = 1
    BY <2>1 DEF Sync, SyncStart
  <2>3. waiting \in Sizes
    BY <1>1
  <2> QED
    BY <1>5, <2>2, <2>3
<1> QED
  BY <1>2, <1>3, <1>4, <1>5 DEF Call

LEMMA StepTInv == TInv /\ [Next]_vars => TInv'
<1> SUFFICES ASSUME TInv, [Next]_vars PROVE TInv'
  OBVIOUS
<1>1. ASSUME Fields', Where', MetFcn',
             \A q \in Ranks : \A d \in Comms : met'[q][d] \in Seq(Meetings(d))
      PROVE  TInv'
  <2>1. \A q \in Ranks : \A d \in Comms : (met[q][d] \in Seq(Meetings(d)))'
    BY <1>1 DEF Meetings
  <2> QED
    BY <1>1, <2>1 DEF TInv, TypeOK, Fields, Where
<1>2. CASE UNCHANGED vars
  <2>1. Fields' /\ Where'
    BY <1>2 DEF vars, TInv, TypeOK, Fields, Where, Progress, PlaceOfCall, Op
  <2> QED
    BY <1>1, <1>2, <2>1, NotMet DEF vars
<1>3. ASSUME NEW r \in Ranks, Step(r) PROVE TInv'
  BY <1>1, <1>3, FieldsStep, WhereStep, MetStep
<1>4. ASSUME NEW r \in Ranks, Call(r) PROVE TInv'
  <2>1. PICK op \in Ops, n \in Sizes :
          /\ Begins(r, op, n)
          /\ \/ /\ Goto(r, "bcast") /\ UNCHANGED <<met, results>>
                /\ op \in {"preallocate", "set_size", "set_atomicity"}
             \/ /\ Goto(r, "barrier") /\ UNCHANGED results /\ op = "sync"
                /\ met' = [met EXCEPT ![r]["ompio"] = Append(@, [call |-> calls'[r], value |-> 0])]
             \/ Return(r, FALSE) /\ UNCHANGED met
    BY <1>4, CallFacts
  <2>2. Fields'
    BY <2>1, FieldsBegin
  <2>3. Where'
    BY <2>1, BeginsMoves
  <2>4. MetFcn' /\ \A q \in Ranks : \A d \in Comms : met'[q][d] \in Seq(Meetings(d))
    <3>1. CASE UNCHANGED met
      BY <3>1, NotMet
    <3>2. CASE met' = [met EXCEPT ![r]["ompio"] = Append(@, [call |-> calls'[r], value |-> 0])]
      <4>1. calls'[r] \in 1..MaxCalls /\ 0 \in Sizes
        <5>1. MaxCalls \in Nat /\ 0 \in Sizes
          BY CollectivesAssumption DEF CollectivesAssumption, Sizes
        <5>2. calls'[r] \in 0..MaxCalls
          BY <2>2 DEF Fields
        <5>3. calls'[r] \in 1..Len(script')
          BY <2>1, BeginsFacts
        <5> QED
          BY <5>1, <5>2, <5>3
      <4>2. [call |-> calls'[r], value |-> 0] \in Meetings("ompio") /\ "ompio" \in Comms
        BY <4>1 DEF Meetings, Comms
      <4> QED
        BY <3>2, <4>2, MeetFacts
    <3> QED
      BY <2>1, <3>1, <3>2
  <2> QED
    BY <1>1, <2>2, <2>3, <2>4
<1> QED
  BY <1>2, <1>3, <1>4 DEF Next

\* The types of the processes, the meetings and the files.
THEOREM TypeCorrect == SafeSpec => []TypeOK
<1>1. TInv => TypeOK
  BY DEF TInv
<1> QED
  BY <1>1, InitTInv, StepTInv, PTL DEF SafeSpec
-----------------------------------------------------------------------------
(* The root's file pointer.                                                *)

AllGood == \A k \in DOMAIN results[Root] : results[Root][k]

\* A failure of preallocate is returned before the next call begins.
FailureKept ==
  /\ ~ret[Root] /\ pc[Root] = "idle" => ~AllGood
  /\ ~ret[Root] => pc[Root] \in {"idle", "result", "resize"}
  /\ ~ret[Root] /\ pc[Root] = "resize" => Op(Root) = "preallocate"

\* While it copies, the pointer is saved.
PointerSaved ==
  AllGood /\ ret[Root] => IF pc[Root] = "copy" THEN prev = 0 ELSE pos = 0

PInv == TInv /\ FailureKept /\ PointerSaved

LEMMA RootFacts ==
  TInv => Root \in Ranks /\ results[Root] \in Seq(BOOLEAN) /\ ret[Root] \in BOOLEAN
BY CollectivesAssumption DEF TInv, TypeOK, CollectivesAssumption

\* A step of another process leaves alone what the root's pointer depends on.
LEMMA OthersPointer ==
  ASSUME PInv, NEW r \in Ranks, r # Root, Step(r)
  PROVE  (FailureKept /\ PointerSaved)'
<1>1. /\ UNCHANGED <<script, calls, prev, pos>>
      /\ ret'[Root] = ret[Root] /\ pc'[Root] = pc[Root] /\ results'[Root] = results[Root]
  <2>1. /\ Root \in Ranks /\ PlaceOfCall(r)
        /\ pc \in [Ranks -> Places] /\ results \in [Ranks -> Seq(BOOLEAN)] /\ ret \in [Ranks -> BOOLEAN]
    BY RootFacts DEF PInv, TInv, TypeOK
  <2>2. \/ UNCHANGED pc
        \/ \E place : pc' = [pc EXCEPT ![r] = place]
    BY DEF Step, Agree, GetSize, GetSizeFails, CopyBack, Extend, Restore, Fails, NoBuffer,
           ReadFails, WriteFails, ShareResult, EndPreallocate,
           ResizeFile, ResizeFails, EndAtomicity, LeaveBarrier, EndSync, Return, Goto
  <2>3. \/ UNCHANGED results
        \/ \E b : results' = [results EXCEPT ![r] = Append(@, b)]
    BY DEF Step, Agree, GetSize, GetSizeFails, CopyBack, Extend, Restore, Fails, NoBuffer,
           ReadFails, WriteFails, ShareResult, EndPreallocate,
           ResizeFile, ResizeFails, EndAtomicity, LeaveBarrier, EndSync, Return, Goto
  <2>4. pc[r] # "copy"
    BY <2>1 DEF PlaceOfCall
  <2>5. \/ UNCHANGED ret
        \/ \E b : ret' = [ret EXCEPT ![r] = b]
    BY DEF Step, Agree, GetSize, GetSizeFails, CopyBack, Extend, Restore, Fails, NoBuffer,
           ReadFails, WriteFails, ShareResult, EndPreallocate,
           ResizeFile, ResizeFails, EndAtomicity, LeaveBarrier, EndSync
  <2>6. UNCHANGED <<script, calls, prev, pos>>
    BY <2>4 DEF Step, Agree, GetSize, GetSizeFails, CopyBack, Extend, Restore, Fails, NoBuffer,
           ReadFails, WriteFails, ShareResult, EndPreallocate, ResizeFile, ResizeFails, EndAtomicity, LeaveBarrier, EndSync
  <2> QED
    BY <2>1, <2>2, <2>3, <2>5, <2>6
<1> QED
  BY <1>1 DEF PInv, FailureKept, PointerSaved, AllGood, Op

\* The root returns from a call.
LEMMA RootReturns ==
  ASSUME PInv, NEW b \in BOOLEAN, pc[Root] # "idle", Return(Root, b),
         UNCHANGED <<script, calls, ret, pos>>, pc[Root] # "copy", ret[Root] \/ b = FALSE
  PROVE  (FailureKept /\ PointerSaved)'
<1>1. /\ Root \in Ranks /\ results[Root] \in Seq(BOOLEAN)
      /\ pc'[Root] = "idle" /\ results'[Root] = Append(results[Root], b)
  BY RootFacts, Returns DEF PInv
<1>2. /\ Len(results'[Root]) = Len(results[Root]) + 1
      /\ DOMAIN results'[Root] = 1..Len(results[Root]) + 1
      /\ results'[Root][Len(results[Root]) + 1] = b
      /\ \A k \in DOMAIN results[Root] : k \in DOMAIN results'[Root] /\ results'[Root][k] = results[Root][k]
  BY <1>1
<1>3. AllGood' => AllGood /\ b
  BY <1>1, <1>2 DEF AllGood
<1> QED
  BY <1>1, <1>3 DEF PInv, FailureKept, PointerSaved

\* The root goes on in its call, or begins one.
LEMMA RootGoesOn ==
  ASSUME PInv, NEW place, Goto(Root, place), UNCHANGED <<script, calls, results, ret>>,
         pc[Root] # "idle", place # "idle", place = "copy" => prev' = 0 \/ ~(AllGood /\ ret[Root]),
         place # "copy" => pos' = 0 \/ ~(AllGood /\ ret[Root]),
         ~ret[Root] => place = "result" \/ (place = "resize" /\ Op(Root) = "preallocate")
  PROVE  (FailureKept /\ PointerSaved)'
<1>1. pc'[Root] = place
  BY RootFacts DEF PInv, TInv, TypeOK, Goto
<1> QED
  BY <1>1 DEF FailureKept, PointerSaved, AllGood, Op

LEMMA RootPointer ==
  ASSUME PInv, Step(Root)
  PROVE  (FailureKept /\ PointerSaved)'
<1> DEFINE Fine == AllGood /\ ret[Root]
<1>1. /\ UNCHANGED <<script, calls, arg>> /\ pc[Root] # "idle" /\ Root \in Ranks
  BY StepMeeting, RootFacts DEF PInv
<1>2. /\ FailureKept /\ PointerSaved /\ PlaceOfCall(Root) /\ ret[Root] \in BOOLEAN
  BY <1>1 DEF PInv, TInv, TypeOK
<1>3. CASE Agree(Root)
  <2>1. ret[Root] /\ UNCHANGED <<ret, pos>> /\ pc[Root] = "bcast"
    BY <1>2, <1>3 DEF Agree, FailureKept
  <2>2. CASE Return(Root, FALSE)
    BY <1>1, <2>1, <2>2, RootReturns
  <2>3. CASE ~Return(Root, FALSE)
    <3> DEFINE place == CASE Op(Root) = "preallocate" -> "size"
                          [] Op(Root) = "set_size" -> "resize"
                          [] Op(Root) = "set_atomicity" -> "atomicity"
    <3>1. Goto(Root, place) /\ UNCHANGED results
      BY <1>3, <2>3 DEF Agree
    <3>2. place # "idle" /\ place # "copy"
      BY <1>2, <2>1 DEF PlaceOfCall
    <3>3. pos' = 0 \/ ~Fine
      BY <1>2, <2>1 DEF PointerSaved
    <3> HIDE DEF place
    <3> QED
      BY <1>1, <2>1, <3>1, <3>2, <3>3, RootGoesOn
  <2> QED
    BY <2>2, <2>3
<1>4. CASE GetSize(Root)
  <2>1. ret[Root] /\ UNCHANGED <<ret, pos>> /\ pc[Root] = "size"
    BY <1>2, <1>4 DEF GetSize, FailureKept
  <2>2. CASE TooLarge(Root)
    <3>1. Return(Root, TRUE)
      BY <1>4, <2>2 DEF GetSize
    <3> QED
      BY <1>1, <2>1, <3>1, RootReturns
  <2>3. CASE ~TooLarge(Root)
    <3>1. Goto(Root, "copy") /\ UNCHANGED results /\ prev' = pos
      BY <1>4, <2>3 DEF GetSize
    <3>2. prev' = 0 \/ ~Fine
      BY <1>2, <2>1, <3>1 DEF PointerSaved
    <3> QED
      BY <1>1, <2>1, <3>1, <3>2, RootGoesOn
  <2> QED
    BY <2>2, <2>3
<1>5. CASE CopyBack(Root) \/ Extend(Root)
  <2>1. UNCHANGED <<pc, results, ret, prev>> /\ pc[Root] = "copy"
    BY <1>5 DEF CopyBack, Extend
  <2> QED
    BY <1>1, <1>2, <2>1 DEF FailureKept, PointerSaved, AllGood, Op
<1>6. CASE Restore(Root)
  <2>1. /\ pc[Root] = "copy" /\ pos' = prev /\ UNCHANGED <<results, ret>>
        /\ Goto(Root, "result") /\ ret[Root]
    BY <1>2, <1>6 DEF Restore, Restored, FailureKept
  <2>2. pos' = 0 \/ ~Fine
    BY <1>2, <2>1 DEF PointerSaved
  <2> QED
    BY <1>1, <2>1, <2>2, RootGoesOn
<1>7. CASE NoBuffer(Root) \/ ReadFails(Root) \/ WriteFails(Root)
  <2>1. pc'[Root] = "result" /\ ~ret'[Root]
    BY <1>1, <1>7 DEF NoBuffer, ReadFails, WriteFails, Fails, AfterFailure, Goto, PInv, TInv, TypeOK
  <2> QED
    BY <2>1 DEF FailureKept, PointerSaved
<1>8. CASE ShareResult(Root)
  <2>1. Goto(Root, "resize") /\ UNCHANGED <<results, pos>> /\ pc[Root] = "result"
    BY <1>8 DEF ShareResult
  <2>2. UNCHANGED ret
    <3>1. Shared(Root) = ret[Root] /\ ret' = [ret EXCEPT ![Root] = Shared(Root)]
      BY <1>8 DEF ShareResult, Shared, Bcast
    <3> QED
      BY <3>1 DEF PInv, TInv, TypeOK
  <2>3. pos' = 0 \/ ~Fine
    BY <1>2, <2>1 DEF PointerSaved
  <2>4. Op(Root) = "preallocate"
    BY <1>2, <2>1 DEF PlaceOfCall
  <2> QED
    BY <1>1, <2>1, <2>2, <2>3, <2>4, RootGoesOn
<1>9. CASE EndPreallocate(Root)
  <2>1. Return(Root, ret[Root]) /\ UNCHANGED <<ret, pos>> /\ pc[Root] = "resize"
    BY <1>9 DEF EndPreallocate
  <2> QED
    BY <1>1, <1>2, <2>1, RootReturns
<1>10. CASE ResizeFile(Root)
  <2>1. /\ Goto(Root, "barrier") /\ UNCHANGED <<results, ret, pos>> /\ pc[Root] = "resize"
        /\ Op(Root) = "set_size"
    BY <1>10 DEF ResizeFile
  <2>2. ret[Root]
    BY <1>2, <2>1 DEF FailureKept
  <2>3. pos' = 0 \/ ~Fine
    BY <1>2, <2>1 DEF PointerSaved
  <2> QED
    BY <1>1, <2>1, <2>2, <2>3, RootGoesOn
<1>11. CASE ResizeFails(Root)
  <2>1. Return(Root, FALSE) /\ UNCHANGED <<ret, pos>> /\ pc[Root] = "resize"
    BY <1>11 DEF ResizeFails
  <2> QED
    BY <1>1, <2>1, RootReturns
<1>12. CASE EndAtomicity(Root)
  <2>1. PICK atomic \in BOOLEAN : Return(Root, atomic)
    BY <1>12 DEF EndAtomicity
  <2>2. UNCHANGED <<ret, pos>> /\ pc[Root] = "atomicity" /\ ret[Root]
    BY <1>2, <1>12 DEF EndAtomicity, FailureKept
  <2> QED
    BY <1>1, <2>1, <2>2, RootReturns
<1>13. CASE LeaveBarrier(Root)
  <2>1. UNCHANGED <<ret, pos>> /\ pc[Root] = "barrier" /\ ret[Root]
    BY <1>2, <1>13 DEF LeaveBarrier, FailureKept
  <2>2. CASE Op(Root) = "sync"
    <3>1. Goto(Root, "sync") /\ UNCHANGED results
      BY <1>13, <2>2 DEF LeaveBarrier
    <3>2. pos' = 0 \/ ~Fine
      BY <1>2, <2>1 DEF PointerSaved
    <3> QED
      BY <1>1, <2>1, <3>1, <3>2, RootGoesOn
  <2>3. CASE Op(Root) # "sync"
    <3>1. Return(Root, TRUE)
      BY <1>13, <2>3 DEF LeaveBarrier
    <3> QED
      BY <1>1, <2>1, <3>1, RootReturns
  <2> QED
    BY <2>2, <2>3
<1>14. CASE EndSync(Root)
  <2>1. PICK b \in BOOLEAN : Return(Root, b)
    BY <1>14 DEF EndSync
  <2>2. UNCHANGED <<ret, pos>> /\ pc[Root] = "sync" /\ ret[Root]
    BY <1>2, <1>14 DEF EndSync, FailureKept
  <2> QED
    BY <1>1, <2>1, <2>2, RootReturns
<1>15. CASE GetSizeFails(Root)
  <2>1. Return(Root, FALSE) /\ UNCHANGED <<ret, pos>> /\ pc[Root] = "size"
    BY <1>15 DEF GetSizeFails
  <2> QED
    BY <1>1, <2>1, RootReturns
<1> QED
  BY <1>3, <1>4, <1>5, <1>6, <1>7, <1>8, <1>9, <1>10, <1>11, <1>12, <1>13, <1>14,
     <1>15 DEF Step

\* Beginning a call, the root forgets that the last one failed.
LEMMA CallPointer ==
  ASSUME PInv, NEW r \in Ranks, Call(r)
  PROVE  (FailureKept /\ PointerSaved)'
<1>1. PICK op \in Ops, n \in Sizes :
        /\ Begins(r, op, n)
        /\ \/ \E place \in {"bcast", "barrier"} : Goto(r, place) /\ UNCHANGED results
           \/ Return(r, FALSE)
  BY CallFacts DEF PInv
<1>2. /\ pc \in [Ranks -> Places] /\ results \in [Ranks -> Seq(BOOLEAN)] /\ ret \in [Ranks -> BOOLEAN]
      /\ Root \in Ranks /\ FailureKept /\ PointerSaved /\ Progress(Root)
  BY RootFacts DEF PInv, TInv, TypeOK
<1>3. pc[r] = "idle" /\ UNCHANGED <<prev, pos>> /\ ret' = [ret EXCEPT ![r] = TRUE]
  BY <1>1 DEF Begins
<1>4. CASE r # Root
  <2>1. pc'[Root] = pc[Root] /\ results'[Root] = results[Root] /\ ret'[Root] = ret[Root]
    BY <1>1, <1>2, <1>3, <1>4 DEF Goto, Return
  <2>2. pc[Root] # "idle" => Op(Root)' = Op(Root)
    <3>1. /\ calls'[Root] = calls[Root] /\ \A i \in 1..Len(script) : script'[i] = script[i]
      BY <1>1, <1>2, <1>4, BeginsFacts DEF PInv
    <3>2. pc[Root] # "idle" => calls[Root] \in 1..Len(script)
      BY <1>2 DEF Progress, PInv, TInv, TypeOK
    <3> QED
      BY <3>1, <3>2 DEF Op
  <2> QED
    BY <1>2, <1>3, <2>1, <2>2 DEF FailureKept, PointerSaved, AllGood
<1>5. CASE r = Root
  <2>1. ret'[Root] /\ pc'[Root] \in {"bcast", "barrier", "idle"}
    BY <1>1, <1>2, <1>3, <1>5 DEF Goto, Return
  <2>2. AllGood' => AllGood
    <3>1. CASE UNCHANGED results
      BY <3>1 DEF AllGood
    <3>2. CASE Return(r, FALSE)
      <4>1. results'[Root] = Append(results[Root], FALSE) /\ results[Root] \in Seq(BOOLEAN)
        BY <1>2, <1>5, <3>2 DEF Return
      <4>2. \A k \in DOMAIN results[Root] :
              k \in DOMAIN results'[Root] /\ results'[Root][k] = results[Root][k]
        <5> DEFINE s == results[Root]
                   t == results'[Root]
        <5>1. s \in Seq(BOOLEAN) /\ t = Append(s, FALSE)
          BY <4>1
        <5> HIDE DEF s, t
        <5>2. DOMAIN s = 1..Len(s) /\ DOMAIN t = 1..Len(s) + 1 /\ \A k \in 1..Len(s) : t[k] = s[k]
          BY <5>1
        <5>3. Len(s) \in Nat
          BY <5>1
        <5>4. \A k \in DOMAIN s : k \in DOMAIN t /\ t[k] = s[k]
          BY <5>2, <5>3
        <5> QED
          BY <5>4 DEF s, t
      <4> QED
        BY <4>2 DEF AllGood
    <3> QED
      BY <1>1, <3>1, <3>2
  <2>3. AllGood => ret[Root]
    BY <1>2, <1>3, <1>5 DEF FailureKept
  <2> QED
    BY <1>2, <1>3, <1>5, <2>1, <2>2, <2>3 DEF FailureKept, PointerSaved
<1> QED
  BY <1>4, <1>5

\* As long as every call succeeded at the root, its file pointer is where it
\* was at the start (mca_io_bbview_file_preallocate saves and restores it).
THEOREM PointerCorrect == SafeSpec => []PointerKept
<1>1. Init => PInv
  <2>1. Init => FailureKept /\ PointerSaved
    BY CollectivesAssumption
    DEF Init, FailureKept, PointerSaved, AllGood, CollectivesAssumption
  <2> QED
    BY <2>1, InitTInv DEF PInv
<1>2. PInv /\ [Next]_vars => PInv'
  <2> SUFFICES ASSUME PInv, [Next]_vars PROVE (FailureKept /\ PointerSaved)'
    BY StepTInv DEF PInv
  <2>1. CASE UNCHANGED vars
    BY <2>1 DEF vars, PInv, FailureKept, PointerSaved, AllGood, Op
  <2>2. ASSUME NEW r \in Ranks, Call(r) \/ Step(r) PROVE (FailureKept /\ PointerSaved)'
    <3>1. CASE Step(r) /\ r # Root
      BY <3>1, OthersPointer
    <3>2. CASE Step(r) /\ r = Root
      BY <3>2, RootPointer
    <3> QED
      BY <2>2, <3>1, <3>2, CallPointer
  <2> QED
    BY <2>1, <2>2 DEF Next
<1>3. PInv => PointerKept
  BY DEF PInv, PointerSaved, PointerKept, AllGood
<1> QED
  BY <1>1, <1>2, <1>3, PTL DEF SafeSpec
=============================================================================
