--------------------------- MODULE LocalFileProofs ---------------------------
(***************************************************************************)
(* LocalFile implements ViewStore for any views, numbers of chunks and     *)
(* bounds, when the name is reused only after its job is over and execute  *)
(* has room for every description; and enable_directio is right for any    *)
(* datatypes.                                                              *)
(***************************************************************************)
EXTENDS LocalFile, TLAPS, WellFoundedInduction

\* Chunks 0..n-1 of v are in the attributes.
Written(v, n) == \A k \in 0..n - 1 : attr.chunks[k] = v

\* The attributes are all v's.
Complete(v) == /\ attr.dest = v /\ attr.disp = v /\ attr.etype = v
               /\ Written(v, Chunks[v])

\* A flush has written the attributes before the one it is at.
Progress ==
  /\ view = None => step = "idle"
  /\ step \in {"disp", "chunks", "etype", "send"} => attr.dest = view
  /\ step \in {"chunks", "etype", "send"} => attr.disp = view /\ Written(view, chunk)
  /\ step \in {"etype", "send"} => chunk >= Chunks[view]
  /\ step = "send" => attr.etype = view

\* One job at a time, with its view complete and nobody writing to the file.
OneJob == \/ jobs = << >>
          \/ /\ view = None
             /\ \E v \in Views : jobs = <<v>> /\ Complete(v)

\* What the worker has read is what the attributes hold.
ReadSoFar ==
  reading # "idle" =>
    /\ jobs # << >>
    /\ got.dest = attr.dest
    /\ reading \in {"chunks", "disp", "unpack"} => got.etype = attr.etype
    /\ \A i \in 1..Len(got.chunks) : i - 1 \in Indices /\ got.chunks[i] = attr.chunks[i - 1]
    /\ reading \in {"disp", "unpack"} => Len(got.chunks) >= Chunks[jobs[1]]
    /\ reading = "unpack" => got.disp = attr.disp

IInv == TypeOK /\ Progress /\ OneJob /\ ReadSoFar
-----------------------------------------------------------------------------
USE LocalFileAssumption

LEMMA NothingRead == Nothing \in Readings
  BY DEF Nothing, Readings

\* What the invariant says of the only job.
LEMMA TheJob ==
  ASSUME IInv, jobs # << >>
  PROVE  /\ view = None /\ jobs[1] \in Views /\ jobs = <<jobs[1]>> /\ Tail(jobs) = << >>
         /\ Complete(jobs[1]) /\ step = "idle"
  <1>1. PICK v \in Views : view = None /\ jobs = <<v>> /\ Complete(v)
    BY DEF IInv, OneJob
  <1>2. Tail(<<v>>) = << >> /\ <<v>>[1] = v
    OBVIOUS
  <1>. QED BY <1>1, <1>2 DEF IInv, Progress

LEMMA InitInv == Init => IInv
  BY NothingRead DEF Init, IInv, TypeOK, Progress, OneJob, ReadSoFar, Attributes, Nothing, Indices,
         FlushSteps, ReadSteps

\* The steps of the process.
LEMMA AttachInv ==
  ASSUME IInv, "reopen" \in Rules, NEW v \in Views, NEW t \in Types, NEW h \in Hints,
         Attach(v, t, h)
  PROVE  IInv'
  <1>1. jobs = << >> /\ view = None /\ view' = v /\ jobs' = jobs /\ step' = step
        /\ attr' = attr /\ reading' = reading /\ got' = got /\ chunk' = chunk
    BY DEF Attach, worker
  <1>2. step = "idle" /\ reading = "idle"
    BY <1>1 DEF IInv, Progress, ReadSoFar
  <1>3. Direct(t, h) \in BOOLEAN
    BY DEF Direct
  <1>4. TypeOK'
    BY <1>1, <1>3 DEF Attach, IInv, TypeOK
  <1>5. Progress' /\ OneJob' /\ ReadSoFar'
    BY <1>1, <1>2 DEF Progress, OneJob, ReadSoFar
  <1>. QED BY <1>4, <1>5 DEF IInv

\* While a handle buffers in the file no job of the name waits or runs.
LEMMA WriterAlone ==
  ASSUME IInv, view # None
  PROVE  jobs = << >> /\ reading = "idle" /\ view \in Views
  BY TheJob DEF IInv, TypeOK, ReadSoFar

\* The steps of a flush that write an attribute or only move on.
LEMMA FlushInv ==
  ASSUME IInv, Flush \/ SetDest \/ SetDisp \/ SetChunk \/ ChunksDone \/ SetEtype \/ FlushFails
  PROVE  IInv'
  <1>1. view # None
    BY DEF IInv, Progress, Flush, SetDest, SetDisp, SetChunk, ChunksDone, SetEtype, FlushFails
  <1>2. jobs = << >> /\ reading = "idle" /\ view \in Views
    BY <1>1, WriterAlone
  <1>3. jobs' = jobs /\ reading' = reading /\ view' = view /\ got' = got
        /\ opens' = opens /\ descr' = descr
    BY DEF Flush, SetDest, SetDisp, SetChunk, ChunksDone, SetEtype, FlushFails, worker
  <1>4. OneJob' /\ ReadSoFar'
    BY <1>2, <1>3 DEF OneJob, ReadSoFar
  <1>5. Chunks[view] \in 1..MaxChunks
    BY <1>2
  <1>6. CASE Flush
    BY <1>1, <1>2, <1>3, <1>4, <1>6 DEF Flush, IInv, TypeOK, FlushSteps, Progress
  <1>7. CASE SetDest
    BY <1>1, <1>2, <1>3, <1>4, <1>7
       DEF SetDest, IInv, TypeOK, FlushSteps, Progress, Attributes
  <1>8. CASE SetDisp
    <2>1. chunk' = 0 /\ step' = "chunks" /\ attr' \in Attributes /\ attr'.disp = view
          /\ attr'.dest = attr.dest /\ attr'.etype = attr.etype
      BY <1>2, <1>8 DEF SetDisp, IInv, TypeOK, Attributes
    <2>2. TypeOK'
      BY <1>3, <1>8, <2>1 DEF SetDisp, IInv, TypeOK, FlushSteps
    <2>3. Progress'
      BY <1>1, <1>3, <1>8, <2>1 DEF SetDisp, IInv, Progress, Written
    <2>. QED BY <1>4, <2>2, <2>3 DEF IInv
  <1>9. CASE SetChunk
    <2>1. chunk \in Indices /\ chunk < Chunks[view] /\ chunk \in Nat /\ chunk + 1 \in 0..MaxChunks
      BY <1>5, <1>9 DEF SetChunk, MoreChunks, Indices, IInv, TypeOK
    <2>2. attr \in Attributes
      BY DEF IInv, TypeOK
    <2>3. attr' \in Attributes /\ attr'.dest = attr.dest /\ attr'.disp = attr.disp
          /\ \A k \in Indices : attr'.chunks[k] = IF k = chunk THEN view ELSE attr.chunks[k]
      BY <1>2, <1>9, <2>1, <2>2 DEF SetChunk, Attributes
    <2>4. Written(view, chunk)
      BY <1>9 DEF SetChunk, IInv, Progress
    <2>5. Written(view, chunk)' <=> \A k \in 0..chunk' - 1 : attr'.chunks[k] = view
      BY <1>3 DEF Written
    <2>6. Written(view, chunk)'
      BY <1>9, <2>1, <2>3, <2>4, <2>5 DEF SetChunk, Written, Indices
    <2>7. TypeOK'
      BY <1>3, <1>9, <2>1, <2>3 DEF SetChunk, IInv, TypeOK
    <2>8. Progress'
      BY <1>1, <1>3, <1>9, <2>3, <2>6 DEF SetChunk, IInv, Progress
    <2>. QED BY <1>4, <2>7, <2>8 DEF IInv
  <1>10. CASE ChunksDone
    BY <1>1, <1>2, <1>3, <1>4, <1>5, <1>10
       DEF ChunksDone, MoreChunks, AfterChunks, IInv, TypeOK, FlushSteps, Progress, Written
  <1>11. CASE SetEtype
    BY <1>1, <1>2, <1>3, <1>4, <1>11
       DEF SetEtype, IInv, TypeOK, FlushSteps, Progress, Attributes, Written
  <1>12. CASE FlushFails
    BY <1>1, <1>2, <1>3, <1>4, <1>12 DEF FlushFails, IInv, TypeOK, FlushSteps, Progress
  <1>. QED BY <1>6, <1>7, <1>8, <1>9, <1>10, <1>11, <1>12

LEMMA SendInv ==
  ASSUME IInv, Send
  PROVE  IInv' /\ view \in Views /\ jobs' = Append(jobs, view)
  <1>1. view # None
    BY DEF IInv, Progress, Send
  <1>2. jobs = << >> /\ reading = "idle" /\ view \in Views
    BY <1>1, WriterAlone
  <1>3. jobs' = <<view>> /\ view' = None /\ step' = "idle" /\ attr' = attr
        /\ reading' = reading /\ got' = got /\ descr' = None
    BY <1>2 DEF Send, worker
  <1>4. Complete(view)
    <2>1. Chunks[view] \in Nat /\ chunk \in Nat /\ chunk >= Chunks[view] /\ Written(view, chunk)
      BY <1>2 DEF IInv, TypeOK, Progress, Send
    <2>2. Written(view, Chunks[view])
      BY <2>1 DEF Written
    <2>. QED BY <2>2 DEF Complete, IInv, Progress, Send
  <1>5. TypeOK'
    BY <1>2, <1>3 DEF Send, IInv, TypeOK, FlushSteps
  <1>6. OneJob'
    BY <1>2, <1>3, <1>4 DEF OneJob, Complete, Written
  <1>7. Progress' /\ ReadSoFar'
    BY <1>2, <1>3 DEF Progress, ReadSoFar
  <1>. QED BY <1>2, <1>5, <1>6, <1>7 DEF IInv, Send

LEMMA KilledInv ==
  ASSUME IInv, Killed
  PROVE  IInv'
  <1>1. jobs = << >> /\ reading = "idle"
    BY WriterAlone DEF Killed
  <1>2. TypeOK' /\ Progress'
    BY DEF Killed, worker, IInv, TypeOK, FlushSteps, Progress
  <1>3. OneJob' /\ ReadSoFar'
    BY <1>1 DEF Killed, worker, OneJob, ReadSoFar
  <1>. QED BY <1>2, <1>3 DEF IInv
-----------------------------------------------------------------------------
(* The steps of the worker.                                                *)

\* No attribute is ever missing.
LEMMA ReadInv ==
  ASSUME IInv, DescriptionsFit, ReadDest \/ ReadEtype \/ ReadChunk \/ NoMoreChunks \/ ReadDisp
  PROVE  IInv' /\ UNCHANGED <<jobs, result>>
  <1> DEFINE v == jobs[1]
  <1>1. jobs # << >>
    BY DEF IInv, ReadSoFar, ReadDest, ReadEtype, ReadChunk, NoMoreChunks, ReadDisp
  <1>2. v \in Views /\ Complete(v) /\ view = None /\ step = "idle"
    BY <1>1, TheJob
  <1>3. UNCHANGED <<process, attr>>
    BY DEF ReadDest, ReadEtype, ReadChunk, NoMoreChunks, ReadDisp
  <1>4. Chunks[v] \in 1..MaxChunks /\ Chunks[v] <= Limit /\ v # None
    BY <1>2 DEF DescriptionsFit
  <1>5. /\ attr.dest = v /\ attr.disp = v /\ attr.etype = v
        /\ \A k \in 0..Chunks[v] - 1 : attr.chunks[k] = v
        /\ attr.chunks \in [Indices -> Views \cup {None}]
    BY <1>2 DEF Complete, Written, IInv, TypeOK, Attributes
  <1>0. v = jobs[1]
    OBVIOUS
  <1> HIDE DEF v
  <1>6. SUFFICES TypeOK' /\ ReadSoFar' /\ UNCHANGED <<jobs, result>>
    BY <1>3 DEF process, IInv, Progress, OneJob, Complete, Written
  <1>7. got \in Readings
    BY DEF IInv, TypeOK
  <1>8. Len(got.chunks) \in Nat /\ Limit \in Nat
    BY <1>7 DEF Readings
  <1>9. CASE ReadDest
    <2>1. /\ got' = [Nothing EXCEPT !.dest = attr.dest] /\ reading' = "etype"
          /\ UNCHANGED <<jobs, result>>
      BY <1>4, <1>5, <1>9 DEF ReadDest
    <2>2. got' \in Readings /\ got'.dest = attr.dest /\ got'.chunks = << >> /\ Len(got'.chunks) = 0
      BY <1>2, <1>5, <2>1, NothingRead DEF Nothing, Readings
    <2>. QED BY <1>0, <1>1, <1>3, <2>1, <2>2
            DEF process, IInv, TypeOK, ReadSoFar, ReadSteps
  <1>10. CASE ReadEtype
    BY <1>0, <1>1, <1>2, <1>3, <1>4, <1>5, <1>7, <1>10
       DEF ReadEtype, process, IInv, TypeOK, ReadSoFar, ReadSteps, Readings
  <1>11. CASE ReadChunk
    <2>1. attr.chunks[Len(got.chunks)] \in Views /\ Len(got.chunks) \in Indices
      BY <1>5, <1>8, <1>11 DEF ReadChunk, HasChunk
    <2>2. /\ got' \in Readings
          /\ got'.dest = got.dest /\ got'.etype = got.etype /\ got'.disp = got.disp
          /\ got'.chunks = Append(got.chunks, attr.chunks[Len(got.chunks)])
      <3> DEFINE s == Append(got.chunks, attr.chunks[Len(got.chunks)])
      <3>1. s \in Seq(Views)
        BY <1>7, <2>1 DEF Readings
      <3>2. got' = [got EXCEPT !.chunks = s]
        BY <1>11 DEF ReadChunk
      <3> HIDE DEF s
      <3>3. got' \in Readings /\ got'.chunks = s /\ got'.dest = got.dest
            /\ got'.etype = got.etype /\ got'.disp = got.disp
        BY <1>7, <3>1, <3>2 DEF Readings
      <3>. QED BY <3>3 DEF s
    <2>3. \A i \in 1..Len(got'.chunks) : i - 1 \in Indices /\ got'.chunks[i] = attr.chunks[i - 1]
      <3>1. got.chunks \in Seq(Views) /\ Len(got'.chunks) = Len(got.chunks) + 1
        BY <1>7, <2>1, <2>2 DEF Readings
      <3>2. \A i \in 1..Len(got.chunks) :
              i - 1 \in Indices /\ got.chunks[i] = attr.chunks[i - 1] /\ got'.chunks[i] = got.chunks[i]
        BY <1>11, <2>1, <2>2, <3>1 DEF ReadChunk, IInv, ReadSoFar
      <3>3. got'.chunks[Len(got.chunks) + 1] = attr.chunks[Len(got.chunks)]
        BY <2>1, <2>2, <3>1
      <3>4. ASSUME NEW i \in 1..Len(got'.chunks)
            PROVE  i - 1 \in Indices /\ got'.chunks[i] = attr.chunks[i - 1]
        <4>1. CASE i = Len(got.chunks) + 1
          BY <1>8, <2>1, <3>3, <4>1
        <4>2. CASE i # Len(got.chunks) + 1
          BY <1>8, <3>1, <3>2, <4>2
        <4>. QED BY <4>1, <4>2
      <3>. QED BY <3>4
    <2>. QED BY <1>0, <1>1, <1>3, <1>11, <2>2, <2>3
            DEF ReadChunk, process, IInv, TypeOK, ReadSoFar, ReadSteps
  <1>12. CASE NoMoreChunks
    <2>1. Len(got.chunks) >= Chunks[v]
      <3>1. SUFFICES ASSUME Len(got.chunks) < Chunks[v] PROVE FALSE
        BY <1>4, <1>8
      <3>2. Len(got.chunks) \in 0..Chunks[v] - 1 /\ Len(got.chunks) \in Indices
        BY <1>4, <1>8, <3>1 DEF Indices
      <3>. QED BY <1>4, <1>5, <1>8, <1>12, <3>1, <3>2 DEF NoMoreChunks, RoomForChunk, HasChunk
    <2>2. got.chunks # << >>
      BY <1>4, <2>1
    <2>. QED BY <1>0, <1>1, <1>3, <1>12, <2>1, <2>2
            DEF NoMoreChunks, process, IInv, TypeOK, ReadSoFar, ReadSteps
  <1>13. CASE ReadDisp
    <2>1. /\ got' \in Readings
          /\ got'.dest = got.dest /\ got'.etype = got.etype /\ got'.disp = attr.disp
          /\ got'.chunks = got.chunks /\ reading' = "unpack" /\ UNCHANGED <<jobs, result>>
      BY <1>2, <1>4, <1>5, <1>7, <1>13 DEF ReadDisp, Readings
    <2>. QED BY <1>0, <1>1, <1>3, <1>13, <2>1
            DEF ReadDisp, process, IInv, TypeOK, ReadSoFar, ReadSteps
  <1>. QED BY <1>9, <1>10, <1>11, <1>12, <1>13

\* A job is run with its view.
LEMMA UnpackInv ==
  ASSUME IInv, Unpack
  PROVE  IInv' /\ jobs # << >> /\ jobs' = Tail(jobs) /\ result' = Store!Whole(Head(jobs))
  <1> DEFINE v == jobs[1]
  <1>1. jobs # << >>
    BY DEF IInv, ReadSoFar, Unpack
  <1>2. /\ v \in Views /\ Complete(v) /\ view = None /\ step = "idle" /\ Tail(jobs) = << >>
        /\ Head(jobs) = v
    BY <1>1, TheJob DEF IInv, TypeOK
  <1> HIDE DEF v
  <1>3. Chunks[v] \in 1..MaxChunks
    BY <1>2
  <1>4. got.dest = v /\ got.disp = v /\ got.etype = v
    BY <1>2 DEF Unpack, IInv, ReadSoFar, Complete
  <1>5. Decode(got.chunks) = v
    <2>1. Len(got.chunks) \in Nat /\ Len(got.chunks) >= Chunks[v]
      BY DEF Unpack, IInv, TypeOK, ReadSoFar, v
    <2>2. \A k \in 1..Chunks[v] : got.chunks[k] = attr.chunks[k - 1]
      <3>1. \A i \in 1..Len(got.chunks) : got.chunks[i] = attr.chunks[i - 1]
        BY DEF Unpack, IInv, ReadSoFar
      <3>. QED BY <1>3, <2>1, <3>1
    <2>3. \A k \in 1..Chunks[v] : attr.chunks[k - 1] = v
      BY <1>2, <1>3 DEF Complete, Written
    <2>4. got.chunks[1] = v
      BY <1>3, <2>2, <2>3
    <2>. QED BY <2>1, <2>2, <2>3, <2>4 DEF Decode
  <1>6. result' = Store!Whole(Head(jobs)) /\ jobs' = Tail(jobs)
    BY <1>2, <1>4, <1>5 DEF Unpack, Store!Whole
  <1>7. TypeOK' /\ Progress'
    <2>1. jobs' = << >> /\ got' = Nothing /\ reading' = "idle" /\ UNCHANGED <<process, attr>>
      BY <1>2 DEF Unpack
    <2>2. jobs' \in Seq(Views) /\ got' \in Readings /\ reading' \in ReadSteps
      BY <2>1, NothingRead DEF ReadSteps
    <2>. QED BY <2>1, <2>2 DEF process, IInv, TypeOK, Progress, Written
  <1>8. OneJob' /\ ReadSoFar'
    BY <1>2 DEF Unpack, OneJob, ReadSoFar
  <1>. QED BY <1>1, <1>6, <1>7, <1>8 DEF IInv
-----------------------------------------------------------------------------
\* The invariant, and what each step is for the abstract store.
LEMMA StepInv ==
  ASSUME "reopen" \in Rules, DescriptionsFit, IInv, [Next]_vars
  PROVE  IInv' /\ [Store!Next]_<<jobs, result>>
  <1>1. CASE SetView
    BY <1>1, AttachInv DEF SetView, Attach, worker
  <1>2. CASE Send
    BY <1>2, SendInv DEF Send, worker, Store!Next, Store!Publish
  <1>3. CASE Flush \/ (FlushStep /\ ~Send)
    <2>1. IInv'
      BY <1>3, FlushInv DEF FlushStep
    <2>2. UNCHANGED <<jobs, result>>
      BY <1>3 DEF Flush, FlushStep, SetDest, SetDisp, SetChunk, ChunksDone, SetEtype,
                  FlushFails, worker
    <2>. QED BY <2>1, <2>2
  <1>4. CASE Killed
    BY <1>4, KilledInv DEF Killed, worker
  <1>5. CASE Unpack
    BY <1>5, UnpackInv DEF Store!Next, Store!Fetch
  <1>6. CASE Worker /\ ~Unpack
    BY <1>6, ReadInv DEF Worker
  <1>7. CASE UNCHANGED vars
    BY <1>7 DEF vars, IInv, TypeOK, Progress, OneJob, Complete, Written, ReadSoFar
  <1>. QED BY <1>1, <1>2, <1>3, <1>4, <1>5, <1>6, <1>7 DEF Next

\* The state keeps its types: in particular the flush never numbers a chunk
\* beyond those the description has.
THEOREM TypeCorrect ==
  ASSUME "reopen" \in Rules, DescriptionsFit
  PROVE  SafeSpec => []TypeOK
  <1>1. IInv /\ [Next]_vars => IInv'
    BY StepInv
  <1>2. IInv => TypeOK
    BY DEF IInv
  <1>. QED BY <1>1, <1>2, InitInv, PTL DEF SafeSpec

\* The attributes are a channel: the worker is given each flushed view whole,
\* once and in order (set_xattrs_for_bbview, worker_fn and execute), whatever
\* was left behind in them.
THEOREM Channel ==
  ASSUME "reopen" \in Rules, DescriptionsFit
  PROVE  SafeSpec => Store!Safe
  <1>1. Init => Store!Init
    BY DEF Init, Store!Init
  <1>2. IInv /\ [Next]_vars => IInv' /\ [Store!Next]_<<jobs, result>>
    BY StepInv
  <1>. QED BY <1>1, <1>2, InitInv, PTL DEF SafeSpec, Store!Safe
-----------------------------------------------------------------------------
(* The choice of O_DIRECT: datatypes are made from datatypes.              *)

\* A set of numbers that is not empty has a least one.
LEMMA Least ==
  ASSUME NEW T, T \subseteq Nat, T # {}
  PROVE  \E x \in T : \A y \in T : x <= y
  <1> DEFINE R == {ss \in Nat \X Nat : ss[1] < ss[2]}
  <1>1. PICK x \in T : \A y \in T : ~(<<y, x>> \in R)
    <2> HIDE DEF R
    <2>1. IsWellFoundedOn(R, Nat)
      BY NatLessThanWellFounded, Zenon DEF R, OpToRel
    <2>. QED BY <2>1, WFMin
  <1>2. ASSUME NEW y \in T PROVE x <= y
    <2>1. x \in Nat /\ y \in Nat
      OBVIOUS
    <2>2. ~(y < x)
      BY <1>1, <2>1
    <2>. QED BY <2>1, <2>2
  <1>. QED BY <1>2

\* What holds of a datatype when it holds of its components holds of all.
LEMMA Induction ==
  ASSUME NEW S, \A t \in Types : Components(t) \subseteq S => t \in S
  PROVE  Types \subseteq S
  <1> SUFFICES ASSUME NEW s \in Types, s \notin S PROVE FALSE
    OBVIOUS
  <1> DEFINE D == {Depth[t] : t \in Types \ S}
  <1>1. D \subseteq Nat /\ D # {}
    BY DirectIOAssumption
  <1>2. PICK n \in D : \A m \in D : n <= m
    <2> HIDE DEF D
    <2>. QED BY <1>1, Least
  <1>3. PICK t \in Types \ S : n = Depth[t]
    BY <1>2
  <1>4. ASSUME NEW u \in Components(t) PROVE u \in S
    <2>1. u \in Types /\ Depth[u] \in Nat /\ n \in Nat /\ Depth[u] < n
      BY <1>3, DirectIOAssumption
    <2>2. u \notin S => Depth[u] \in D
      BY <2>1
    <2>3. ~(n <= Depth[u])
      BY <2>1
    <2> HIDE DEF D
    <2>. QED BY <1>2, <2>2, <2>3
  <1>. QED BY <1>3, <1>4

\* A function over the datatypes may be defined from its values for the
\* components: an equation f = G[f] where G looks no further has a solution.
LEMMA Recursion ==
  ASSUME NEW V, NEW v0 \in V, NEW G \in [[Types -> V] -> [Types -> V]],
         \A f, g \in [Types -> V], t \in Types :
           (\A u \in Components(t) : f[u] = g[u]) => G[f][t] = G[g][t]
  PROVE  \E f \in [Types -> V] : f = G[f]
  <1> DEFINE Upto(n) == {f \in [Types -> V] : \A t \in Types : Depth[t] < n => f[t] = G[f][t]}
  <1>1. ASSUME NEW n \in Nat, NEW f \in Upto(n), NEW t \in Types, Depth[t] < n
        PROVE  f[t] = G[f][t]
    BY <1>1
  <1>2. \A n \in Nat : Upto(n) # {}
    <2> DEFINE Bad == {n \in Nat : Upto(n) = {}}
    <2> SUFFICES ASSUME NEW k \in Nat, Upto(k) = {} PROVE FALSE
      <3> HIDE DEF Upto
      <3>. QED OBVIOUS
    <2>1. k \in Bad
      OBVIOUS
    <2>2. PICK m \in Bad : \A n \in Bad : m <= n
      <3>1. Bad \subseteq Nat
        OBVIOUS
      <3> HIDE DEF Bad
      <3>. QED BY <2>1, <3>1, Least
    <2>3. m \in Nat /\ Upto(m) = {}
      BY <2>2
    <2>4. m # 0
      <3>1. [t \in Types |-> v0] \in Upto(0)
        BY DirectIOAssumption
      <3>. QED BY <2>3, <3>1
    <2>5. PICK f : f \in Upto(m - 1)
      <3>1. m - 1 \in Nat /\ ~(m <= m - 1)
        BY <2>3, <2>4
      <3>2. m - 1 \notin Bad
        BY <2>2, <3>1
      <3>. QED BY <3>1, <3>2
    <2>6. f \in [Types -> V] /\ G[f] \in [Types -> V]
      BY <2>5
    <2>7. ASSUME NEW t \in Types, Depth[t] < m PROVE G[f][t] = G[G[f]][t]
      <3>1. ASSUME NEW u \in Components(t) PROVE f[u] = G[f][u]
        <4>1. u \in Types /\ Depth[u] < m - 1
          BY <2>3, <2>7, DirectIOAssumption
        <4>. QED BY <2>5, <4>1
      <3>. QED BY <2>6, <3>1
    <2>8. G[f] \in Upto(m)
      BY <2>6, <2>7
    <2>. QED BY <2>3, <2>8
  <1>3. ASSUME NEW m \in Nat, NEW n \in Nat, NEW f \in Upto(m), NEW g \in Upto(n)
        PROVE  \A t \in Types : Depth[t] < m /\ Depth[t] < n => f[t] = g[t]
    <2> DEFINE S == {t \in Types : Depth[t] < m /\ Depth[t] < n => f[t] = g[t]}
    <2>1. ASSUME NEW t \in Types, Components(t) \subseteq S PROVE t \in S
      <3>1. SUFFICES ASSUME Depth[t] < m, Depth[t] < n PROVE f[t] = g[t]
        OBVIOUS
      <3>2. ASSUME NEW u \in Components(t) PROVE f[u] = g[u]
        <4>1. u \in S /\ Depth[u] < m /\ Depth[u] < n
          <5>1. u \in Types /\ Depth[u] < Depth[t] /\ Depth[u] \in Nat /\ Depth[t] \in Nat
            BY DirectIOAssumption
          <5>. QED BY <2>1, <3>1, <5>1
        <4>. QED BY <4>1
      <3>3. f \in [Types -> V] /\ g \in [Types -> V]
        OBVIOUS
      <3>4. G[f][t] = G[g][t]
        BY <3>2, <3>3
      <3>5. f[t] = G[f][t] /\ g[t] = G[g][t]
        BY <1>1, <3>1
      <3>. QED BY <3>4, <3>5
    <2>2. Types \subseteq S
      <3> HIDE DEF S
      <3>. QED BY <2>1, Induction
    <2>. QED BY <2>2
  <1> DEFINE level(t) == Depth[t] + 1
             pick(t)  == CHOOSE f : f \in Upto(level(t))
             h == [t \in Types |-> pick(t)[t]]
  <1>4. ASSUME NEW t \in Types
        PROVE  level(t) \in Nat /\ Depth[t] < level(t) /\ pick(t) \in Upto(level(t))
    <2>1. level(t) \in Nat /\ Depth[t] < level(t)
      BY DirectIOAssumption
    <2>2. pick(t) \in Upto(level(t))
      <3> HIDE DEF Upto, level
      <3>1. Upto(level(t)) # {}
        BY <1>2, <2>1
      <3>. QED BY <3>1
    <2>. QED BY <2>1, <2>2, Zenon
  <1>5. h \in [Types -> V]
    <2>1. ASSUME NEW t \in Types PROVE pick(t)[t] \in V
      <3>1. pick(t) \in [Types -> V]
        BY <1>4
      <3>. QED BY <3>1
    <2> HIDE DEF pick
    <2>. QED BY <2>1
  <1>6. ASSUME NEW t \in Types PROVE h[t] = G[h][t]
    <2>1. PICK f \in Upto(level(t)) : f = pick(t)
      BY <1>4
    <2>2. f[t] = G[f][t]
      BY <1>1, <1>4
    <2>3. ASSUME NEW u \in Components(t) PROVE h[u] = f[u]
      <3>1. u \in Types /\ Depth[u] < level(t)
        BY DirectIOAssumption
      <3>2. PICK g \in Upto(level(u)) : g = pick(u)
        BY <1>4, <3>1
      <3>3. f[u] = g[u]
        <4>1. level(t) \in Nat /\ level(u) \in Nat /\ Depth[u] < level(u)
          BY <1>4, <3>1
        <4> HIDE DEF level, Upto
        <4>. QED BY <1>3, <3>1, <4>1
      <3>. QED BY <3>1, <3>2, <3>3
    <2>4. f \in [Types -> V]
      OBVIOUS
    <2>5. G[h][t] = G[f][t]
      <3> HIDE DEF h
      <3>. QED BY <1>5, <2>3, <2>4
    <2>6. h[t] = f[t]
      BY <2>1
    <2>. QED BY <2>2, <2>5, <2>6
  <1>7. G[h] \in [Types -> V]
    BY <1>5
  <1> HIDE DEF h
  <1>8. h = G[h]
    BY <1>5, <1>6, <1>7
  <1>. QED BY <1>5, <1>8

-----------------------------------------------------------------------------
(* The functions over the datatypes satisfy their equations.               *)

Kinds == {"named", "dup", "contiguous", "blocks", "indexed", "struct", "subarray", "darray",
          "resized", "unlisted"}

LEMMA Parts ==
  ASSUME NEW t \in Types
  PROVE  /\ t.kind \in Kinds
         /\ Components(t) \subseteq Types
         /\ t.kind \notin {"named", "struct"} => t.of \in Components(t)
         /\ t.kind = "struct" => \A c \in DOMAIN t.lens : t.ofs[c] \in Components(t)
  <1>1. Arguments(t) /\ Components(t) \subseteq Types
    BY DirectIOAssumption
  <1>2. t.kind \in Kinds
    BY <1>1 DEF Arguments, Kinds
  <1>3. t.kind \notin {"named", "struct"} => t.of \in Components(t)
    BY DEF Components
  <1>4. ASSUME t.kind = "struct", NEW c \in DOMAIN t.lens PROVE t.ofs[c] \in Components(t)
    <2>1. t.ofs \in [DOMAIN t.lens -> Types]
      BY <1>1, <1>4 DEF Arguments
    <2>. QED BY <1>4, <2>1 DEF Components, Range
  <1>. QED BY <1>1, <1>2, <1>3, <1>4

LEMMA EnableEquation == \A t \in Types : Enable[t] = EnableBy(Enable, t)
  <1> DEFINE F == [Types -> BOOLEAN]
             G == [f \in F |-> [t \in Types |-> EnableBy(f, t)]]
  <1>1. ASSUME NEW f \in F, NEW t \in Types PROVE EnableBy(f, t) \in BOOLEAN
    BY <1>1, Parts DEF EnableBy, FitsNamed, WholePages, Kinds
  <1>2. G \in [F -> F]
    BY <1>1
  <1>3. ASSUME NEW f \in F, NEW g \in F, NEW t \in Types, \A u \in Components(t) : f[u] = g[u]
        PROVE  G[f][t] = G[g][t]
    <2>1. EnableBy(f, t) = EnableBy(g, t)
      BY <1>3, Parts DEF EnableBy, Kinds
    <2>. QED BY <2>1
  <1>4. PICK f \in F : f = G[f]
    <2> HIDE DEF G
    <2>. QED BY <1>2, <1>3, Recursion
  <1>5. f = [t \in Types |-> EnableBy(f, t)]
    BY <1>4
  <1>6. Enable = [t \in Types |-> EnableBy(Enable, t)]
    BY <1>5, Zenon DEF Enable
  <1>. QED BY <1>6

LEMMA SolidEquation ==
  /\ \A t \in Types : Solid[t] = SolidBy(Solid, t)
  /\ Solid \in [Types -> Nat]
  <1> DEFINE F == [Types -> Nat]
             G == [f \in F |-> [t \in Types |-> SolidBy(f, t)]]
  <1>1. ASSUME NEW f \in F, NEW t \in Types PROVE SolidBy(f, t) \in Nat
    <2>1. CASE t.kind = "named"
      <3>1. t.size \in Nat
        BY <2>1, DirectIOAssumption DEF Arguments
      <3>. QED BY <2>1, <3>1 DEF SolidBy
    <2>2. CASE t.kind = "contiguous"
      <3>1. t.count \in Nat
        BY <2>2, DirectIOAssumption DEF Arguments
      <3>2. f[t.of] \in Nat
        BY <1>1, <2>2, Parts
      <3>. QED BY <2>2, <3>1, <3>2 DEF SolidBy
    <2>3. CASE t.kind \notin {"named", "contiguous"}
      BY <1>1, <2>3, Parts DEF SolidBy
    <2>. QED BY <2>1, <2>2, <2>3
  <1>2. G \in [F -> F]
    BY <1>1
  <1>3. ASSUME NEW f \in F, NEW g \in F, NEW t \in Types, \A u \in Components(t) : f[u] = g[u]
        PROVE  G[f][t] = G[g][t]
    <2>1. SolidBy(f, t) = SolidBy(g, t)
      BY <1>3, Parts DEF SolidBy
    <2>. QED BY <2>1
  <1>4. PICK f \in F : f = G[f]
    <2> HIDE DEF G
    <2>. QED BY <1>2, <1>3, Recursion
  <1>5. f = [t \in Types |-> SolidBy(f, t)]
    BY <1>4
  <1>6. Solid = [t \in Types |-> SolidBy(Solid, t)]
    BY <1>5, Zenon DEF Solid
  <1>7. \A t \in Types : Solid[t] = SolidBy(Solid, t)
    BY <1>6
  <1> DEFINE S == {t \in Types : Solid[t] \in Nat}
  <1>8. ASSUME NEW t \in Types, Components(t) \subseteq S PROVE t \in S
    <2>1. SolidBy(Solid, t) \in Nat
      BY <1>8, Parts, DirectIOAssumption DEF SolidBy, Arguments
    <2>. QED BY <1>7, <2>1
  <1>9. Types \subseteq S
    <2> HIDE DEF S
    <2>. QED BY <1>8, Induction
  <1>. QED BY <1>6, <1>7, <1>9

LEMMA CoveredEquation == \A t \in Types : Covered[t] = CoveredBy(Covered, t)
  <1> DEFINE F == [Types -> BOOLEAN]
             G == [f \in F |-> [t \in Types |-> CoveredBy(f, t)]]
  <1>1. ASSUME NEW f \in F, NEW t \in Types PROVE CoveredBy(f, t) \in BOOLEAN
    BY DEF CoveredBy
  <1>2. G \in [F -> F]
    BY <1>1
  <1>3. ASSUME NEW f \in F, NEW g \in F, NEW t \in Types, \A u \in Components(t) : f[u] = g[u]
        PROVE  G[f][t] = G[g][t]
    <2>1. CoveredBy(f, t) = CoveredBy(g, t)
      BY <1>3 DEF CoveredBy
    <2>. QED BY <2>1
  <1>4. PICK f \in F : f = G[f]
    <2> HIDE DEF G
    <2>. QED BY <1>2, <1>3, Recursion
  <1>5. f = [t \in Types |-> CoveredBy(f, t)]
    BY <1>4
  <1>6. Covered = [t \in Types |-> CoveredBy(Covered, t)]
    BY <1>5, Zenon DEF Covered
  <1>. QED BY <1>6

\* No count of adjacent elements is negative.
LEMMA RunsCount ==
  ASSUME NEW t \in Types, t.kind \notin {"named", "struct"}
  PROVE  Runs(t) \subseteq Nat
  <1>1. Arguments(t)
    BY DirectIOAssumption
  <1>2. CASE t.kind = "contiguous"
    BY <1>1, <1>2 DEF Arguments, Runs
  <1>3. CASE t.kind = "blocks"
    BY <1>1, <1>3 DEF Arguments, Runs
  <1>4. CASE t.kind = "indexed"
    <2>1. t.lens \in Seq(Nat)
      BY <1>1, <1>4 DEF Arguments
    <2>2. Range(t.lens) \subseteq Nat
      BY <2>1 DEF Range
    <2>. QED BY <1>4, <2>2 DEF Runs
  <1>5. CASE t.kind = "subarray"
    <2>1. t.subsizes \in Seq(Nat) /\ t.subsizes # << >>
      BY <1>1, <1>5 DEF Arguments
    <2>2. Fastest(t) \in DOMAIN t.subsizes
      BY <2>1 DEF Fastest
    <2>. QED BY <1>5, <2>1, <2>2 DEF Runs
  <1>6. CASE t.kind = "darray"
    <2> DEFINE d == FastestOfArray(t)
    <2>1. /\ t.gsizes \in Seq(Nat) /\ t.gsizes # << >>
          /\ t.dargs \in [DOMAIN t.gsizes -> Nat \cup {Default}]
          /\ t.psizes \in [DOMAIN t.gsizes -> Nat \ {0}]
      BY <1>1, <1>6 DEF Arguments
    <2>2. d \in DOMAIN t.gsizes
      BY <2>1 DEF FastestOfArray
    <2>3. t.gsizes[d] \in Nat /\ t.dargs[d] \in Nat \cup {Default} /\ t.psizes[d] \in Nat \ {0}
      BY <2>1, <2>2
    <2>4. ASSUME NEW g \in Nat, NEW b \in Nat PROVE BlocksOf(g, b) \subseteq Nat
      <3>1. ASSUME NEW c \in 0..g, c * b < g PROVE g - c * b \in Nat
        <4>1. c * b \in Int
          OBVIOUS
        <4>. QED BY <3>1, <4>1
      <3>. QED BY <3>1 DEF BlocksOf
    <2>5. ASSUME NEW g \in Nat, NEW p \in Nat \ {0} PROVE (g + p - 1) \div p \in Nat
      <3>1. g + p - 1 \in Nat
        OBVIOUS
      <3>. QED BY <3>1
    <2> HIDE DEF d
    <2>6. t.dargs[d] # Default => t.dargs[d] \in Nat
      BY <2>3
    <2>7. (t.gsizes[d] + t.psizes[d] - 1) \div t.psizes[d] \in Nat
      BY <2>3, <2>5
    <2>8. PICK even \in Nat : even = (t.gsizes[d] + t.psizes[d] - 1) \div t.psizes[d]
      BY <2>7
    <2>9. PICK deal \in Nat : deal = IF t.distribs[d] = "cyclic" THEN 1 ELSE even
      OBVIOUS
    <2>10. Runs(t) = IF t.distribs[d] = "none" THEN {t.gsizes[d]}
                     ELSE BlocksOf(t.gsizes[d], IF t.dargs[d] = Default THEN deal ELSE t.dargs[d])
      BY <1>6, <2>8, <2>9 DEF Runs, d
    <2>. QED BY <2>3, <2>4, <2>6, <2>10
  <1>7. CASE t.kind \notin {"contiguous", "blocks", "indexed", "subarray", "darray"}
    BY <1>7 DEF Runs
  <1>. QED BY <1>2, <1>3, <1>4, <1>5, <1>6, <1>7

\* The pieces of n adjacent elements of u.
Repeat(p, u, n) == IF n = 0 THEN {} ELSE IF Solid[u] # 0 THEN {n * Solid[u]} ELSE p[u]

LEMMA PiecesByKind ==
  ASSUME NEW p, NEW t \in Types
  PROVE  /\ t.kind = "named" => PiecesBy(p, t) = t.parts \ {0}
         /\ t.kind = "struct" =>
              PiecesBy(p, t) = UNION {Repeat(p, t.ofs[c], t.lens[c]) : c \in DOMAIN t.lens}
         /\ t.kind \notin {"named", "struct"} =>
              PiecesBy(p, t) = UNION {Repeat(p, t.of, n) : n \in Runs(t)}
  BY DEF PiecesBy, Repeat

LEMMA RepeatCounts ==
  ASSUME NEW p \in [Types -> SUBSET Nat], NEW u \in Types, NEW n \in Nat
  PROVE  Repeat(p, u, n) \subseteq Nat
  BY SolidEquation DEF Repeat

LEMMA PiecesEquation == \A t \in Types : Pieces[t] = PiecesBy(Pieces, t)
  <1> DEFINE F == [Types -> SUBSET Nat]
             G == [f \in F |-> [t \in Types |-> PiecesBy(f, t)]]
  <1>1. ASSUME NEW f \in F, NEW t \in Types PROVE PiecesBy(f, t) \in SUBSET Nat
    <2>1. CASE t.kind = "named"
      BY <2>1, PiecesByKind, DirectIOAssumption DEF Arguments
    <2>2. CASE t.kind = "struct"
      <3>1. \A c \in DOMAIN t.lens : t.lens[c] \in Nat /\ t.ofs[c] \in Types
        BY <2>2, DirectIOAssumption, Parts DEF Arguments
      <3>2. \A c \in DOMAIN t.lens : Repeat(f, t.ofs[c], t.lens[c]) \subseteq Nat
        BY <3>1, RepeatCounts
      <3>. QED BY <2>2, <3>2, PiecesByKind
    <2>3. CASE t.kind \notin {"named", "struct"}
      <3>1. \A n \in Runs(t) : Repeat(f, t.of, n) \subseteq Nat
        BY <2>3, Parts, RunsCount, RepeatCounts
      <3>. QED BY <2>3, <3>1, PiecesByKind
    <2>. QED BY <2>1, <2>2, <2>3
  <1>2. G \in [F -> F]
    BY <1>1
  <1>3. ASSUME NEW f \in F, NEW g \in F, NEW t \in Types, \A u \in Components(t) : f[u] = g[u]
        PROVE  G[f][t] = G[g][t]
    <2>1. ASSUME NEW u \in Components(t), NEW n PROVE Repeat(f, u, n) = Repeat(g, u, n)
      BY <1>3 DEF Repeat
    <2>2. PiecesBy(f, t) = PiecesBy(g, t)
      <3>1. CASE t.kind = "named"
        BY <3>1, PiecesByKind
      <3>2. CASE t.kind = "struct"
        <4>1. \A c \in DOMAIN t.lens : Repeat(f, t.ofs[c], t.lens[c]) = Repeat(g, t.ofs[c], t.lens[c])
          BY <2>1, <3>2, Parts
        <4>2. {Repeat(f, t.ofs[c], t.lens[c]) : c \in DOMAIN t.lens}
              = {Repeat(g, t.ofs[c], t.lens[c]) : c \in DOMAIN t.lens}
          BY <4>1
        <4>. QED BY <3>2, <4>2, PiecesByKind, Zenon
      <3>3. CASE t.kind \notin {"named", "struct"}
        <4>1. \A n \in Runs(t) : Repeat(f, t.of, n) = Repeat(g, t.of, n)
          BY <2>1, <3>3, Parts
        <4>2. {Repeat(f, t.of, n) : n \in Runs(t)} = {Repeat(g, t.of, n) : n \in Runs(t)}
          BY <4>1
        <4>3. /\ PiecesBy(f, t) = UNION {Repeat(f, t.of, n) : n \in Runs(t)}
              /\ PiecesBy(g, t) = UNION {Repeat(g, t.of, n) : n \in Runs(t)}
          BY <3>3, PiecesByKind
        <4>. QED BY <4>2, <4>3, Zenon
      <3>. QED BY <3>1, <3>2, <3>3
    <2>. QED BY <2>2
  <1>4. PICK f \in F : f = G[f]
    <2> HIDE DEF G
    <2>. QED BY <1>2, <1>3, Recursion
  <1>5. f = [t \in Types |-> PiecesBy(f, t)]
    BY <1>4
  <1>6. Pieces = [t \in Types |-> PiecesBy(Pieces, t)]
    BY <1>5, Zenon DEF Pieces
  <1>. QED BY <1>6

-----------------------------------------------------------------------------
(* The choice of O_DIRECT.                                                 *)

LEMMA WholeMultiple ==
  ASSUME NEW s \in Nat, NEW n \in Nat \ {0}, WholePages(s)
  PROVE  WholePages(n * s)
  <1>1. PICK d \in Nat \ {0} : d = PageSize
    BY DirectIOAssumption
  <1>2. PICK q \in Nat : s = q * d
    <2>1. s % d = 0
      BY <1>1 DEF WholePages
    <2>2. s \div d \in Nat /\ s = d * (s \div d) + (s % d)
      BY Z3
    <2>3. \A q \in Nat : d * q = q * d /\ q * d \in Nat
      BY Z3
    <2>4. PICK q \in Nat : q = s \div d
      BY <2>2
    <2>5. s = q * d + 0 /\ q * d \in Nat
      BY <2>1, <2>2, <2>3, <2>4
    <2>. QED BY <2>5
  <1>3. n * q \in Nat /\ n * s = (n * q) * d
    BY <1>2, Z3
  <1>4. PICK m \in Nat : m = n * q
    BY <1>3
  <1>5. (n * s) % d = 0
    <2>1. m * d \in Nat /\ (m * d + 0) % d = 0
      <3>1. m * d \in Nat
        BY Z3
      <3>. QED BY <3>1
    <2>. QED BY <1>3, <1>4, <2>1
  <1>6. n * s >= s
    <2>1. PICK k \in Nat : n = k + 1
      <3>1. n - 1 \in Nat /\ n = n - 1 + 1
        OBVIOUS
      <3>. QED BY <3>1
    <2>2. n * s = k * s + s /\ k * s \in Nat
      BY <2>1, Z3
    <2>. QED BY <2>2
  <1>7. n * s \in Nat /\ s >= Threshold /\ Threshold \in Nat
    <2>1. n * s \in Nat
      BY Z3
    <2>. QED BY <2>1, DirectIOAssumption DEF WholePages
  <1>8. PICK x \in Nat : x = n * s
    BY <1>7
  <1>9. x >= Threshold
    BY <1>6, <1>7, <1>8
  <1>. QED BY <1>1, <1>5, <1>8, <1>9 DEF WholePages

\* A datatype that is one piece has this one among its pieces.
LEMMA SolidIsPiece ==
  ASSUME NEW t \in Types, Solid[t] # 0
  PROVE  Solid[t] \in Pieces[t]
  <1>1. Solid[t] = SolidBy(Solid, t) /\ Pieces[t] = PiecesBy(Pieces, t)
    BY SolidEquation, PiecesEquation
  <1>2. CASE t.kind = "named"
    BY <1>1, <1>2, PiecesByKind DEF SolidBy, GapFree
  <1>3. ASSUME t.kind \notin {"named", "struct"}, NEW n \in Runs(t), n # 0, n * Solid[t.of] = Solid[t]
        PROVE  Solid[t] \in Pieces[t]
    <2>1. Solid[t.of] # 0
      <3>1. n \in Nat
        BY <1>3, RunsCount
      <3>2. n * 0 = 0
        BY <3>1
      <3>. QED BY <1>3, <3>2
    <2>2. Solid[t] \in Repeat(Pieces, t.of, n)
      BY <1>3, <2>1 DEF Repeat
    <2>3. Pieces[t] = UNION {Repeat(Pieces, t.of, m) : m \in Runs(t)}
      BY <1>1, <1>3, PiecesByKind
    <2>. QED BY <1>3, <2>2, <2>3
  <1>4. CASE t.kind = "dup"
    <2>1. Runs(t) = {1}
      BY <1>4 DEF Runs
    <2>2. Solid[t] = Solid[t.of] /\ Solid[t.of] \in Nat
      BY <1>1, <1>4, Parts, SolidEquation DEF SolidBy
    <2>3. 1 * Solid[t.of] = Solid[t]
      BY <2>2
    <2>. QED BY <1>3, <1>4, <2>1, <2>3
  <1>5. CASE t.kind = "contiguous"
    <2>1. Runs(t) = {t.count}
      BY <1>5 DEF Runs
    <2>2. Solid[t] = t.count * Solid[t.of] /\ Solid[t.of] \in Nat
      BY <1>1, <1>5, Parts, SolidEquation DEF SolidBy
    <2>3. t.count # 0
      <3>1. \A x \in Nat : 0 * x = 0
        OBVIOUS
      <3>. QED BY <2>2, <3>1
    <2>. QED BY <1>3, <1>5, <2>1, <2>2, <2>3
  <1>6. CASE t.kind \notin {"named", "dup", "contiguous"}
    BY <1>1, <1>6 DEF SolidBy
  <1>. QED BY <1>2, <1>4, <1>5, <1>6

\* The pieces are whole pages where enable_directio agrees.
Aligned(t) == Enable[t] /\ Covered[t] => \A n \in Pieces[t] : WholePages(n)

LEMMA RepeatAligned ==
  ASSUME NEW u \in Types, NEW n \in Nat, Covered[u],
         (Aligned(u) /\ Enable[u]) \/ FitsNamed(u, n)
  PROVE  \A x \in Repeat(Pieces, u, n) : WholePages(x)
  <1>1. Solid[u] \in Nat /\ Solid[u] = SolidBy(Solid, u)
    BY SolidEquation
  <1>2. SUFFICES ASSUME n # 0 PROVE \A x \in Repeat(Pieces, u, n) : WholePages(x)
    BY DEF Repeat
  <1>3. CASE FitsNamed(u, n)
    <2>1. Solid[u] = u.size /\ Solid[u] # 0 /\ WholePages(u.size * n)
      BY <1>1, <1>3, CoveredEquation DEF SolidBy, CoveredBy, FitsNamed
    <2>2. u.size * n = n * Solid[u]
      BY <1>1, <2>1, Z3
    <2>3. WholePages(n * Solid[u])
      BY <2>1, <2>2
    <2>. QED BY <1>2, <2>1, <2>3 DEF Repeat
  <1>4. CASE Aligned(u) /\ Enable[u]
    <2>1. \A x \in Pieces[u] : WholePages(x)
      BY <1>4 DEF Aligned
    <2>2. CASE Solid[u] = 0
      BY <1>2, <2>1, <2>2 DEF Repeat
    <2>3. CASE Solid[u] # 0
      <3>1. WholePages(Solid[u])
        BY <2>1, <2>3, SolidIsPiece
      <3>2. WholePages(n * Solid[u])
        BY <1>1, <1>2, <3>1, WholeMultiple
      <3>. QED BY <1>2, <2>3, <3>2 DEF Repeat
    <2>. QED BY <2>2, <2>3
  <1>. QED BY <1>3, <1>4

LEMMA AlignedStep ==
  ASSUME NEW t \in Types, \A u \in Components(t) : Aligned(u)
  PROVE  Aligned(t)
  <1> SUFFICES ASSUME Enable[t], Covered[t], NEW x \in Pieces[t] PROVE WholePages(x)
    BY DEF Aligned
  <1>1. EnableBy(Enable, t) /\ CoveredBy(Covered, t) /\ x \in PiecesBy(Pieces, t)
    BY EnableEquation, CoveredEquation, PiecesEquation
  <1>2. \A u \in Components(t) : Covered[u]
    BY <1>1 DEF CoveredBy
  <1>3. Arguments(t)
    BY DirectIOAssumption
  <1>4. CASE t.kind = "named"
    <2>1. FitsNamed(t, 1) /\ x = t.size /\ t.size \in Nat
      BY <1>1, <1>3, <1>4, PiecesByKind DEF EnableBy, Arguments, CoveredBy, GapFree
    <2>2. t.size * 1 = t.size
      BY <2>1
    <2>. QED BY <2>1, <2>2 DEF FitsNamed
  <1>5. CASE t.kind = "struct"
    <2>1. PICK c \in DOMAIN t.lens : x \in Repeat(Pieces, t.ofs[c], t.lens[c])
      BY <1>1, <1>5, PiecesByKind
    <2>2. Enable[t.ofs[c]] \/ FitsNamed(t.ofs[c], t.lens[c])
      BY <1>1, <1>5 DEF EnableBy
    <2>3. t.ofs[c] \in Components(t) /\ t.ofs[c] \in Types /\ t.lens[c] \in Nat
      BY <1>3, <1>5, Parts DEF Arguments
    <2>. QED BY <1>2, <2>1, <2>2, <2>3, RepeatAligned
  <1>6. CASE t.kind \notin {"named", "struct"}
    <2>1. PiecesBy(Pieces, t) = UNION {Repeat(Pieces, t.of, m) : m \in Runs(t)}
      BY <1>6, PiecesByKind
    <2>2. PICK n \in Runs(t) : x \in Repeat(Pieces, t.of, n)
      BY <1>1, <2>1
    <2>3. n \in Nat /\ t.of \in Components(t) /\ t.of \in Types
      BY <1>6, RunsCount, Parts
    <2>4. Enable[t.of] \/ FitsNamed(t.of, n)
      <3>1. t.kind # "unlisted" /\ t.kind # "resized"
        BY <1>1, <1>6 DEF CoveredBy, EnableBy
      <3>2. CASE t.kind = "dup"
        BY <1>1, <3>2 DEF EnableBy
      <3>3. CASE t.kind = "contiguous"
        BY <1>1, <3>3 DEF EnableBy, Runs
      <3>4. CASE t.kind = "blocks"
        BY <1>1, <3>4 DEF EnableBy, Runs
      <3>5. CASE t.kind = "indexed"
        BY <1>1, <3>5 DEF EnableBy, Runs, Range
      <3>6. CASE t.kind = "subarray"
        BY <1>1, <3>6 DEF EnableBy, Runs
      <3>7. CASE t.kind = "darray"
        <4>1. SUFFICES ASSUME ~Enable[t.of] PROVE FitsNamed(t.of, n)
          OBVIOUS
        <4>2. t.distribs[FastestOfArray(t)] \in {"none", "block"} /\ FitsNamed(t.of, LocalElements(t))
          BY <1>1, <3>7, <4>1 DEF EnableBy
        <4>3. Runs(t) = {LocalElements(t)}
          BY <1>1, <3>7, <4>2 DEF CoveredBy
        <4>. QED BY <4>2, <4>3
      <3>. QED BY <1>6, <3>1, <3>2, <3>3, <3>4, <3>5, <3>6, <3>7, Parts DEF Kinds
    <2>. QED BY <1>2, <2>2, <2>3, <2>4, RepeatAligned
  <1>. QED BY <1>4, <1>5, <1>6

\* enable_directio is right about every datatype that the code covers.
LEMMA EnableIsRight == \A t \in Types : Aligned(t)
  <1> DEFINE S == {t \in Types : Aligned(t)}
  <1>1. ASSUME NEW t \in Types, Components(t) \subseteq S PROVE t \in S
    BY <1>1, AlignedStep
  <1>2. Types \subseteq S
    <2> HIDE DEF S
    <2>. QED BY <1>1, Induction
  <1>. QED BY <1>2

\* The descriptor was opened as enable_directio and the hint say.
DescrInv == descr # None => /\ descr.filetype \in Types
                            /\ descr.direct = Direct(descr.filetype, descr.hint)

\* Unless the hint says otherwise, set_view opens a local file with O_DIRECT
\* only for a filetype whose contiguous pieces are whole pages, none below the
\* threshold: for every datatype whose constructors enable_directio names,
\* whose arrays are dealt out evenly and whose predefined types have no gap.
THEOREM DirectCorrect == SafeSpec => []DirectOnlyAligned
  <1>1. Init => DescrInv
    BY DEF Init, DescrInv
  <1>2. DescrInv /\ [Next]_vars => DescrInv'
    <2> SUFFICES ASSUME DescrInv, [Next]_vars PROVE DescrInv'
      OBVIOUS
    <2>1. ASSUME NEW v \in Views, NEW t \in Types, NEW h \in Hints, Attach(v, t, h)
          PROVE  DescrInv'
      BY <2>1 DEF Attach, DescrInv, Direct
    <2>2. ASSUME descr' = None \/ descr' = descr PROVE DescrInv'
      BY <2>2 DEF DescrInv, Direct
    <2>3. Next => SetView \/ descr' = None \/ descr' = descr
      BY DEF Next, Flush, FlushStep, SetDest, SetDisp, SetChunk, ChunksDone, SetEtype, Send,
             FlushFails, Killed, Worker, ReadDest, ReadEtype, ReadChunk, NoMoreChunks, ReadDisp,
             Unpack, process
    <2>. QED BY <2>1, <2>2, <2>3 DEF SetView, vars
  <1>3. DescrInv => DirectOnlyAligned
    BY EnableIsRight DEF DescrInv, DirectOnlyAligned, Aligned, Direct
  <1>. QED BY <1>1, <1>2, <1>3, PTL DEF SafeSpec
=============================================================================
