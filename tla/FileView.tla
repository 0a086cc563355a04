------------------------------ MODULE FileView ------------------------------
(***************************************************************************)
(* The decoded file view of a handle and the place in it where the next    *)
(* transfer goes: generate_current_file_view, which every transfer calls   *)
(* back, one round of its loop per step; seek, get_position and            *)
(* get_byte_offset.  What ompio computes for them is external.             *)
(*                                                                         *)
(* A view repeats the blocks of its filetype every "extent" bytes.  The    *)
(* bytes in its blocks are numbered through all copies; Place is the       *)
(* number of the next one.                                                 *)
(***************************************************************************)
EXTENDS Integers, Sequences, FiniteSetsExt

CONSTANTS ViewSet,    \* decoded views, see ViewAssumption
          None,       \* no segment
          IntLimit,   \* int holds the numbers from -IntLimit to IntLimit - 1
          FileSizes,  \* sizes of the file that seek may meet
          MaxTransfer, MaxPlace  \* bounds of the model, in bytes

\* disp, etype   as set by set_view, in bytes
\* iov           the blocks, a sequence of records with base and len
\* start         how many bytes lie in the blocks before each one
\* size, extent  bytes in a copy, distance of two copies
ViewAssumption(v) ==
  /\ v.disp \in Nat
  /\ v.etype \in Nat \ {0} /\ v.size \in Nat \ {0} /\ v.extent \in Nat \ {0}
  /\ v.iov \in Seq([base : Nat, len : Nat \ {0}]) /\ v.iov # << >>
  /\ v.start \in [1..Len(v.iov) -> Nat]
  /\ v.start[1] = 0
  /\ \A i \in 1..Len(v.iov) - 1 :
       /\ v.start[i + 1] = v.start[i] + v.iov[i].len
       /\ v.iov[i + 1].base >= v.iov[i].base + v.iov[i].len
  /\ v.size = v.start[Len(v.iov)] + v.iov[Len(v.iov)].len
  /\ v.size % v.etype = 0

ASSUME FileViewAssumption ==
  /\ \A v \in ViewSet : ViewAssumption(v)
  /\ IntLimit \in Nat \ {0}
  /\ MaxTransfer \in Nat /\ MaxPlace \in Nat
  /\ FileSizes \subseteq Nat

VARIABLES
  view,      \* f_decoded_iov, f_disp, f_view_size, f_view_extent, f_etype_size
  copy,      \* f_offset is f_disp + copy * f_view_extent
  total,     \* f_total_bytes
  position,  \* f_position_in_file_view
  index,     \* f_index_in_file_view, from 1
  \* locals of generate_current_file_view
  walking,   \* it runs
  left,      \* bytes_to_write
  sum,       \* sum_previous_counts
  j,
  segment    \* the entry of iov it made last, None before the first

cursor == <<copy, total, position, index>>
locals == <<walking, left, sum, j, segment>>
vars   == <<view, copy, total, position, index, walking, left, sum, j, segment>>

Blocks == 1..Len(view.iov)

TypeOK ==
  /\ view \in ViewSet
  /\ copy \in Nat /\ total \in Nat /\ position \in Nat
  /\ index \in Blocks
  /\ walking \in BOOLEAN
  /\ left \in Nat /\ sum \in Nat
  /\ j \in Blocks
  /\ segment = None \/ segment \in [base : Nat, len : Nat]

\* The number of the next byte to transfer.
Place == copy * view.size + total
-----------------------------------------------------------------------------
(* Where the bytes of a view are: the reference.                           *)

\* Byte i of block b in copy c: its number in the view, its file offset.
NumberOf(v, c, b, i) == c * v.size + v.start[b] + i
OffsetOf(v, c, b, i) == v.disp + c * v.extent + v.iov[b].base + i

\* Byte n of the view is at offset x of the file.
IsAt(v, n, x) ==
  \E c \in 0..n, b \in 1..Len(v.iov) :
    /\ NumberOf(v, c, b, 0) <= n /\ n < NumberOf(v, c, b, v.iov[b].len)
    /\ x = OffsetOf(v, c, b, n - NumberOf(v, c, b, 0))
-----------------------------------------------------------------------------
(* Faulty forms of definitions below.                                      *)

\* The segment reaches to the end of the block, however little is left.
WholeBlock(b, s, t) == view.iov[b].len - (t - s)

\* The count of the earlier blocks is not reset with the copy.
SumKept == sum

\* The block is only finished one byte after its end.
FinishedLate == view.iov[j].len - (total - sum) < 0

\* The block where the transfer ended is not kept.
FirstBlock == index

\* The bytes of the earlier blocks are not taken off.
WithoutWalk(v, i) == <<1, i>>

\* The displacement of the view is not taken off.
WithDisplacement(v, n) == n
-----------------------------------------------------------------------------
(* ompio: what set_view, set_explicit_offset and get_position do to the    *)
(* cursor.                                                                 *)

\* The block that byte t of a copy is in.
BlockOf(v, t) == CHOOSE b \in 1..Len(v.iov) :
                   v.start[b] <= t /\ t < v.start[b] + v.iov[b].len

\* Byte n of the view is the next one.
SetPlace(n) ==
  LET t == n % view.size
  IN /\ copy' = n \div view.size
     /\ total' = t
     /\ index' = BlockOf(view, t)
     /\ position' = view.start[BlockOf(view, t)]

Init ==
  /\ view \in ViewSet
  /\ copy = 0 /\ total = 0 /\ position = 0 /\ index = 1
  /\ walking = FALSE
  /\ left = 0 /\ sum = 0 /\ j = 1
  /\ segment = None

SetView(v) ==
  /\ ~walking
  /\ view' = v
  /\ copy' = 0 /\ total' = 0 /\ position' = 0 /\ index' = 1
  /\ left' = 0 /\ sum' = 0 /\ j' = 1 /\ segment' = None
  /\ UNCHANGED walking
-----------------------------------------------------------------------------
(* generate_current_file_view.                                             *)

Generate(n) ==
  /\ ~walking
  /\ n % view.etype = 0
  /\ Place + n <= MaxPlace
  /\ walking' = TRUE
  /\ left' = n
  /\ sum' = position
  /\ j' = index
  /\ segment' = None
  /\ UNCHANGED <<view, cursor>>

Finished == view.iov[j].len - (total - sum) <= 0

\* What fits of block b, when s bytes are in the blocks before it and t were
\* used in the copy.
SegmentLength(b, s, t) ==
  LET rest == view.iov[b].len - (t - s) IN IF rest >= left THEN left ELSE rest

\* The segment in block b of copy c.
Emit(c, b, s, t) ==
  LET n == SegmentLength(b, s, t)
  IN /\ segment' = [base |-> view.iov[b].base + (t - s) + view.disp + c * view.extent,
                    len  |-> n]
     /\ copy' = c /\ j' = b /\ sum' = s
     /\ total' = t + n
     /\ left' = left - n

InBlock == /\ ~Finished
           /\ Emit(copy, j, sum, total)
           /\ UNCHANGED <<position, index>>

NextBlock == /\ Finished
             /\ j < Len(view.iov)
             /\ Emit(copy, j + 1, sum + view.iov[j].len, total)
             /\ UNCHANGED <<position, index>>

FirstSum == 0

\* After the last block comes the first one of the next copy.
NextCopy == /\ Finished
            /\ j = Len(view.iov)
            /\ Emit(copy + 1, 1, FirstSum, 0)
            /\ position' = 0
            /\ index' = 1

\* One round of the loop.
Walk == /\ walking
        /\ left > 0
        /\ InBlock \/ NextBlock \/ NextCopy
        /\ UNCHANGED <<view, walking>>

LastBlock == j

Return == /\ walking
          /\ left = 0
          /\ walking' = FALSE
          /\ position' = sum
          /\ index' = LastBlock
          /\ UNCHANGED <<view, copy, total, left, sum, j, segment>>
-----------------------------------------------------------------------------
(* Positions.                                                              *)

\* get_position: whole copies, and the rest, in etypes.
GetPosition == copy * (view.size \div view.etype) + total \div view.etype

\* A length or a number of bytes, assigned to an int.
Narrow(n) == ((n + IntLimit) % (2 * IntLimit)) - IntLimit

\* The walk of get_byte_offset over the blocks: where byte i of a copy is.  It
\* stops in a block longer than what is left, or where a block used it up.
FindByte(v, i) ==
  LET rest[b \in 1..Len(v.iov)] ==
        IF b = 1 THEN Narrow(i) ELSE rest[b - 1] - Narrow(v.iov[b - 1].len)
      stops == {b \in 1..Len(v.iov) :
                  rest[b] < Narrow(v.iov[b].len) \/ (b > 1 /\ rest[b] = 0)}
  IN <<Min(stops), rest[Min(stops)]>>

\* get_byte_offset of an offset in etypes.
GetByteOffset(v, off) ==
  LET n  == off * v.etype
      at == FindByte(v, n % v.size)
  IN v.disp + v.extent * (n \div v.size) + v.iov[at[1]].base + at[2]

InOffset(v, n) == n - v.disp

\* get_eof_offset for a file of n bytes.  It finds the last block that starts
\* at or before the end, in the copy of the view the end is in, but takes the
\* length of the block it looked at last.  For an end before the view the code
\* reads a length in front of f_decoded_iov[0]; the walk it bounds then makes no
\* step, so that the offset is 0 whatever the length is.
GetEofOffset(v, n) ==
  LET in      == InOffset(v, n)
      begin   == (in \div v.extent) * v.extent
      found   == {b \in 1..Len(v.iov) : begin + v.iov[b].base <= in}
      from    == IF found = {} THEN 0 ELSE begin + v.iov[Max(found)].base
      seen    == IF found = {} THEN 1 ELSE Min({Max(found) + 1, Len(v.iov)})
      etypes  == {m \in 0..in : m * v.etype <= v.iov[seen].len /\ from + m * v.etype <= in}
  IN IF in < 0 THEN 0 ELSE from + Max(etypes) * v.etype

\* seek to n bytes, as each "whence" computes them.
SeekTo(n) ==
  /\ ~walking
  /\ n \in 0..MaxPlace
  /\ SetPlace((n \div view.etype) * view.etype)
  /\ UNCHANGED <<view, locals>>

SeekSet(off)    == SeekTo(off * view.etype)
SeekCur(off)    == SeekTo(off * view.etype + GetPosition * view.etype)
SeekEnd(off, n) == SeekTo(off * view.etype + GetEofOffset(view, n))
-----------------------------------------------------------------------------
Next ==
  \/ \E v \in ViewSet : SetView(v)
  \/ \E n \in 1..MaxTransfer : Generate(n)
  \/ Walk \/ Return
  \/ \E off \in 0..MaxPlace : SeekSet(off)
  \/ \E off \in -MaxPlace..MaxPlace : SeekCur(off) \/ \E n \in FileSizes : SeekEnd(off, n)

SafeSpec == Init /\ [][Next]_vars

\* A thread in the loop runs.
Spec == SafeSpec /\ WF_vars(Walk) /\ WF_vars(Return)
-----------------------------------------------------------------------------
(* Correctness.                                                            *)

\* Between calls the cursor names the block that the next byte is in, or the
\* one that was just finished (f_position_in_file_view, f_index_in_file_view
\* and f_total_bytes agree; ompio relies on it as generate does).
CursorAgrees ==
  ~walking => /\ position = view.start[index]
              /\ position <= total /\ total <= position + view.iov[index].len

\* Each segment is the next bytes of the view, none skipped, repeated or
\* outside its blocks, over the end of a block and of a copy
\* (generate_current_file_view).
SegmentsFollowView ==
  [][Walk => /\ segment'.len > 0
             /\ \A i \in 0..segment'.len - 1 : IsAt(view, Place + i, segment'.base + i)
             /\ Place' = Place + segment'.len
             /\ left' = left - segment'.len]_vars

\* A transfer does not loop for ever.
TransferEnds == walking ~> ~walking

\* get_byte_offset of get_position is where the next byte goes, in views
\* whose size fits an int.
ByteOffsetAgrees ==
  ~walking /\ view.size < IntLimit => IsAt(view, Place, GetByteOffset(view, GetPosition))

Contiguous(v) == Len(v.iov) = 1 /\ v.iov[1] = [base |-> 0, len |-> v.size] /\ v.extent = v.size

\* Seeking to the end of the file in a contiguous view (that of a local file,
\* or of the default view) puts the next byte behind the last, when the file
\* holds whole etypes.
SeekEndAppends ==
  [][\A n \in FileSizes :
       /\ SeekEnd(0, n)
       /\ Contiguous(view) /\ n >= view.disp /\ (n - view.disp) % view.etype = 0
       => IsAt(view, Place', n)]_vars

\* The comment at get_eof_offset: for a file that reaches into the view, the
\* offset is at or before the end, not in a gap, and breaks up no etype.
EofAvoidsGaps ==
  [][\A n \in FileSizes :
       SeekEnd(0, n) /\ n >= OffsetOf(view, 0, 1, 0)
       => LET x == view.disp + GetEofOffset(view, n)
          IN /\ x <= n
             /\ \E c \in 0..n, b \in Blocks : \E i \in 0..view.iov[b].len :
                  i % view.etype = 0 /\ x = OffsetOf(view, c, b, i)]_vars
=============================================================================
