--------------------------- MODULE FileViewProofs ---------------------------
(***************************************************************************)
(* The segments of a transfer follow the view, and positions are where its *)
(* bytes are, for any views, lengths and places.                           *)
(***************************************************************************)
EXTENDS FileView, TLAPS, WellFoundedInduction

\* b is the block of byte t of a copy, or was just finished with it.
Reaches(v, b, t) == v.start[b] <= t /\ t <= v.start[b] + v.iov[b].len

\* The local cursor, while generate_current_file_view runs.
WalkAgrees == walking => sum = view.start[j] /\ Reaches(view, j, total)

IInv == TypeOK /\ CursorAgrees /\ WalkAgrees
-----------------------------------------------------------------------------
LEMMA Products ==
  ASSUME NEW c \in Nat, NEW s \in Nat \ {0}
  PROVE  c * s \in Nat /\ c * s >= c /\ (c + 1) * s = c * s + s
  BY Z3

\* Division and remainder.
LEMMA Division ==
  ASSUME NEW m \in Nat, NEW d \in Nat \ {0}
  PROVE  m = (m \div d) * d + (m % d) /\ m \div d \in Nat /\ m % d \in 0..d - 1
  <1>1. m \div d \in Nat /\ m % d \in 0..d - 1
    OBVIOUS
  <1>2. m = d * (m \div d) + (m % d)
    BY Z3
  <1>3. \A q \in Nat : d * q = q * d
    BY Z3
  <1>. QED BY <1>1, <1>2, <1>3

LEMMA Quotient ==
  ASSUME NEW q \in Nat, NEW t \in Nat, NEW d \in Nat \ {0}, t < d
  PROVE  (q * d + t) \div d = q /\ (q * d + t) % d = t
  OBVIOUS

\* A multiple of d, and how often it holds d.
LEMMA Multiple ==
  ASSUME NEW m \in Nat, NEW d \in Nat \ {0}, m % d = 0
  PROVE  m \div d \in Nat /\ m = (m \div d) * d
  <1>1. m = (m \div d) * d + (m % d) /\ m \div d \in Nat
    BY Division
  <1>2. PICK q \in Nat : q = m \div d
    BY <1>1
  <1>3. m = q * d + 0 /\ q * d \in Nat
    BY <1>1, <1>2, Products
  <1>. QED BY <1>2, <1>3

LEMMA IsMultiple ==
  ASSUME NEW q \in Nat, NEW d \in Nat \ {0}
  PROVE  q * d \in Nat /\ (q * d) % d = 0
  <1>1. q * d \in Nat /\ (q * d + 0) % d = 0
    BY Products, Quotient
  <1>. QED BY <1>1

\* Products, sums and differences of multiples are multiples.
LEMMA MultipleOfMultiple ==
  ASSUME NEW m \in Nat, NEW k \in Nat, NEW d \in Nat \ {0}, m % d = 0
  PROVE  (k * m) % d = 0
  <1>1. PICK q \in Nat : m = q * d
    BY Multiple
  <1>2. k * q \in Nat /\ k * m = (k * q) * d
    BY <1>1, Z3
  <1>3. PICK n \in Nat : n = k * q
    BY <1>2
  <1>4. k * m = n * d
    BY <1>2, <1>3
  <1>. QED BY <1>4, IsMultiple

LEMMA Multiples ==
  ASSUME NEW m \in Nat, NEW k \in Nat, NEW d \in Nat \ {0}, m % d = 0
  PROVE  k % d = 0 <=> (m + k) % d = 0
  <1>1. PICK q \in Nat : m = q * d
    BY Multiple
  <1>2. ASSUME k % d = 0 PROVE (m + k) % d = 0
    <2>1. PICK p \in Nat : k = p * d
      BY <1>2, Multiple
    <2>2. PICK n \in Nat : n = q + p
      OBVIOUS
    <2>3. m + k = n * d
      BY <1>1, <2>1, <2>2, Z3
    <2>. QED BY <2>3, IsMultiple
  <1>3. ASSUME (m + k) % d = 0 PROVE k % d = 0
    <2>1. PICK p \in Nat : m + k = p * d
      <3>1. m + k \in Nat
        OBVIOUS
      <3>. QED BY <1>3, <3>1, Multiple
    <2>2. p >= q
      <3>1. SUFFICES ASSUME p < q PROVE FALSE
        OBVIOUS
      <3>2. PICK r \in Nat : q = p + 1 + r
        <4>1. q - p - 1 \in Nat /\ q = p + 1 + (q - p - 1)
          BY <3>1
        <4>. QED BY <4>1
      <3>3. q * d = p * d + d + r * d /\ r * d \in Nat /\ p * d \in Nat
        BY <3>2, Z3
      <3>. QED BY <1>1, <2>1, <3>3
    <2>3. PICK n \in Nat : p = q + n
      <3>1. p - q \in Nat /\ p = q + (p - q)
        BY <2>2
      <3>. QED BY <3>1
    <2>4. p * d = q * d + n * d /\ n * d \in Nat /\ q * d \in Nat
      BY <2>3, Z3
    <2>5. k = n * d
      BY <1>1, <2>1, <2>4
    <2>. QED BY <2>5, IsMultiple
  <1>. QED BY <1>2, <1>3

\* A set of numbers that is not empty has a least one.
LEMMA Least ==
  ASSUME NEW T, T \subseteq Nat, T # {}
  PROVE  \E x \in T : \A y \in T : x <= y
  <1> DEFINE R == {ss \in Nat \X Nat : ss[1] < ss[2]}
  <1>1. PICK x \in T : \A y \in T : ~(<<y, x>> \in R)
    <2> HIDE DEF R
    <2>1. IsWellFoundedOn(R, Nat)
      BY NatLessThanWellFounded, Zenon DEF R, OpToRel
    <2>. QED BY <2>1, WFMin
  <1>2. ASSUME NEW y \in T PROVE x <= y
    <2>1. x \in Nat /\ y \in Nat
      OBVIOUS
    <2>2. ~(y < x)
      BY <1>1, <2>1
    <2>. QED BY <2>1, <2>2
  <1>. QED BY <1>2

LEMMA ViewFacts ==
  ASSUME NEW v \in ViewSet
  PROVE  /\ v.disp \in Nat /\ v.size \in Nat \ {0} /\ v.extent \in Nat \ {0} /\ v.etype \in Nat \ {0}
         /\ Len(v.iov) \in Nat \ {0} /\ 1 \in 1..Len(v.iov)
         /\ \A b \in 1..Len(v.iov) : /\ v.start[b] \in Nat
                                     /\ v.iov[b].base \in Nat /\ v.iov[b].len \in Nat \ {0}
         /\ v.start[1] = 0
         /\ \A b \in 1..Len(v.iov) :
              b # Len(v.iov) => b + 1 \in 1..Len(v.iov) /\ v.start[b + 1] = v.start[b] + v.iov[b].len
         /\ v.size = v.start[Len(v.iov)] + v.iov[Len(v.iov)].len
  <1>1. ViewAssumption(v)
    BY FileViewAssumption
  <1>2. Len(v.iov) \in Nat \ {0}
    BY <1>1 DEF ViewAssumption
  <1>3. \A b \in 1..Len(v.iov) : v.iov[b] \in [base : Nat, len : Nat \ {0}]
    <2> DEFINE s == v.iov  S == [base : Nat, len : Nat \ {0}]
    <2>1. s \in Seq(S)
      BY <1>1 DEF ViewAssumption
    <2> HIDE DEF s, S
    <2>2. \A b \in 1..Len(s) : s[b] \in S
      BY <2>1
    <2>. QED BY <2>2 DEF s, S
  <1>4. \A b \in 1..Len(v.iov) : v.iov[b].base \in Nat /\ v.iov[b].len \in Nat \ {0}
    BY <1>3
  <1>5. \A b \in 1..Len(v.iov) : b # Len(v.iov) => b \in 1..Len(v.iov) - 1 /\ b + 1 \in 1..Len(v.iov)
    BY <1>2
  <1>6. \A b \in 1..Len(v.iov) : v.start[b] \in Nat
    BY <1>1 DEF ViewAssumption
  <1>7. \A b \in 1..Len(v.iov) :
          b # Len(v.iov) => v.start[b + 1] = v.start[b] + v.iov[b].len
    BY <1>1, <1>5 DEF ViewAssumption
  <1>8. /\ v.disp \in Nat /\ v.size \in Nat \ {0} /\ v.extent \in Nat \ {0} /\ v.etype \in Nat \ {0}
        /\ v.start[1] = 0
        /\ v.size = v.start[Len(v.iov)] + v.iov[Len(v.iov)].len
    BY <1>1 DEF ViewAssumption
  <1>. QED BY <1>2, <1>4, <1>5, <1>6, <1>7, <1>8

\* Every byte of a copy is in a block.
LEMMA BlockExists ==
  ASSUME NEW v \in ViewSet, NEW t \in 0..v.size - 1
  PROVE  /\ BlockOf(v, t) \in 1..Len(v.iov)
         /\ v.start[BlockOf(v, t)] <= t /\ t < v.start[BlockOf(v, t)] + v.iov[BlockOf(v, t)].len
  <1> DEFINE last == Len(v.iov)
             T == {last - b : b \in {i \in 1..last : v.start[i] <= t}}
  <1>1. T \subseteq Nat /\ last - 1 \in T
    BY ViewFacts
  <1>2. PICK x \in T : \A y \in T : x <= y
    <2> HIDE DEF T
    <2>. QED BY <1>1, Least
  <1>4. PICK b \in 1..last : x = last - b /\ v.start[b] <= t
    BY <1>2
  <1>5. t < v.start[b] + v.iov[b].len
    <2>1. CASE b = last
      BY <2>1, ViewFacts
    <2>2. CASE b # last
      <3>1. b + 1 \in 1..last /\ v.start[b + 1] = v.start[b] + v.iov[b].len
        BY <2>2, ViewFacts
      <3>2. v.start[b + 1] \in Nat
        BY <3>1, ViewFacts
      <3>3. ~(v.start[b + 1] <= t)
        <4>1. SUFFICES ASSUME v.start[b + 1] <= t PROVE FALSE
          OBVIOUS
        <4>2. last - (b + 1) \in T
          BY <3>1, <4>1
        <4>3. x <= last - (b + 1) /\ last \in Nat
          BY <1>2, <4>2, ViewFacts
        <4>. QED BY <1>4, <4>3
      <3>. QED BY <3>1, <3>2, <3>3
    <2>. QED BY <2>1, <2>2
  <1>. QED BY <1>4, <1>5 DEF BlockOf
-----------------------------------------------------------------------------
LEMMA InitInv == Init => IInv
  <1> SUFFICES ASSUME Init PROVE IInv
    OBVIOUS
  <1>1. /\ view \in ViewSet /\ copy = 0 /\ total = 0 /\ position = 0 /\ index = 1
        /\ walking = FALSE /\ left = 0 /\ sum = 0 /\ j = 1 /\ segment = None
    BY DEF Init
  <1>2. view.start[1] = 0 /\ view.iov[1].len \in Nat /\ 1 \in 1..Len(view.iov)
    BY <1>1, ViewFacts
  <1>3. TypeOK
    BY <1>1, <1>2 DEF TypeOK, Blocks
  <1>4. CursorAgrees
    BY <1>1, <1>2 DEF CursorAgrees
  <1>5. WalkAgrees
    BY <1>1 DEF WalkAgrees
  <1>. QED BY <1>3, <1>4, <1>5 DEF IInv

LEMMA SetViewInv ==
  ASSUME IInv, NEW v \in ViewSet, SetView(v)
  PROVE  IInv'
  <1>1. /\ view' = v /\ copy' = 0 /\ total' = 0 /\ position' = 0 /\ index' = 1
        /\ walking' = FALSE /\ left' = 0 /\ sum' = 0 /\ j' = 1 /\ segment' = None
    BY DEF SetView, IInv, TypeOK
  <1>2. v.start[1] = 0 /\ v.iov[1].len \in Nat /\ 1 \in 1..Len(v.iov)
    BY ViewFacts
  <1>3. TypeOK'
    BY <1>1, <1>2 DEF TypeOK, Blocks
  <1>4. CursorAgrees'
    BY <1>1, <1>2 DEF CursorAgrees
  <1>5. WalkAgrees'
    BY <1>1 DEF WalkAgrees
  <1>. QED BY <1>3, <1>4, <1>5 DEF IInv

LEMMA GenerateInv ==
  ASSUME IInv, NEW n \in 1..MaxTransfer, Generate(n)
  PROVE  IInv'
  BY FileViewAssumption DEF Generate, cursor, IInv, TypeOK, CursorAgrees, WalkAgrees, Reaches, Blocks

LEMMA ReturnInv ==
  ASSUME IInv, Return
  PROVE  IInv'
  BY DEF Return, LastBlock, IInv, TypeOK, CursorAgrees, WalkAgrees, Reaches, Blocks

\* ompio's set_explicit_offset finds the block.
LEMMA SeekInv ==
  ASSUME IInv, NEW n \in Int, SeekTo(n)
  PROVE  IInv'
  <1> DEFINE m == (n \div view.etype) * view.etype
             t == m % view.size
  <1>1. view \in ViewSet /\ view.size \in Nat \ {0} /\ view.etype \in Nat \ {0}
    BY ViewFacts DEF IInv, TypeOK
  <1>2. n \in Nat /\ n \div view.etype \in Nat
    BY <1>1, FileViewAssumption DEF SeekTo
  <1>3. m \in Nat
    BY <1>1, <1>2, Products
  <1> HIDE DEF m
  <1>4. t \in 0..view.size - 1 /\ m \div view.size \in Nat
    BY <1>1, <1>3
  <1>5. /\ copy' = m \div view.size /\ total' = t /\ index' = BlockOf(view, t)
        /\ position' = view.start[BlockOf(view, t)] /\ UNCHANGED <<view, locals>> /\ ~walking
    BY DEF SeekTo, SetPlace, m
  <1> HIDE DEF t
  <1>6. /\ BlockOf(view, t) \in 1..Len(view.iov) /\ view.start[BlockOf(view, t)] \in Nat
        /\ view.start[BlockOf(view, t)] <= t
        /\ t <= view.start[BlockOf(view, t)] + view.iov[BlockOf(view, t)].len
    BY <1>1, <1>4, BlockExists, ViewFacts
  <1>. QED BY <1>1, <1>4, <1>5, <1>6
          DEF IInv, TypeOK, CursorAgrees, WalkAgrees, Blocks, locals
-----------------------------------------------------------------------------
(* One round of the loop.                                                  *)

\* A segment fits the rest of its block and of the transfer.
LEMMA SegmentFits ==
  ASSUME NEW len \in Nat, NEW s \in Nat, NEW t \in Nat, NEW l \in Nat \ {0}, NEW n,
         s <= t, t < s + len,
         n = IF len - (t - s) >= l THEN l ELSE len - (t - s)
  PROVE  n \in Nat \ {0} /\ n <= l /\ t + n <= s + len
  OBVIOUS

\* With p bytes in the copies before, o their offset.
LEMMA ByteInBlock ==
  ASSUME NEW v \in ViewSet, NEW b \in 1..Len(v.iov), NEW c \in Nat, NEW t \in Nat, NEW i \in Nat,
         v.start[b] <= t, t + i < v.start[b] + v.iov[b].len
  PROVE  IsAt(v, c * v.size + t + i,
              v.iov[b].base + (t - v.start[b]) + v.disp + c * v.extent + i)
  <1> DEFINE s == v.start[b]  len == v.iov[b].len  base == v.iov[b].base
             p == c * v.size  o == c * v.extent
  <1>1. s \in Nat /\ len \in Nat /\ base \in Nat /\ v.disp \in Nat
    BY ViewFacts
  <1>2. p \in Nat /\ p >= c /\ o \in Nat
    BY ViewFacts, Products, Zenon
  <1>3. NumberOf(v, c, b, 0) = p + s + 0 /\ NumberOf(v, c, b, len) = p + s + len
    BY Zenon DEF NumberOf
  <1>4. OffsetOf(v, c, b, (p + t + i) - NumberOf(v, c, b, 0))
        = v.disp + o + base + ((p + t + i) - NumberOf(v, c, b, 0))
    BY Zenon DEF OffsetOf
  <1>5. s <= t /\ t + i < s + len
    OBVIOUS
  <1> HIDE DEF p, o, s, len, base
  <1>6. c \in 0..p + t + i
    BY <1>2
  <1>7. NumberOf(v, c, b, 0) <= p + t + i /\ p + t + i < NumberOf(v, c, b, len)
    BY <1>1, <1>2, <1>3, <1>5
  <1>8. (base + (t - s) + v.disp + o + i) = OffsetOf(v, c, b, (p + t + i) - NumberOf(v, c, b, 0))
    BY <1>1, <1>2, <1>3, <1>4
  <1>9. IsAt(v, p + t + i, base + (t - s) + v.disp + o + i)
    <2> DEFINE x == p + t + i  y == base + (t - s) + v.disp + o + i
    <2>1. c \in 0..x /\ NumberOf(v, c, b, 0) <= x
      BY <1>6, <1>7
    <2>2. x < NumberOf(v, c, b, v.iov[b].len)
      BY <1>7 DEF len
    <2>3. y = OffsetOf(v, c, b, x - NumberOf(v, c, b, 0))
      BY <1>8
    <2> HIDE DEF x, y
    <2>4. IsAt(v, x, y)
      BY <2>1, <2>2, <2>3, Zenon DEF IsAt
    <2>. QED BY <2>4, Zenon DEF x, y
  <1>. QED BY <1>9, Zenon DEF p, o, s, base

\* A round that continues at byte t of copy c, in block b.
Continues(c, b, s, t) ==
  /\ IInv /\ walking /\ left > 0
  /\ walking' = walking /\ view' = view
  /\ c \in Nat /\ b \in Blocks /\ t \in Nat
  /\ s = view.start[b] /\ s <= t /\ t < s + view.iov[b].len
  /\ Place = c * view.size + t
  /\ Emit(c, b, s, t)

\* What Emit does with a block that is not finished.
LEMMA EmitFacts ==
  ASSUME NEW c, NEW b, NEW s, NEW t, Continues(c, b, s, t)
  PROVE  /\ copy' \in Nat /\ total' \in Nat /\ left' \in Nat /\ sum' \in Nat /\ j' \in Blocks
         /\ segment' \in [base : Nat, len : Nat] /\ segment'.len > 0
         /\ WalkAgrees'
         /\ \A i \in 0..segment'.len - 1 : IsAt(view, Place + i, segment'.base + i)
         /\ Place' = Place + segment'.len
         /\ left' = left - segment'.len
  <1> DEFINE n == SegmentLength(b, s, t)
             base == view.iov[b].base  len == view.iov[b].len
             p == c * view.size  o == c * view.extent
             from == base + (t - s) + view.disp + o
  <1>1. /\ view \in ViewSet /\ view.disp \in Nat
        /\ base \in Nat /\ len \in Nat /\ s \in Nat /\ left \in Nat \ {0}
        /\ b \in 1..Len(view.iov) /\ b \in Blocks /\ t \in Nat /\ c \in Nat
    <2>1. /\ view \in ViewSet /\ left \in Nat /\ left > 0 /\ b \in 1..Len(view.iov) /\ b \in Blocks
          /\ t \in Nat /\ c \in Nat /\ s = view.start[b]
      BY DEF Continues, IInv, TypeOK, Blocks
    <2>2. view.disp \in Nat /\ base \in Nat /\ len \in Nat /\ s \in Nat
      BY <2>1, ViewFacts
    <2>. QED BY <2>1, <2>2
  <1>2. p \in Nat /\ o \in Nat
    BY <1>1, ViewFacts, Products, Zenon
  <1>3. n = IF len - (t - s) >= left THEN left ELSE len - (t - s)
    BY Zenon DEF SegmentLength
  <1>4. /\ segment' = [base |-> from, len |-> n]
        /\ copy' = c /\ j' = b /\ sum' = s /\ total' = t + n /\ left' = left - n
    BY Zenon DEF Continues, Emit
  <1>5. Place = p + t /\ s <= t /\ t < s + len
    BY Zenon DEF Continues
  <1>8. view' = view /\ walking' = walking /\ s = view.start[b] /\ len = view.iov[b].len
    BY Zenon DEF Continues
  <1>6. Place' = p + (t + n)
    BY <1>4, <1>8, Zenon DEF Place
  <1>7. \A i \in Nat : t + i < s + len => IsAt(view, p + t + i, from + i)
    BY <1>1, <1>5, <1>8, ByteInBlock, Zenon
  <1> HIDE DEF n, base, len, p, o
  <1>9. n \in Nat \ {0} /\ n <= left /\ t + n <= s + len
    BY <1>1, <1>3, <1>5, SegmentFits
  <1>10. from \in Nat
    BY <1>1, <1>2, <1>5
  <1> HIDE DEF from
  <1>11. segment' \in [base : Nat, len : Nat] /\ segment'.len = n /\ segment'.base = from
    BY <1>4, <1>9, <1>10
  <1>12. \A i \in 0..n - 1 : IsAt(view, Place + i, from + i)
    <2>1. TAKE i \in 0..n - 1
    <2>2. i \in Nat /\ t + i < s + len /\ Place + i = p + t + i
      BY <1>1, <1>2, <1>5, <1>9
    <2>. QED BY <1>7, <2>2
  <1>13. copy' \in Nat /\ total' \in Nat /\ left' \in Nat /\ sum' \in Nat /\ j' \in Blocks
    BY <1>1, <1>4, <1>9
  <1>14. sum' = view'.start[j'] /\ Reaches(view', j', total')
    BY <1>1, <1>4, <1>5, <1>8, <1>9 DEF Reaches
  <1>15. Place' = Place + n /\ left' = left - n /\ n > 0
    BY <1>1, <1>2, <1>4, <1>5, <1>6, <1>9
  <1>16. WalkAgrees'
    BY <1>14 DEF WalkAgrees
  <1>. QED BY <1>11, <1>12, <1>13, <1>15, <1>16

\* After the last block the copy is used up.
LEMMA CopyEnds ==
  ASSUME IInv, walking, NextCopy
  PROVE  total = view.size
  <1> DEFINE len == view.iov[j].len  size == view.size
  <1>1. /\ view \in ViewSet /\ j \in 1..Len(view.iov) /\ total \in Nat
        /\ sum = view.start[j] /\ sum <= total /\ total <= sum + len
        /\ j = Len(view.iov) /\ len - (total - sum) <= 0
    BY DEF IInv, TypeOK, WalkAgrees, Reaches, Blocks, NextCopy, Finished
  <1>2. sum \in Nat /\ len \in Nat /\ size = sum + len
    BY <1>1, ViewFacts
  <1> HIDE DEF len, size
  <1>3. total = size
    BY <1>1, <1>2
  <1>. QED BY <1>3 DEF size

LEMMA WalkInv ==
  ASSUME IInv, Walk
  PROVE  /\ IInv'
         /\ segment'.len > 0
         /\ \A i \in 0..segment'.len - 1 : IsAt(view, Place + i, segment'.base + i)
         /\ Place' = Place + segment'.len
         /\ left' = left - segment'.len
  <1>1. /\ view \in ViewSet /\ j \in Blocks /\ total \in Nat /\ copy \in Nat /\ left \in Nat
        /\ position \in Nat /\ index \in Blocks
        /\ sum = view.start[j] /\ sum <= total /\ total <= sum + view.iov[j].len
        /\ IInv /\ walking /\ left > 0 /\ walking' = walking /\ view' = view
    BY DEF IInv, TypeOK, WalkAgrees, Reaches, Walk
  <1>2. /\ view.size \in Nat \ {0} /\ Len(view.iov) \in Nat \ {0} /\ 1 \in Blocks
        /\ \A b \in Blocks : view.start[b] \in Nat /\ view.iov[b].len \in Nat \ {0}
    BY <1>1, ViewFacts DEF Blocks
  <1> DEFINE Made == /\ copy' \in Nat /\ total' \in Nat /\ left' \in Nat /\ sum' \in Nat
                     /\ j' \in Blocks
                     /\ segment' \in [base : Nat, len : Nat] /\ segment'.len > 0
                     /\ WalkAgrees'
                     /\ \A i \in 0..segment'.len - 1 : IsAt(view, Place + i, segment'.base + i)
                     /\ Place' = Place + segment'.len
                     /\ left' = left - segment'.len
  <1>3. Made /\ position' \in Nat /\ index' \in Blocks
    <2>1. CASE InBlock
      <3>1. total < sum + view.iov[j].len
        BY <1>1, <1>2, <2>1 DEF InBlock, Finished
      <3>2. Emit(copy, j, sum, total) /\ UNCHANGED <<position, index>>
        BY <2>1 DEF InBlock
      <3>3. Place = copy * view.size + total
        BY DEF Place
      <3>4. Made
        <4>1. Continues(copy, j, sum, total)
          BY <1>1, <3>1, <3>2, <3>3, Zenon DEF Continues
        <4>. QED BY <4>1, EmitFacts, Zenon
      <3>. QED BY <1>1, <3>2, <3>4
    <2>2. CASE NextBlock
      <3>1. j + 1 \in Blocks /\ view.start[j + 1] = sum + view.iov[j].len
            /\ total = sum + view.iov[j].len
        <4>1. j # Len(view.iov) /\ j \in 1..Len(view.iov)
          BY <1>1, <1>2, <2>2 DEF NextBlock, Blocks
        <4>2. j + 1 \in Blocks /\ view.start[j + 1] = view.start[j] + view.iov[j].len
          BY <1>1, <4>1, ViewFacts DEF Blocks
        <4>3. view.iov[j].len - (total - sum) <= 0
          BY <2>2 DEF NextBlock, Finished
        <4>4. sum \in Nat /\ view.iov[j].len \in Nat
          BY <1>1, <1>2
        <4>. QED BY <1>1, <4>2, <4>3, <4>4
      <3>2. Emit(copy, j + 1, sum + view.iov[j].len, total) /\ UNCHANGED <<position, index>>
        BY <2>2 DEF NextBlock
      <3>3. Place = copy * view.size + total
        BY DEF Place
      <3>4. /\ sum + view.iov[j].len <= total
            /\ total < sum + view.iov[j].len + view.iov[j + 1].len
        BY <1>1, <1>2, <3>1
      <3>5. Made
        <4>1. Continues(copy, j + 1, sum + view.iov[j].len, total)
          BY <1>1, <3>1, <3>2, <3>3, <3>4, Zenon DEF Continues
        <4>. QED BY <4>1, EmitFacts, Zenon
      <3>. QED BY <1>1, <3>2, <3>5
    <2>3. CASE NextCopy
      <3>1. total = view.size
        BY <1>1, <2>3, CopyEnds
      <3>2. Emit(copy + 1, 1, 0, 0) /\ position' = 0 /\ index' = 1
        BY <2>3 DEF NextCopy, FirstSum
      <3>3. Place = (copy + 1) * view.size + 0 /\ copy + 1 \in Nat
        <4>1. copy * view.size \in Nat /\ (copy + 1) * view.size = copy * view.size + view.size
          BY <1>1, <1>2, Products, Zenon
        <4>2. Place = copy * view.size + view.size
          BY <3>1, Zenon DEF Place
        <4> DEFINE p == copy * view.size  q == (copy + 1) * view.size
        <4>3. p \in Nat /\ q = p + view.size /\ Place = p + view.size
          BY <4>1, <4>2
        <4> HIDE DEF p, q
        <4>4. Place = q + 0
          BY <1>2, <4>3
        <4>. QED BY <1>1, <4>4 DEF q
      <3>4. view.start[1] = 0 /\ 0 < 0 + view.iov[1].len /\ 0 <= 0
        BY <1>1, <1>2, ViewFacts
      <3>5. Made
        <4>1. 0 \in Nat
          OBVIOUS
        <4>2. Continues(copy + 1, 1, 0, 0)
          BY <1>1, <1>2, <3>2, <3>3, <3>4, <4>1, Zenon DEF Continues
        <4>. QED BY <4>2, EmitFacts, Zenon
      <3>. QED BY <1>2, <3>2, <3>5
    <2>. QED BY <2>1, <2>2, <2>3 DEF Walk
  <1>4. TypeOK'
    <2>1. Blocks' = Blocks
      BY <1>1 DEF Blocks
    <2>. QED BY <1>1, <1>3, <2>1 DEF TypeOK
  <1>5. CursorAgrees'
    BY <1>1 DEF CursorAgrees
  <1>. QED BY <1>3, <1>4, <1>5 DEF IInv

LEMMA StepInv == IInv /\ [Next]_vars => IInv'
  <1> SUFFICES ASSUME IInv, [Next]_vars PROVE IInv'
    OBVIOUS
  <1>1. CASE UNCHANGED vars
    BY <1>1 DEF vars, IInv, TypeOK, CursorAgrees, WalkAgrees, Reaches, Blocks
  <1>2. ASSUME NEW v \in ViewSet, SetView(v) PROVE IInv'
    BY <1>2, SetViewInv
  <1>3. ASSUME NEW n \in 1..MaxTransfer, Generate(n) PROVE IInv'
    BY <1>3, GenerateInv
  <1>4. CASE Walk
    BY <1>4, WalkInv
  <1>5. CASE Return
    BY <1>5, ReturnInv
  <1>6. ASSUME NEW n, SeekTo(n) PROVE IInv'
    BY <1>6, SeekInv DEF SeekTo
  <1>. QED BY <1>1, <1>2, <1>3, <1>4, <1>5, <1>6 DEF Next, SeekSet, SeekCur, SeekEnd

\* The cursor and the locals keep their types: f_index_in_file_view and j
\* stay inside the decoded view, and no count becomes negative.
THEOREM TypeCorrect == SafeSpec => []TypeOK
  <1>1. IInv => TypeOK
    BY DEF IInv
  <1>. QED BY <1>1, InitInv, StepInv, PTL DEF SafeSpec

\* Between calls f_position_in_file_view, f_index_in_file_view and
\* f_total_bytes agree, after transfers and seeks in any order.
THEOREM CursorCorrect == SafeSpec => []CursorAgrees
  <1>1. IInv => CursorAgrees
    BY DEF IInv
  <1>. QED BY <1>1, InitInv, StepInv, PTL DEF SafeSpec

\* generate_current_file_view makes exactly the next bytes of the view, for
\* every view, length and place.
THEOREM SegmentsCorrect == SafeSpec => SegmentsFollowView
  <1>1. IInv /\ [Next]_vars =>
          [Walk => /\ segment'.len > 0
                   /\ \A i \in 0..segment'.len - 1 : IsAt(view, Place + i, segment'.base + i)
                   /\ Place' = Place + segment'.len
                   /\ left' = left - segment'.len]_vars
    BY WalkInv
  <1>. QED BY <1>1, InitInv, StepInv, PTL DEF SafeSpec, SegmentsFollowView
-----------------------------------------------------------------------------
(* Positions.                                                              *)

\* A transfer is of whole etypes, so between calls the cursor is at one.
WholeEtypes == /\ (total + left) % view.etype = 0
               /\ ~walking => left = 0

EInv == IInv /\ WholeEtypes

LEMMA EtypeFacts ==
  ASSUME EInv
  PROVE  /\ view \in ViewSet /\ view.etype \in Nat \ {0} /\ view.size \in Nat \ {0}
         /\ view.size % view.etype = 0
         /\ total \in Nat /\ left \in Nat /\ copy \in Nat
         /\ ~walking => left = 0 /\ total % view.etype = 0
  <1>1. view \in ViewSet /\ total \in Nat /\ left \in Nat /\ copy \in Nat
    BY DEF EInv, IInv, TypeOK
  <1>2. ViewAssumption(view)
    BY <1>1, FileViewAssumption
  <1>3. ~walking => left = 0 /\ total % view.etype = 0
    <2>1. total + 0 = total
      BY <1>1
    <2>. QED BY <2>1 DEF EInv, WholeEtypes
  <1>. QED BY <1>1, <1>2, <1>3 DEF ViewAssumption

\* A segment moves its bytes from what is left to what is used.
LEMMA EmitMoves ==
  ASSUME IInv, NEW c, NEW b \in Blocks, NEW s \in Nat, NEW t \in Nat, Emit(c, b, s, t)
  PROVE  total' + left' = t + left
  <1> DEFINE n == SegmentLength(b, s, t)
  <1>1. left \in Nat /\ view.iov[b].len \in Nat
    BY ViewFacts DEF IInv, TypeOK, Blocks
  <1>2. n \in Int
    BY <1>1 DEF SegmentLength
  <1>3. total' = t + n /\ left' = left - n
    BY DEF Emit
  <1> HIDE DEF n
  <1>. QED BY <1>1, <1>2, <1>3

LEMMA WalkWhole ==
  ASSUME EInv, Walk
  PROVE  WholeEtypes'
  <1>1. /\ IInv /\ walking /\ walking' = walking /\ view' = view
        /\ view.etype \in Nat \ {0} /\ view.size \in Nat \ {0} /\ view.size % view.etype = 0
        /\ total \in Nat /\ left \in Nat /\ (total + left) % view.etype = 0
    BY EtypeFacts DEF EInv, WholeEtypes, Walk
  <1>2. /\ view \in ViewSet /\ j \in Blocks /\ sum \in Nat
        /\ \A b \in Blocks : view.iov[b].len \in Nat
        /\ 1 \in Blocks /\ (j < Len(view.iov) => j + 1 \in Blocks)
    <2>1. view \in ViewSet /\ j \in Blocks /\ sum \in Nat
      BY <1>1 DEF IInv, TypeOK
    <2>2. /\ Len(view.iov) \in Nat \ {0}
          /\ \A b \in 1..Len(view.iov) : view.iov[b].len \in Nat
      BY <2>1, ViewFacts
    <2>. QED BY <2>1, <2>2 DEF Blocks
  <1>3. CASE InBlock
    <2>1. total' + left' = total + left
      BY <1>1, <1>2, <1>3, EmitMoves DEF InBlock
    <2>. QED BY <1>1, <2>1 DEF WholeEtypes
  <1>4. CASE NextBlock
    <2>1. j + 1 \in Blocks /\ sum + view.iov[j].len \in Nat
          /\ Emit(copy, j + 1, sum + view.iov[j].len, total)
      BY <1>2, <1>4 DEF NextBlock
    <2>2. total' + left' = total + left
      BY <1>1, <2>1, EmitMoves
    <2>. QED BY <1>1, <2>2 DEF WholeEtypes
  <1>5. CASE NextCopy
    <2>1. total = view.size
      BY <1>1, <1>5, CopyEnds
    <2>2. left % view.etype = 0
      BY <1>1, <2>1, Multiples
    <2>3. Emit(copy + 1, 1, 0, 0) /\ 0 \in Nat
      BY <1>5 DEF NextCopy, FirstSum
    <2>4. total' + left' = 0 + left
      BY <1>1, <1>2, <2>3, EmitMoves
    <2>5. total' + left' = left
      BY <1>1, <2>4
    <2>. QED BY <1>1, <2>2, <2>5 DEF WholeEtypes
  <1>. QED BY <1>3, <1>4, <1>5 DEF Walk

\* A seek goes to an etype.
LEMMA SeekWhole ==
  ASSUME EInv, NEW n \in Int, SeekTo(n)
  PROVE  WholeEtypes'
  <1> DEFINE e == view.etype  d == view.size
  <1>1. /\ e \in Nat \ {0} /\ d \in Nat \ {0} /\ d % e = 0 /\ left = 0 /\ ~walking
        /\ view' = view /\ walking' = walking /\ left' = left
    BY EtypeFacts DEF SeekTo, locals
  <1>2. n \in Nat /\ total' = ((n \div e) * e) % d
    BY FileViewAssumption DEF SeekTo, SetPlace
  <1> HIDE DEF e, d
  <1>3. PICK k \in Nat : k = n \div e
    BY <1>1, <1>2, Division
  <1>4. PICK m \in Nat : m = k * e
    BY <1>1, <1>3, IsMultiple
  <1>5. m % e = 0
    BY <1>1, <1>4, IsMultiple
  <1>6. PICK t \in Nat, q \in Nat : t = m % d /\ q = m \div d
    <2>1. m % d \in Nat /\ m \div d \in Nat
      BY <1>1, Division
    <2>. QED BY <2>1
  <1>7. m = q * d + t
    BY <1>1, <1>6, Division
  <1>8. q * d \in Nat /\ (q * d) % e = 0
    <2>1. q * d \in Nat
      BY <1>1, Products
    <2>2. (q * d) % e = 0
      <3>1. d \in Nat /\ d % e = 0 /\ e \in Nat \ {0}
        BY <1>1
      <3>. QED BY <3>1, MultipleOfMultiple
    <2>. QED BY <2>1, <2>2
  <1>9. PICK p \in Nat : p = q * d
    BY <1>8
  <1>10. t % e = 0
    BY <1>1, <1>5, <1>7, <1>8, <1>9, Multiples
  <1>11. total' = t /\ t + 0 = t
    BY <1>2, <1>3, <1>4, <1>6
  <1>. QED BY <1>1, <1>10, <1>11 DEF WholeEtypes, e

LEMMA StepEInv == EInv /\ [Next]_vars => EInv'
  <1> SUFFICES ASSUME EInv, [Next]_vars PROVE EInv'
    OBVIOUS
  <1>0. IInv'
    BY StepInv DEF EInv
  <1>1. CASE UNCHANGED vars
    BY <1>0, <1>1 DEF vars, EInv, WholeEtypes
  <1>2. ASSUME NEW v \in ViewSet, SetView(v) PROVE EInv'
    <2>1. view' = v /\ total' = 0 /\ left' = 0 /\ v.etype \in Nat \ {0}
      BY <1>2, ViewFacts DEF SetView
    <2>2. 0 % v.etype = 0
      BY <2>1, Quotient, IsMultiple
    <2>. QED BY <1>0, <2>1, <2>2 DEF EInv, WholeEtypes
  <1>3. ASSUME NEW n \in 1..MaxTransfer, Generate(n) PROVE EInv'
    <2>1. /\ ~walking /\ walking' /\ view' = view /\ total' = total /\ left' = n
          /\ n % view.etype = 0 /\ n \in Nat
      BY <1>3, FileViewAssumption DEF Generate, cursor
    <2>2. (total + n) % view.etype = 0
      BY <2>1, EtypeFacts, Multiples
    <2>. QED BY <1>0, <2>1, <2>2 DEF EInv, WholeEtypes
  <1>4. CASE Walk
    BY <1>0, <1>4, WalkWhole DEF EInv
  <1>5. CASE Return
    BY <1>0, <1>5 DEF Return, EInv, WholeEtypes
  <1>6. ASSUME NEW n, SeekTo(n) PROVE EInv'
    BY <1>0, <1>6, SeekWhole DEF SeekTo, EInv
  <1>. QED BY <1>1, <1>2, <1>3, <1>4, <1>5, <1>6 DEF Next, SeekSet, SeekCur, SeekEnd

\* get_position counts the etypes before the cursor.
LEMMA PositionIsPlace ==
  ASSUME EInv, ~walking
  PROVE  GetPosition * view.etype = Place
  <1> DEFINE e == view.etype  d == view.size
  <1>1. /\ e \in Nat \ {0} /\ d \in Nat /\ d % e = 0 /\ total \in Nat /\ total % e = 0
        /\ copy \in Nat
    BY EtypeFacts
  <1>2. GetPosition = copy * (d \div e) + total \div e /\ Place = copy * d + total
    BY DEF GetPosition, Place
  <1> HIDE DEF e, d
  <1>3. PICK z \in Nat : z = d \div e /\ d = z * e
    BY <1>1, Multiple
  <1>4. PICK y \in Nat : y = total \div e /\ total = y * e
    BY <1>1, Multiple
  <1>5. PICK w \in Nat : w = copy * z
    BY <1>1, IsMultiple, Z3
  <1>6. (w + y) * e = w * e + y * e /\ w * e = copy * d
    BY <1>1, <1>3, <1>5, Z3
  <1>7. GetPosition = w + y
    BY <1>2, <1>3, <1>4, <1>5
  <1>. QED BY <1>2, <1>4, <1>6, <1>7 DEF e

\* What fits an int keeps its value.
LEMMA NarrowFits ==
  ASSUME NEW n \in Nat, n < IntLimit
  PROVE  Narrow(n) = n
  <1>1. IntLimit \in Nat \ {0}
    BY FileViewAssumption
  <1>2. PICK m \in Nat : m = n + IntLimit
    BY <1>1
  <1>3. PICK d \in Nat \ {0} : d = 2 * IntLimit
    BY <1>1
  <1>4. 0 * d + m = m /\ m < d
    BY <1>1, <1>2, <1>3
  <1>5. m % d = m
    BY <1>4, Quotient
  <1>. QED BY <1>1, <1>2, <1>3, <1>5 DEF Narrow

\* No block reaches beyond the copy.
LEMMA BlockInCopy ==
  ASSUME NEW v \in ViewSet, NEW b \in 1..Len(v.iov)
  PROVE  v.start[b] + v.iov[b].len <= v.size
  <1> DEFINE last == Len(v.iov)
             T == {last - c : c \in {i \in 1..last : ~(v.start[i] + v.iov[i].len <= v.size)}}
  <1>1. SUFFICES ASSUME T # {} PROVE FALSE
    <2>1. CASE ~(v.start[b] + v.iov[b].len <= v.size)
      <3>1. last - b \in T
        BY <2>1
      <3>. QED BY <1>1, <3>1
    <2>. QED BY <2>1
  <1>2. T \subseteq Nat
    BY ViewFacts
  <1>3. PICK x \in T : \A y \in T : x <= y
    <2> HIDE DEF T
    <2>. QED BY <1>1, <1>2, Least
  <1>4. PICK c \in 1..last : x = last - c /\ ~(v.start[c] + v.iov[c].len <= v.size)
    BY <1>3
  <1>5. CASE c = last
    <2>1. v.size = v.start[last] + v.iov[last].len /\ v.size \in Nat
      BY ViewFacts
    <2>. QED BY <1>4, <1>5, <2>1
  <1>6. CASE c # last
    <2>1. /\ c + 1 \in 1..last /\ v.start[c + 1] = v.start[c] + v.iov[c].len
          /\ last \in Nat
      BY <1>6, ViewFacts
    <2>2. v.start[c + 1] \in Nat /\ v.iov[c + 1].len \in Nat /\ v.size \in Nat
      BY <2>1, ViewFacts
    <2>3. v.start[c + 1] + v.iov[c + 1].len <= v.size
      <3>1. SUFFICES ASSUME ~(v.start[c + 1] + v.iov[c + 1].len <= v.size) PROVE FALSE
        OBVIOUS
      <3>2. last - (c + 1) \in T
        BY <2>1, <3>1
      <3>3. x <= last - (c + 1)
        BY <1>3, <3>2
      <3>. QED BY <1>4, <2>1, <3>3
    <2>. QED BY <1>4, <2>1, <2>2, <2>3
  <1>. QED BY <1>5, <1>6

\* What the walk of get_byte_offset has left before a block.
LEMMA RestBefore ==
  ASSUME NEW v \in ViewSet, NEW t \in 0..v.size - 1, v.size < IntLimit, NEW rest,
         rest = CHOOSE f : f = [b \in 1..Len(v.iov) |->
                  IF b = 1 THEN Narrow(t) ELSE f[b - 1] - Narrow(v.iov[b - 1].len)]
  PROVE  \A b \in 1..Len(v.iov) : rest[b] = t - v.start[b] /\ Narrow(v.iov[b].len) = v.iov[b].len
  <1> DEFINE last == Len(v.iov)
             Steps(f) == [b \in 1..last |->
                            IF b = 1 THEN Narrow(t) ELSE f[b - 1] - Narrow(v.iov[b - 1].len)]
             g == [b \in 1..last |-> t - v.start[b]]
  <1>1. /\ t \in Nat /\ last \in Nat \ {0} /\ v.start[1] = 0 /\ v.size \in Nat
        /\ \A b \in 1..last : v.start[b] \in Nat /\ v.iov[b].len \in Nat
    BY ViewFacts
  <1>2. IntLimit \in Nat /\ t < IntLimit
    BY <1>1, FileViewAssumption
  <1>3. Narrow(t) = t
    BY <1>1, <1>2, NarrowFits
  <1>4. \A b \in 1..last : Narrow(v.iov[b].len) = v.iov[b].len
    <2>1. TAKE b \in 1..last
    <2>2. PICK l \in Nat : l = v.iov[b].len
      BY <1>1
    <2>3. v.start[b] + l <= v.size /\ v.start[b] \in Nat
      BY <1>1, <2>2, BlockInCopy
    <2>4. l < IntLimit
      BY <1>1, <1>2, <2>3
    <2>. QED BY <2>2, <2>4, NarrowFits
  <1>5. ASSUME NEW b \in 1..last, b # 1
        PROVE  /\ b - 1 \in 1..last /\ v.start[b] = v.start[b - 1] + v.iov[b - 1].len
               /\ t - v.start[b] = (t - v.start[b - 1]) - Narrow(v.iov[b - 1].len)
    <2>1. PICK c \in 1..last : c = b - 1
      BY <1>1, <1>5
    <2>2. c # last /\ c + 1 = b
      BY <1>1, <2>1
    <2>3. v.start[b] = v.start[c] + v.iov[c].len
      BY <2>2, ViewFacts
    <2>4. t - v.start[b] = (t - v.start[c]) - Narrow(v.iov[c].len)
      BY <1>1, <1>4, <2>3
    <2>. QED BY <2>1, <2>3, <2>4
  <1>6. g = Steps(g)
    <2>1. \A b \in 1..last :
            t - v.start[b] = IF b = 1 THEN Narrow(t) ELSE g[b - 1] - Narrow(v.iov[b - 1].len)
      BY <1>1, <1>3, <1>5
    <2>. QED BY <2>1
  <1>7. rest = Steps(rest)
    <2> DEFINE P(f) == f = Steps(f)
    <2>1. rest = CHOOSE f : P(f)
      OBVIOUS
    <2>2. P(g)
      BY <1>6
    <2> HIDE DEF P, g
    <2>3. P(rest)
      BY <2>1, <2>2
    <2>. QED BY <2>3 DEF P
  <1> HIDE DEF g
  <1>8. ASSUME NEW b \in 1..last
        PROVE  rest[b] = IF b = 1 THEN Narrow(t) ELSE rest[b - 1] - Narrow(v.iov[b - 1].len)
    BY <1>7
  <1> DEFINE W == {b \in 1..last : rest[b] # t - v.start[b]}
  <1>9. W = {}
    <2>1. SUFFICES ASSUME W # {} PROVE FALSE
      OBVIOUS
    <2>2. W \subseteq Nat
      BY <1>1
    <2>3. PICK b \in W : \A c \in W : b <= c
      <3> HIDE DEF W
      <3>. QED BY <2>1, <2>2, Least
    <2>4. b \in 1..last /\ rest[b] # t - v.start[b]
      OBVIOUS
    <2>5. b # 1
      BY <1>1, <1>3, <1>8, <2>4
    <2>6. b - 1 \in 1..last /\ ~(b <= b - 1)
      BY <1>1, <2>4, <2>5
    <2>7. rest[b - 1] = t - v.start[b - 1]
      <3>1. SUFFICES ASSUME rest[b - 1] # t - v.start[b - 1] PROVE FALSE
        OBVIOUS
      <3>2. b - 1 \in W
        BY <2>6, <3>1
      <3> HIDE DEF W
      <3>. QED BY <2>3, <2>6, <3>2
    <2>. QED BY <1>5, <1>8, <2>4, <2>5, <2>7
  <1>. QED BY <1>4, <1>9

\* get_byte_offset finds the block of a byte of a copy.
LEMMA ByteFound ==
  ASSUME NEW v \in ViewSet, NEW t \in 0..v.size - 1, v.size < IntLimit
  PROVE  \E b \in 1..Len(v.iov) : /\ v.start[b] <= t /\ t < v.start[b] + v.iov[b].len
                                  /\ FindByte(v, t) = <<b, t - v.start[b]>>
  <1> DEFINE last == Len(v.iov)
  <1>1. PICK rest :
          rest = CHOOSE f : f = [b \in 1..Len(v.iov) |->
                   IF b = 1 THEN Narrow(t) ELSE f[b - 1] - Narrow(v.iov[b - 1].len)]
    OBVIOUS
  <1> DEFINE stops == {b \in 1..Len(v.iov) :
                         rest[b] < Narrow(v.iov[b].len) \/ (b > 1 /\ rest[b] = 0)}
  <1>2. FindByte(v, t) = <<Min(stops), rest[Min(stops)]>>
    BY <1>1 DEF FindByte
  <1>3. \A b \in 1..last : rest[b] = t - v.start[b] /\ Narrow(v.iov[b].len) = v.iov[b].len
    BY <1>1, RestBefore
  <1>4. /\ t \in Nat /\ last \in Nat \ {0} /\ v.start[1] = 0
        /\ \A b \in 1..last : v.start[b] \in Nat /\ v.iov[b].len \in Nat \ {0}
    BY ViewFacts
  <1>5. \A b \in 1..last : b \in stops <=> t - v.start[b] < v.iov[b].len \/ (b > 1 /\ t - v.start[b] = 0)
    BY <1>3
  <1>6. stops \subseteq Nat /\ stops \subseteq 1..last
    OBVIOUS
  <1> HIDE DEF stops
  <1>7. stops # {}
    <2>1. PICK b \in 1..last : v.start[b] <= t /\ t < v.start[b] + v.iov[b].len
      BY BlockExists
    <2>. QED BY <1>4, <1>5, <2>1
  <1>8. PICK b \in stops : b = Min(stops) /\ \A c \in stops : b <= c
    BY <1>6, <1>7, Least DEF Min
  <1>9. b \in 1..last /\ (t - v.start[b] < v.iov[b].len \/ t - v.start[b] = 0)
    BY <1>5, <1>6, <1>8
  <1>10. v.start[b] <= t
    <2>1. CASE b = 1
      BY <1>4, <2>1
    <2>2. CASE b # 1
      <3>1. PICK c \in 1..last : c = b - 1
        BY <1>4, <1>9, <2>2
      <3>2. c # last /\ c + 1 = b /\ ~(b <= c)
        BY <1>4, <1>9, <3>1
      <3>3. v.start[b] = v.start[c] + v.iov[c].len
        BY <3>2, ViewFacts
      <3>4. c \notin stops
        BY <1>8, <3>2
      <3>5. ~(t - v.start[c] < v.iov[c].len)
        BY <1>5, <3>4
      <3>. QED BY <1>4, <3>3, <3>5
    <2>. QED BY <2>1, <2>2
  <1>11. t < v.start[b] + v.iov[b].len
    BY <1>4, <1>9, <1>10
  <1>. QED BY <1>2, <1>3, <1>8, <1>9, <1>10, <1>11

\* get_byte_offset is where the reference says the byte is.
LEMMA ByteAt ==
  ASSUME NEW v \in ViewSet, NEW c \in Nat, NEW t \in 0..v.size - 1, v.size < IntLimit,
         NEW off, off * v.etype = c * v.size + t
  PROVE  IsAt(v, c * v.size + t, GetByteOffset(v, off))
  <1> DEFINE n == off * v.etype
             base(b) == v.iov[b].base  o == v.extent * c
  <1>1. /\ t \in Nat /\ v.size \in Nat \ {0} /\ t < v.size /\ v.disp \in Nat /\ v.extent \in Nat
    BY ViewFacts
  <1>2. n \div v.size = c /\ n % v.size = t
    BY <1>1, Quotient
  <1>3. PICK b \in 1..Len(v.iov) : /\ v.start[b] <= t /\ t < v.start[b] + v.iov[b].len
                                   /\ FindByte(v, t) = <<b, t - v.start[b]>>
    BY ByteFound
  <1>4. v.start[b] \in Nat /\ base(b) \in Nat /\ v.iov[b].len \in Nat
    BY ViewFacts
  <1>5. GetByteOffset(v, off) = v.disp + o + base(b) + (t - v.start[b])
    BY <1>2, <1>3 DEF GetByteOffset
  <1>6. IsAt(v, c * v.size + t + 0, base(b) + (t - v.start[b]) + v.disp + c * v.extent + 0)
    <2>1. t + 0 < v.start[b] + v.iov[b].len
      BY <1>1, <1>3
    <2>. QED BY <1>1, <1>3, <2>1, ByteInBlock
  <1>7. c * v.size \in Nat /\ c * v.extent \in Nat
    BY <1>1, Products
  <1>8. v.extent * c = c * v.extent
    BY <1>1, Z3
  <1>9. PICK m \in Nat : m = c * v.extent /\ m = v.extent * c
    BY <1>7, <1>8
  <1>10. PICK x \in Nat, s \in Nat, d \in Nat : x = v.iov[b].base /\ s = v.start[b] /\ d = v.disp
    BY <1>1, <1>4
  <1>11. x + (t - s) + d + m + 0 = d + m + x + (t - s)
    BY <1>1
  <1>12. c * v.size + t + 0 = c * v.size + t
    BY <1>1, <1>7
  <1>13. GetByteOffset(v, off) = d + m + x + (t - s)
    BY <1>5, <1>9, <1>10
  <1>14. IsAt(v, c * v.size + t + 0, x + (t - s) + d + m + 0)
    BY <1>6, <1>9, <1>10
  <1>. QED BY <1>11, <1>12, <1>13, <1>14

\* get_byte_offset of get_position is where the next byte of the view goes, in
\* every view whose size fits an int, after transfers and seeks in any order.
THEOREM ByteOffsetCorrect == SafeSpec => []ByteOffsetAgrees
  <1>1. Init => EInv
    <2> SUFFICES ASSUME Init PROVE EInv
      OBVIOUS
    <2>1. view \in ViewSet /\ total = 0 /\ left = 0
      BY DEF Init
    <2>2. view.etype \in Nat \ {0} /\ 0 * view.etype = 0 /\ (0 * view.etype) % view.etype = 0
      BY <2>1, ViewFacts, IsMultiple
    <2>. QED BY <2>1, <2>2, InitInv DEF EInv, WholeEtypes
  <1>2. EInv => ByteOffsetAgrees
    <2> SUFFICES ASSUME EInv, ~walking, view.size < IntLimit
                 PROVE  IsAt(view, Place, GetByteOffset(view, GetPosition))
      BY DEF ByteOffsetAgrees
    <2>1. /\ view \in ViewSet /\ view.size \in Nat \ {0} /\ total \in Nat /\ copy \in Nat
      BY EtypeFacts
    <2>2. Place = copy * view.size + total /\ GetPosition * view.etype = Place
      BY PositionIsPlace DEF Place
    <2>3. total <= view.size
      <3>1. /\ index \in 1..Len(view.iov) /\ position = view.start[index]
            /\ total <= position + view.iov[index].len
        BY DEF EInv, IInv, TypeOK, Blocks, CursorAgrees
      <3>2. view.start[index] + view.iov[index].len <= view.size
        BY <2>1, <3>1, BlockInCopy
      <3>3. view.start[index] \in Nat /\ view.iov[index].len \in Nat
        BY <2>1, <3>1, ViewFacts
      <3>. QED BY <2>1, <3>1, <3>2, <3>3
    <2>4. CASE total < view.size
      <3>1. total \in 0..view.size - 1
        BY <2>1, <2>4
      <3>. QED BY <2>1, <2>2, <3>1, ByteAt
    <2>5. CASE total = view.size
      <3>1. PICK c \in Nat : c = copy + 1
        BY <2>1
      <3>2. Place = c * view.size + 0
        BY <2>1, <2>2, <2>5, <3>1, Products
      <3>3. 0 \in 0..view.size - 1
        BY <2>1
      <3>. QED BY <2>1, <2>2, <3>2, <3>3, ByteAt
    <2>. QED BY <2>1, <2>3, <2>4, <2>5
  <1>. QED BY <1>1, <1>2, StepEInv, PTL DEF SafeSpec
-----------------------------------------------------------------------------
(* The end of the file.                                                    *)

LEMMA Greatest ==
  ASSUME NEW S, S \subseteq Int, NEW x \in S, \A y \in S : y <= x
  PROVE  Max(S) = x
  <1>1. Max(S) \in S /\ \A y \in S : Max(S) >= y
    BY Zenon, \A y \in S : x >= y DEF Max
  <1>2. Max(S) <= x /\ Max(S) >= x /\ Max(S) \in Int /\ x \in Int
    BY <1>1
  <1>. QED BY <1>2

\* In a view without gaps whole etypes end where the file does.
LEMMA EofIsEnd ==
  ASSUME NEW v \in ViewSet, Contiguous(v),
         NEW n \in Nat, n >= v.disp, (n - v.disp) % v.etype = 0
  PROVE  GetEofOffset(v, n) = n - v.disp
  <1>1. PICK in \in Nat : in = n - v.disp
    <2>1. n - v.disp \in Nat
      BY ViewFacts
    <2>. QED BY <2>1
  <1>2. PICK size \in Nat \ {0} : size = v.size
    BY ViewFacts
  <1>3. PICK e \in Nat \ {0} : e = v.etype
    BY ViewFacts
  <1>4. PICK q \in Nat : q = in \div size
    BY Division
  <1>5. PICK begin \in Nat : begin = q * size
    BY Products
  <1>6. PICK r \in 0..size - 1 : r = in % size
    BY Division
  <1>7. in = begin + r
    BY <1>4, <1>5, <1>6, Division
  <1>8. PICK k \in Nat : r = k * e
    <2>1. size % e = 0
      BY <1>2, <1>3, FileViewAssumption DEF ViewAssumption
    <2>2. begin % e = 0
      BY <2>1, <1>5, MultipleOfMultiple
    <2>3. (begin + r) % e = 0
      BY <1>1, <1>3, <1>7
    <2>4. r \in Nat
      OBVIOUS
    <2>5. r % e = 0
      BY <2>2, <2>3, <2>4, Multiples
    <2>. QED BY <2>4, <2>5, Multiple
  <1>9. /\ InOffset(v, n) = in /\ v.extent = size /\ Len(v.iov) = 1
        /\ v.iov[1].base = 0 /\ v.iov[1].len = size
    BY <1>1, <1>2 DEF InOffset, Contiguous
  <1> DEFINE Found(i, s)      == {b \in 1..Len(v.iov) : s + v.iov[b].base <= i}
             Etypes(i, f, sn) == {m \in 0..i : m * v.etype <= v.iov[sn].len /\ f + m * v.etype <= i}
  <1>10. Found(in, begin) = {1}
    <2>1. begin + 0 <= in
      BY <1>7
    <2>2. 1..1 = {1}
      OBVIOUS
    <2>. QED BY <1>9, <2>1, <2>2
  <1>11. Max({1}) = 1 /\ Min({1 + 1, 1}) = 1
    <2>1. Max({1}) = 1
      BY Greatest
    <2>. QED BY <2>1 DEF Min
  <1>12. Max(Etypes(in, begin, 1)) = k
    <2>1. k <= k * e
      BY <1>8, Products
    <2>2. k \in Etypes(in, begin, 1)
      BY <1>3, <1>7, <1>8, <1>9, <2>1
    <2>3. ASSUME NEW m \in Etypes(in, begin, 1) PROVE m <= k
      <3>1. m \in Nat /\ begin + m * e <= in
        BY <1>3
      <3>2. SUFFICES ASSUME k < m PROVE FALSE
        BY <3>1
      <3>3. PICK d \in Nat : m = k + 1 + d
        <4>1. m - k - 1 \in Nat /\ m = k + 1 + (m - k - 1)
          BY <3>1, <3>2
        <4>. QED BY <4>1
      <3>4. m * e = k * e + e + d * e /\ d * e \in Nat
        BY <3>3, Z3
      <3>. QED BY <1>7, <1>8, <3>1, <3>4
    <2>4. Etypes(in, begin, 1) \subseteq Int
      OBVIOUS
    <2> HIDE DEF Etypes
    <2>. QED BY <2>2, <2>3, <2>4, Greatest
  <1>13. GetEofOffset(v, n)
         = LET i     == InOffset(v, n)
               s     == (i \div v.extent) * v.extent
               found == Found(i, s)
               from  == IF found = {} THEN 0 ELSE s + v.iov[Max(found)].base
               seen  == IF found = {} THEN 1 ELSE Min({Max(found) + 1, Len(v.iov)})
           IN IF i < 0 THEN 0 ELSE from + Max(Etypes(i, from, seen)) * v.etype
    BY Zenon DEF GetEofOffset
  <1> HIDE DEF Found, Etypes
  <1>14. (in \div size) * size = begin /\ begin + 0 = begin /\ ~(in < 0) /\ {1} # {}
    BY <1>4, <1>5
  <1>15. GetEofOffset(v, n) = begin + k * e
    BY <1>3, <1>9, <1>10, <1>11, <1>12, <1>13, <1>14
  <1>. QED BY <1>1, <1>7, <1>8, <1>15

\* MPI_SEEK_END in a contiguous view goes behind the last byte of the file,
\* for any size of it that holds whole etypes.
THEOREM SeekEndCorrect == SafeSpec => SeekEndAppends
  <1>1. ASSUME IInv, NEW n \in FileSizes, SeekEnd(0, n),
               Contiguous(view), n >= view.disp, (n - view.disp) % view.etype = 0
        PROVE  IsAt(view, Place', n)
    <2>1. view \in ViewSet /\ n \in Nat
      BY <1>1, FileViewAssumption DEF IInv, TypeOK
    <2>2. PICK in \in Nat : in = n - view.disp
      <3>1. n - view.disp \in Nat
        BY <1>1, <2>1, ViewFacts
      <3>. QED BY <3>1
    <2>3. 0 * view.etype + GetEofOffset(view, n) = in
      <3>1. GetEofOffset(view, n) = in
        BY <1>1, <2>1, <2>2, EofIsEnd
      <3>2. 0 * view.etype = 0
        BY <2>1, ViewFacts
      <3>. QED BY <3>1, <3>2
    <2>4. (in \div view.etype) * view.etype = in
      BY <1>1, <2>1, <2>2, ViewFacts, Multiple
    <2>5. copy' = in \div view.size /\ total' = in % view.size /\ view' = view
      BY <1>1, <2>3, <2>4 DEF SeekEnd, SeekTo, SetPlace
    <2>6. PICK size \in Nat \ {0} : size = view.size
      BY <2>1, ViewFacts
    <2>7. PICK c \in Nat, t \in 0..size - 1 : c = in \div size /\ t = in % size
      BY Division
    <2>8. in = c * size + t
      BY <2>7, Division
    <2>9. Place' = c * size + t
      BY <2>5, <2>6, <2>7 DEF Place
    <2>10. /\ 1 \in 1..Len(view.iov) /\ view.start[1] = 0 /\ view.disp \in Nat
           /\ view.iov[1].base = 0 /\ view.iov[1].len = size /\ view.extent = size
      BY <1>1, <2>1, <2>6, ViewFacts DEF Contiguous
    <2>11. IsAt(view, c * size + t + 0, 0 + (t - 0) + view.disp + c * size + 0)
      <3>1. 0 <= t /\ t + 0 < 0 + size /\ t \in Nat /\ 0 \in Nat
        BY <2>6
      <3>. QED BY <2>1, <2>6, <2>10, <3>1, ByteInBlock
    <2>12. c * size \in Nat
      BY Products
    <2>13. PICK p \in Nat, d \in Nat : p = c * size /\ d = view.disp
      BY <2>10, <2>12
    <2>14. t \in Nat
      BY <2>6
    <2>15. p + t = n - d
      BY <2>2, <2>8, <2>13
    <2>16. p + t + 0 = p + t /\ 0 + (t - 0) + d + p + 0 = n
      BY <2>1, <2>14, <2>15
    <2>. QED BY <2>9, <2>11, <2>13, <2>16
  <1>2. IInv /\ [Next]_vars =>
          [\A n \in FileSizes :
             /\ SeekEnd(0, n)
             /\ Contiguous(view) /\ n >= view.disp /\ (n - view.disp) % view.etype = 0
             => IsAt(view, Place', n)]_vars
    BY <1>1
  <1>. QED BY <1>2, InitInv, StepInv, PTL DEF SafeSpec, SeekEndAppends
=============================================================================
