------------------------------ MODULE DirectIO ------------------------------
(***************************************************************************)
(* Which file types set_view buffers in a local file opened with O_DIRECT: *)
(* enable_directio walks the tree of the datatype's constructors.  A       *)
(* datatype is a record with the constructor's kind and arguments; of the  *)
(* displacements only that blocks do not touch each other matters.         *)
(***************************************************************************)
EXTENDS Integers, Sequences, Functions

CONSTANTS Types,     \* datatypes, closed under taking components
          Depth,     \* how deep the constructors of each are nested
          PageSize,  \* bytes; set_view passes 4096
          Threshold  \* bytes; set_view passes 512 KiB

\* [kind |-> "named", size, parts]    a predefined type; parts are the lengths
\*                  of its pieces, {size} unless it is a pair like MPI_DOUBLE_INT
\* [kind |-> "dup", of]
\* [kind |-> "contiguous", count, of]
\* [kind |-> "blocks", count, blocklen, of]    vector and indexed_block
\* [kind |-> "indexed", lens, of]
\* [kind |-> "struct", lens, ofs]
\* [kind |-> "subarray", order, subsizes, of]
\* [kind |-> "darray", order, gsizes, distribs, dargs, psizes, of]
\* [kind |-> "resized", of]           and the parametrised Fortran types
\* [kind |-> "unlisted", of]          a constructor the switch does not name
Components(t) == CASE t.kind = "named"  -> {}
                   [] t.kind = "struct" -> Range(t.ofs)
                   [] OTHER             -> {t.of}

Default == -1  \* MPI_DISTRIBUTE_DFLT_DARG

\* What MPI accepts as the arguments of a constructor.
Arguments(t) ==
  CASE t.kind = "named"      -> t.size \in Nat /\ t.parts \in SUBSET (0..t.size)
    [] t.kind = "contiguous" -> t.count \in Nat
    [] t.kind = "blocks"     -> t.count \in Nat /\ t.blocklen \in Nat
    [] t.kind = "indexed"    -> t.lens \in Seq(Nat)
    [] t.kind = "struct"     -> t.lens \in Seq(Nat) /\ t.ofs \in [DOMAIN t.lens -> Types]
    [] t.kind = "subarray"   -> t.subsizes \in Seq(Nat) \ {<< >>}
    [] t.kind = "darray"     -> /\ t.gsizes \in Seq(Nat) \ {<< >>}
                                /\ t.distribs \in [DOMAIN t.gsizes -> {"none", "block", "cyclic"}]
                                /\ t.dargs \in [DOMAIN t.gsizes -> Nat \cup {Default}]
                                /\ t.psizes \in [DOMAIN t.gsizes -> Nat \ {0}]
    [] OTHER                 -> t.kind \in {"dup", "resized", "unlisted"}

\* A datatype is made from ones that exist.
ASSUME DirectIOAssumption ==
  /\ PageSize \in Nat \ {0} /\ Threshold \in Nat
  /\ Depth \in [Types -> Nat]
  /\ \A t \in Types : Arguments(t) /\ \A u \in Components(t) : u \in Types /\ Depth[u] < Depth[t]

\* The dimension whose elements are adjacent in the file.
Fastest(t) == IF t.order = "C" THEN Len(t.subsizes) ELSE 1
FastestOfArray(t) == IF t.order = "C" THEN Len(t.gsizes) ELSE 1
-----------------------------------------------------------------------------
(* A faulty form of FitsNamed: the length need not be whole pages.         *)
LongEnough(u, n) == u.kind = "named" /\ u.size * n >= Threshold
-----------------------------------------------------------------------------
\* The length test of every case: whole pages, and enough of them.
WholePages(n) == n % PageSize = 0 /\ n >= Threshold

\* n adjacent elements of a predefined type; what counts is their size, also
\* of those that have a gap.
FitsNamed(u, n) == u.kind = "named" /\ u.size # 0 /\ WholePages(u.size * n)

\* The elements of a process along the fastest dimension, as the code
\* computes them: rounded down where the division is not even.
LocalElements(t) ==
  LET d == FastestOfArray(t)
  IN IF t.distribs[d] = "none" THEN t.gsizes[d]
     ELSE IF t.dargs[d] = Default THEN t.gsizes[d] \div t.psizes[d] ELSE t.dargs[d]

\* enable_directio, with its results e for the components.
EnableBy(e, t) ==
  CASE t.kind = "named"      -> FitsNamed(t, 1)
    [] t.kind = "dup"        -> e[t.of]
    [] t.kind = "contiguous" -> /\ t.count # 0
                                /\ e[t.of] \/ FitsNamed(t.of, t.count)
    [] t.kind = "blocks"     -> /\ t.count # 0
                                /\ e[t.of] \/ FitsNamed(t.of, t.blocklen)
    [] t.kind = "indexed"    -> /\ t.lens # << >>
                                /\ \/ e[t.of]
                                   \/ \A c \in DOMAIN t.lens : FitsNamed(t.of, t.lens[c])
    [] t.kind = "struct"     -> /\ t.lens # << >>
                                /\ \A c \in DOMAIN t.lens :
                                     e[t.ofs[c]] \/ FitsNamed(t.ofs[c], t.lens[c])
    [] t.kind = "subarray"   -> \/ e[t.of]
                                \/ FitsNamed(t.of, t.subsizes[Fastest(t)])
    [] t.kind = "darray"     -> \/ e[t.of]
                                \/ /\ t.distribs[FastestOfArray(t)] \in {"none", "block"}
                                   /\ FitsNamed(t.of, LocalElements(t))
    [] t.kind = "resized"    -> FALSE
    [] OTHER                 -> TRUE   \* falls out of the switch
Enable[t \in Types] == EnableBy(Enable, t)
-----------------------------------------------------------------------------
(* The reference: how long the contiguous pieces of a datatype are.        *)

\* A predefined type without a gap between or behind its parts.
GapFree(t) == t.parts = {t.size}

\* The bytes of a datatype that is one piece, 0 for one that may have gaps.
SolidBy(s, t) ==
  CASE t.kind = "named"      -> IF GapFree(t) THEN t.size ELSE 0
    [] t.kind = "dup"        -> s[t.of]
    [] t.kind = "contiguous" -> t.count * s[t.of]
    [] OTHER                 -> 0
Solid[t \in Types] == SolidBy(Solid, t)

\* What a process has of g elements dealt out in blocks of b.
BlocksOf(g, b) == {IF (c + 1) * b <= g THEN b ELSE g - c * b : c \in {i \in 0..g : i * b < g}}

\* Numbers of adjacent elements of its component that a datatype consists of.
Runs(t) ==
  CASE t.kind = "contiguous" -> {t.count}
    [] t.kind = "blocks"     -> {t.blocklen}
    [] t.kind = "indexed"    -> Range(t.lens)
    [] t.kind = "subarray"   -> {t.subsizes[Fastest(t)]}
    [] t.kind = "darray"     ->
         LET d == FastestOfArray(t)
             g == t.gsizes[d]
             even == (g + t.psizes[d] - 1) \div t.psizes[d]
             deal == IF t.distribs[d] = "cyclic" THEN 1 ELSE even
         IN IF t.distribs[d] = "none" THEN {g}
            ELSE BlocksOf(g, IF t.dargs[d] = Default THEN deal ELSE t.dargs[d])
    [] OTHER                 -> {1}

\* Lengths of the pieces of a datatype, in bytes.  (Pieces that touch make
\* longer ones, sums of these.)
PiecesBy(p, t) ==
  LET Repeat(u, n) == IF n = 0 THEN {} ELSE IF Solid[u] # 0 THEN {n * Solid[u]} ELSE p[u]
  IN CASE t.kind = "named"  -> t.parts \ {0}
       [] t.kind = "struct" -> UNION {Repeat(t.ofs[c], t.lens[c]) : c \in DOMAIN t.lens}
       [] OTHER             -> UNION {Repeat(t.of, n) : n \in Runs(t)}
Pieces[t \in Types] == PiecesBy(Pieces, t)

\* The code names the constructor, its arrays are dealt out evenly, and no
\* predefined type has a gap.
CoveredBy(c, t) ==
  /\ t.kind # "unlisted"
  /\ t.kind = "named" => GapFree(t)
  /\ t.kind = "darray" => Runs(t) = {LocalElements(t)} \/ t.distribs[FastestOfArray(t)] = "cyclic"
  /\ \A u \in Components(t) : c[u]
Covered[t \in Types] == CoveredBy(Covered, t)
=============================================================================
