---------------------------- MODULE MCLocalFile ----------------------------
(* Values of LocalFile's constants for TLC. *)
EXTENDS LocalFile, FiniteSetsExt, TLC

CONSTANTS v1, v2, v3

MCChunks    == v1 :> 1 @@ v2 :> 2 @@ v3 :> 3
MCEtypeFits == v1 :> TRUE @@ v2 :> TRUE @@ v3 :> TRUE

\* Pages of two bytes, at least two of them; a pair of one and three bytes.
Named(n)  == [kind |-> "named", size |-> n, parts |-> {n}]
Pair      == [kind |-> "named", size |-> 4, parts |-> {1, 3}]
Runs4(u)  == {[kind |-> "contiguous", count |-> n, of |-> u] : n \in {0, 1, 4}}
Basic     == {Named(n) : n \in 0..4} \cup {Pair} \cup Runs4(Pair)
Blocks(u) == {[kind |-> "blocks", count |-> c, blocklen |-> n, of |-> u] : c \in {0, 2}, n \in {0, 2, 5}}
Level2    == UNION {Runs4(Named(n)) \cup Blocks(Named(n)) : n \in {1, 2}}
Mixed     == {[kind |-> "struct", lens |-> <<n, 2>>, ofs |-> <<Named(2), u>>] : n \in {1, 2}, u \in Blocks(Named(1)) \cup Basic}
             \cup {[kind |-> "indexed", lens |-> s, of |-> Named(1)] : s \in {<< >>, <<4, 6>>, <<4, 1>>}}
Arrays    == {[kind |-> "subarray", order |-> o, subsizes |-> <<4, 3>>, of |-> Named(1)] : o \in {"C", "Fortran"}}
             \cup {[kind |-> "darray", order |-> "C", gsizes |-> <<g>>, distribs |-> <<d>>, dargs |-> <<a>>,
                    psizes |-> <<2>>, of |-> Named(1)] :
                   g \in {8, 9}, d \in {"none", "block", "cyclic"}, a \in {Default, 4}}
Wrapped   == {[kind |-> k, of |-> u] : k \in {"dup", "resized", "unlisted"}, u \in {Named(4)}}
             \cup {[kind |-> "contiguous", count |-> 3, of |-> u] : u \in Blocks(Named(2))}
MCTypes   == Basic \cup Level2 \cup Mixed \cup Arrays \cup Wrapped

MCDepth[t \in MCTypes] == 1 + Max({0} \cup {MCDepth[u] : u \in Components(t)})
=============================================================================
