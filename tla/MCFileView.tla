----------------------------- MODULE MCFileView -----------------------------
(* Values of FileView's constants for TLC. *)
EXTENDS FileView

Block(b, n) == [base |-> b, len |-> n]

\* Contiguous; of an etype of two bytes; with a gap before a longer block;
\* with a gap before the first block; with copies that touch.
Whole  == [disp |-> 0, etype |-> 1, iov |-> <<Block(0, 2)>>, start |-> <<0>>,
           size |-> 2, extent |-> 2]
Pairs  == [disp |-> 2, etype |-> 2, iov |-> <<Block(0, 4)>>, start |-> <<0>>,
           size |-> 4, extent |-> 4]
Gaps   == [disp |-> 1, etype |-> 1, iov |-> <<Block(0, 1), Block(4, 2)>>, start |-> <<0, 1>>,
           size |-> 3, extent |-> 8]
Late   == [disp |-> 0, etype |-> 2, iov |-> <<Block(2, 2), Block(6, 4)>>, start |-> <<0, 2>>,
           size |-> 6, extent |-> 12]
Touch  == [disp |-> 3, etype |-> 1, iov |-> <<Block(0, 1), Block(3, 1), Block(5, 1)>>,
           start |-> <<0, 1, 2>>, size |-> 3, extent |-> 6]
MCViews == {Whole, Pairs, Gaps, Late, Touch}
=============================================================================
