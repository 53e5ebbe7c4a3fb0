------------------------------- MODULE MCHeap -------------------------------
(* Instances of Heap for TLC.                                              *)
EXTENDS Heap

\* One word, three, eleven, twenty: within a split, with slack to spare, most
\* of a page, more than a page.
FourSizes == {1, 10, 41, 80}
=============================================================================
