------------------------------- MODULE MCAta -------------------------------
(* Instances of Ata for TLC.                                               *)
EXTENDS Ata

\* Sectors 4 and 6, 7 of the disk: both digits differ.
MCRequests == {[first |-> 1, count |-> 1], [first |-> 3, count |-> 2]}
=============================================================================
