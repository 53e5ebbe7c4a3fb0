------------------------------ MODULE MCFat16 ------------------------------
(* Instances of Fat16 for TLC.                                             *)
EXTENDS Fat16, TLC

CONSTANTS t1, f1, f2, f3

OneTask == {t1}
OneName == {f1}
ThreeNames == {f1, f2, f3}

\* Neither task nor file names matter.
Symmetry == Permutations(Tasks) \cup Permutations(Names)
=============================================================================
