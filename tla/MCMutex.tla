------------------------------ MODULE MCMutex ------------------------------
(* Instances of Mutex for TLC.  t4 polls in the run with TryTasks.         *)
EXTENDS Mutex

CONSTANTS t1, t2, t3, t4, s1

ThreeLockers == {t1, t2, t3}
TwoLockersAndTry == {t1, t2, t4}
TryTasks == {t4}
NoTryTasks == {}
OneShell == {s1}
=============================================================================
