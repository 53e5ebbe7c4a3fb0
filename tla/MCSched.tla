------------------------------ MODULE MCSched ------------------------------
(* Instances of Sched for TLC: the two boot-time tasks and a few addresses *)
(* for the tasks created later.                                            *)
EXTENDS Sched

CONSTANTS t1, t2, t3

ThreeSpare == {Main, Bg, t1, t2, t3}

\* schedule() reaches every READY task, however the others sleep, die and are
\* reaped around it.  The spare addresses are interchangeable: t1 stands for all.
ReadyTaskRuns == GetsTheCPU(t1)
=============================================================================
