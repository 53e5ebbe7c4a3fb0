\* One test of three tasks, one of them polling, and a waiter array of one
\* entry, which overflows.
SPECIFICATION FairSpec
CONSTANTS
    t1 = t1
    t2 = t2
    t3 = t3
    t4 = t4
    s1 = s1
    NoTask = NoTask
    Tasks <- TwoLockersAndTry
    Shells <- OneShell
    TryLockers <- TryTasks
    PerTest = 3
    Iters = 3
    MaxWaiters = 1
INVARIANTS MutualExclusion NeverReportsFail WaitersAreSleepers
PROPERTIES CounterNeverLosesAnUpdate ImplementsCountingLock AlwaysReleased
\* Finished test tasks halt for good and the set of tasks is finite.
CHECK_DEADLOCK FALSE
