\* The code's own parameters, two tasks, scaled to two iterations.
SPECIFICATION FairSpec
CONSTANTS
    t1 = t1
    t2 = t2
    t3 = t3
    t4 = t4
    s1 = s1
    NoTask = NoTask
    Tasks <- ThreeLockers
    Shells <- OneShell
    TryLockers <- NoTryTasks
    PerTest = 2
    Iters = 2
    MaxWaiters = 16
PROPERTIES SleeperIsWoken
CHECK_DEADLOCK FALSE
