SPECIFICATION FairSpec
CONSTANTS
    Main = Main
    Bg = Bg
    Null = Null
    t1 = t1
    t2 = t2
    t3 = t3
    Slots <- ThreeSpare
INVARIANTS OneRing OnlySoundTasksRun UserModeIsPreemptible ChildStaysWithItsWaiter FaultsOnlyInKnownWindows
PROPERTIES DeathIsFinal ReadyTaskRuns
\* A fault state is the end of the machine.
CHECK_DEADLOCK FALSE
