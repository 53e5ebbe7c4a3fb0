SPECIFICATION FairSpec
CONSTANTS
    NWindows = 2
    KbSize = 3
    QueueSize = 3
    MaxTasks = 2
    MaxKeys = 3
    MaxRaw = 1
INVARIANTS WindowsAreSound KeysArriveOnceInOrder
PROPERTY KeyboardDrains
\* The desktop may be off and all keys typed.
CHECK_DEADLOCK FALSE
