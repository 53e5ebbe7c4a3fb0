SPECIFICATION FairSpec
CONSTANTS
    t1 = t1
    f1 = f1
    f2 = f2
    f3 = f3
    None = None
    Tasks <- OneTask
    Names <- OneName
    NClusters = 2
    ChainEnd = 5
    NSlots = 2
    MaxSize = 2
    EditorLimit = 1
    MaxOps = 1
    MaxErrors = 1
    MaxKills = 0
    FailingDrive = TRUE
    DirtyDisk = TRUE
PROPERTIES OperationsEnd
\* All operations are done.
CHECK_DEADLOCK FALSE
