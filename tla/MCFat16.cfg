SPECIFICATION Spec
CONSTANTS
    t1 = t1
    f1 = f1
    f2 = f2
    f3 = f3
    None = None
    Tasks <- OneTask
    Names <- ThreeNames
    NClusters = 3
    ChainEnd = 6
    NSlots = 2
    MaxSize = 2
    EditorLimit = 1
    MaxOps = 4
    MaxErrors = 1
    MaxKills = 1
    FailingDrive = FALSE
    DirtyDisk = FALSE
SYMMETRY Symmetry
INVARIANTS SavedFilesIntact ReadReturnsSaved TablesAreSound
\* All operations are done.
CHECK_DEADLOCK FALSE
