SPECIFICATION Spec
CONSTANTS
    p1 = p1
    p2 = p2
    p3 = p3
    v0 = v0
    v1 = v1
    NoMem = NoMem
    Values <- TwoValues
    ImageValue = v0
    NFrames = 9
    Procs <- ThreeProcs
    NImage = 1
    HasVbe = TRUE
    RefModulus = 4
    ResultsOnSharedPage = FALSE
VIEW UpToFrameNames
SYMMETRY Symmetry
PROPERTIES ImplementsPrivateMemory
INVARIANTS FramesAreSound WritableIsPrivate
\* The machine stops at a fault, and failed run commands use up the processes.
CHECK_DEADLOCK FALSE
