SPECIFICATION Spec
CONSTANTS
    PageSize = 16
    HeaderSize = 3
    SplitSlack = 4
    InitialPages = 2
    NFrames = 5
    Requests <- FourSizes
    MaxLive = 3
INVARIANTS HeapIsSound
PROPERTIES HeldBlocksStayPut
\* A heap that has overrun its memory is not followed any further.
CHECK_DEADLOCK FALSE
