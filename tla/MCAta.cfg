SPECIFICATION FairSpec
CONSTANTS
    Tasks = {t1, t2}
    Radix = 3
    Offset = 3
    NSectors = 6
    Requests <- MCRequests
    Words = 1
    MaxPolls = 2
INVARIANTS BootAreaUntouched AccessesAreExact
PROPERTIES AccessesEnd
