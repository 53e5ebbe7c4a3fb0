SPECIFICATION KronkFairSpec
CONSTANTS
    s1 = s1
    s2 = s2
    Terminals <- MCTerminals
    Disk <- MCDisk
    Files <- MCFiles
    Inputs <- MCInputs
    IntRange = 4
    Effect <- exec_line
    Vars = {"A"}
    MaxLines = 3
    MaxSteps = 4
INVARIANTS RunsAsWritten TablesAreSound
PROPERTIES RunsEnd
\* A processor exception stops the machine.
CHECK_DEADLOCK FALSE
