-------------------------------- MODULE Ata --------------------------------
(***************************************************************************)
(* The disk driver (kernel/ata.c): ata_read_sectors and ata_write_sectors, *)
(* run by tasks that can be preempted between any two accesses to a port.  *)
(* No lock is held: the registers, and the data port, are shared.          *)
(*                                                                         *)
(* The drive is external.  It is busy for as long as it likes, may answer  *)
(* a command with an error, and does what it likes with a register or a    *)
(* command that is written while it is busy or has data to transfer.       *)
(*                                                                         *)
(* An address is written in the digits of base Radix (256).  The head and  *)
(* the high register are the same in every access, as the disk (16 MB, see *)
(* the Makefile) has fewer than Radix^2 sectors.  Boot loader and kernel   *)
(* are in the sectors below Offset.  Of the data only the addresses are    *)
(* kept: which sector and word the drive transfers, and which the task     *)
(* means.                                                                  *)
(***************************************************************************)
EXTENDS Integers, FiniteSets

CONSTANTS
    Tasks,
    Radix,      \* values of a register
    Offset,     \* FAT16_PARTITION_LBA_OFFSET
    NSectors,   \* sectors of the partition
    Requests,   \* what the file system asks for: first sector and count
    Words,      \* words of a sector: 256
    MaxPolls    \* 100000

Sectors == 0..(Offset + NSectors - 1)

ASSUME AtaAssumption ==
    /\ Radix \in Nat \ {0} /\ NSectors \in Nat \ {0} /\ Words \in Nat \ {0} /\ MaxPolls \in Nat \ {0}
    /\ \E k \in 1..(Radix - 1) : Offset = k * Radix
    /\ Offset + NSectors <= Radix * Radix
    /\ \A r \in Requests : /\ r.first \in Nat /\ r.count \in Nat \ {0}
                          /\ r.first + r.count <= NSectors

\* Mutant of Low: sectors are counted from 1.
LowFromOne(lba) == (lba + 1) % Radix

Low(lba) == lba % Radix
Mid(lba) == lba \div Radix

VARIABLES
    low, mid, count,   \* the registers
    drive,             \* "idle", "busy", "drq", "commit" (busy, all words received) or "err"
    command,           \* "read" or "write"
    target,            \* the sector it is at
    left,              \* sectors of the command it has not finished
    moved,             \* words of this sector transferred
    asked,             \* history: the request it was given the command for
    pc,                \* per task: the statement it has reached
    access,            \* per task: its arguments (lba with the offset) and loop variables
    polls,             \* per task: turns of the polling loop it is in
    exact,             \* per task, history: it has got no word but those it asked for
    disturbed          \* history: one access fell into another, or was given up by a timeout

registers == <<low, mid, count>>
driveVars == <<drive, command, target, left, moved, asked>>
taskVars == <<pc, access, polls, exact>>
vars == <<registers, driveVars, taskVars, disturbed>>

NoAccess == [op |-> "none", lba |-> 0, n |-> 0, done |-> 0, word |-> 0]
NotAsked == [lba |-> 0, n |-> 0]

\* After ata_identify and the first read of fat16_mount, of the partition's sector 0.
Init ==
    /\ low = Low(Offset) /\ mid = Mid(Offset) /\ count = 1
    /\ drive = "idle" /\ command = "read" /\ target = Offset /\ left = 0 /\ moved = 0
    /\ asked = NotAsked
    /\ pc = [t \in Tasks |-> "idle"] /\ access = [t \in Tasks |-> NoAccess]
    /\ polls = [t \in Tasks |-> 0] /\ exact = [t \in Tasks |-> TRUE]
    /\ disturbed = FALSE

----------------------------------------------------------------------------
(* The drive                                                               *)

Occupied == drive \in {"busy", "drq", "commit"}

\* Behind the last sector, or on bad luck, the command fails.
DriveFails ==
    /\ drive \in {"busy", "commit"}
    /\ drive' = "err"
    /\ UNCHANGED <<registers, command, target, left, moved, asked, taskVars, disturbed>>

DriveHasData ==
    /\ drive = "busy" /\ target \in Sectors
    /\ drive' = "drq" /\ moved' = 0
    /\ UNCHANGED <<registers, command, target, left, asked, taskVars, disturbed>>

\* A sector is done; the next one of the command follows.
SectorDone ==
    /\ left' = left - 1
    /\ IF left = 1 THEN drive' = "idle" /\ UNCHANGED target
                   ELSE drive' = "busy" /\ target' = target + 1

\* The sector's words are on the disk.
DriveCommits ==
    /\ drive = "commit" /\ SectorDone
    /\ UNCHANGED <<registers, command, moved, asked, taskVars, disturbed>>

Drive == DriveFails \/ DriveHasData \/ DriveCommits

----------------------------------------------------------------------------
(* ata_read_sectors, ata_write_sectors                                     *)

Goto(t, l) == pc' = [pc EXCEPT ![t] = l]
Return(t) == Goto(t, "idle") /\ access' = [access EXCEPT ![t] = NoAccess]

\* Between its first register and its last word, an access needs the drive for itself.
InAccess == {"count", "low", "mid", "command", "ready", "drq", "words"}
Others(t) == \E u \in Tasks \ {t} : pc[u] \in InAccess
Touches(t) == disturbed' = (disturbed \/ Others(t))

\* Mutant of Begin: the partition's offset is forgotten.
BeginWithoutOffset(t) ==
    /\ pc[t] = "idle"
    /\ \E o \in {"read", "write"}, r \in Requests :
          access' = [access EXCEPT ![t] =
              [op |-> o, lba |-> r.first, n |-> r.count, done |-> 0, word |-> 0]]
    /\ exact' = [exact EXCEPT ![t] = TRUE]
    /\ Goto(t, "first")
    /\ UNCHANGED <<registers, driveVars, polls, disturbed>>

Begin(t) ==
    /\ pc[t] = "idle"
    /\ \E o \in {"read", "write"}, r \in Requests :
          access' = [access EXCEPT ![t] =
              [op |-> o, lba |-> r.first + Offset, n |-> r.count, done |-> 0, word |-> 0]]
    /\ exact' = [exact EXCEPT ![t] = TRUE]
    /\ Goto(t, "first")
    /\ UNCHANGED <<registers, driveVars, polls, disturbed>>

\* Mutant of Poll: the count of turns starts anew instead of ending the wait.
PollForever(t, seen, next) ==
    /\ \/ seen /\ Goto(t, next)
       \/ ~seen /\ UNCHANGED pc
    /\ polls' = [polls EXCEPT ![t] = IF seen THEN 0 ELSE (@ + 1) % MaxPolls]
    /\ UNCHANGED <<registers, driveVars, access, exact, disturbed>>

\* One turn of ata_wait_ready or ata_wait_drq; after the last one the access is
\* given up, whatever the drive does later.
Poll(t, seen, next) ==
    /\ \/ seen /\ Goto(t, next) /\ UNCHANGED <<access, disturbed>>
       \/ ~seen /\ polls[t] + 1 < MaxPolls /\ UNCHANGED <<pc, access, disturbed>>
       \/ /\ ~seen /\ polls[t] + 1 = MaxPolls /\ Return(t)
          /\ disturbed' = (disturbed \/ pc[t] \in InAccess)
    /\ polls' = [polls EXCEPT ![t] = IF seen THEN 0 ELSE (@ + 1) % MaxPolls]
    /\ UNCHANGED <<registers, driveVars, exact>>

Ready == drive \notin {"busy", "commit"}

\* The first ata_wait_ready, before anything is written.
WaitFirst(t) == pc[t] = "first" /\ Poll(t, Ready, "count")

\* A register takes what is written, unless the drive is occupied and does not care.
Stored(reg, value) == IF Occupied THEN {reg, value} ELSE {value}

\* Drive and head, sector count.
WriteCount(t) ==
    /\ pc[t] = "count"
    /\ count' \in Stored(count, access[t].n)
    /\ Goto(t, "low") /\ Touches(t)
    /\ UNCHANGED <<low, mid, driveVars, access, polls, exact>>

WriteLow(t) ==
    /\ pc[t] = "low"
    /\ low' \in Stored(low, Low(access[t].lba))
    /\ Goto(t, "mid") /\ Touches(t)
    /\ UNCHANGED <<mid, count, driveVars, access, polls, exact>>

\* LBA_MID, LBA_HIGH.
WriteMid(t) ==
    /\ pc[t] = "mid"
    /\ mid' \in Stored(mid, Mid(access[t].lba))
    /\ Goto(t, "command") /\ Touches(t)
    /\ UNCHANGED <<low, count, driveVars, access, polls, exact>>

\* The command starts at what the registers hold now.
WriteCommand(t) ==
    /\ pc[t] = "command"
    /\ \/ /\ drive' = "busy" /\ command' = access[t].op
          /\ target' = low + Radix * mid /\ left' = count
       \/ Occupied /\ UNCHANGED <<drive, command, target, left>>
    /\ Touches(t)
    /\ asked' = IF disturbed' THEN NotAsked ELSE [lba |-> access[t].lba, n |-> access[t].n]
    /\ Goto(t, "ready")
    /\ UNCHANGED <<registers, moved, access, polls, exact>>

WaitReady(t) == pc[t] = "ready" /\ Poll(t, Ready, "drq")

\* ata_wait_drq gives up at once on an error.
WaitDrq(t) ==
    /\ pc[t] = "drq"
    /\ \/ drive # "err" /\ Poll(t, drive = "drq", "words")
       \/ /\ drive = "err" /\ Return(t) /\ polls' = [polls EXCEPT ![t] = 0]
          /\ UNCHANGED <<registers, driveVars, exact, disturbed>>

\* The loops over words and sectors: the next word, the next sector, or the end.
NextWord(t) ==
    LET a == access[t]
    IN \/ /\ a.word + 1 < Words
          /\ access' = [access EXCEPT ![t].word = @ + 1]
          /\ UNCHANGED pc
       \/ /\ a.word + 1 = Words /\ a.done + 1 < a.n
          /\ access' = [access EXCEPT ![t].word = 0, ![t].done = @ + 1]
          /\ Goto(t, "ready")
       \/ a.word + 1 = Words /\ a.done + 1 = a.n /\ Return(t)

\* inw(ATA_DATA).  Without data the port returns anything.
ReadWord(t) ==
    /\ pc[t] = "words" /\ access[t].op = "read"
    /\ Touches(t)
    /\ LET data == drive = "drq" /\ command = "read"
           a == access[t]
       IN /\ exact' = [exact EXCEPT ![t] =
                 disturbed' \/ (@ /\ data /\ target = a.lba + a.done /\ moved = a.word)]
          /\ \/ data /\ moved + 1 < Words /\ moved' = moved + 1 /\ UNCHANGED <<drive, target, left>>
             \/ data /\ moved + 1 = Words /\ moved' = 0 /\ SectorDone
             \/ ~data /\ UNCHANGED <<drive, target, left, moved>>
    /\ NextWord(t)
    /\ UNCHANGED <<registers, command, asked, polls>>

\* outw(ATA_DATA).  Without a write in progress the word goes nowhere.
WriteWord(t) ==
    /\ pc[t] = "words" /\ access[t].op = "write"
    /\ IF drive = "drq" /\ command = "write"
       THEN /\ moved' = (moved + 1) % Words
            /\ drive' = IF moved + 1 < Words THEN "drq" ELSE "commit"
       ELSE UNCHANGED <<moved, drive>>
    /\ NextWord(t) /\ Touches(t)
    /\ UNCHANGED <<registers, command, target, left, asked, polls, exact>>

Step(t) ==
    \/ WaitFirst(t) \/ WriteCount(t) \/ WriteLow(t) \/ WriteMid(t) \/ WriteCommand(t)
    \/ WaitReady(t) \/ WaitDrq(t) \/ ReadWord(t) \/ WriteWord(t)

Next == Drive \/ \E t \in Tasks : Begin(t) \/ Step(t)

Spec == Init /\ [][Next]_vars

\* A task in an access is scheduled again and again.  Nothing is asked of the
\* drive.  This is weak fairness of Step(t), with what enables it, and what only
\* it does, spelled out: Step(t) itself is long to evaluate.
Moves(t) == pc'[t] # pc[t] \/ polls'[t] # polls[t] \/ access'[t] # access[t]
FairSpec == Spec /\ \A t \in Tasks : []<>(pc[t] = "idle") \/ []<><<Moves(t)>>_vars

----------------------------------------------------------------------------
(* Properties                                                              *)

TypeOK ==
    /\ low \in 0..(Radix - 1) /\ mid \in 0..(Radix - 1) /\ count \in Nat
    /\ drive \in {"idle", "busy", "drq", "commit", "err"} /\ command \in {"read", "write"}
    /\ target \in Nat /\ left \in Nat /\ moved \in 0..(Words - 1)
    /\ asked \in [lba : Nat, n : Nat]
    /\ pc \in [Tasks -> InAccess \cup {"idle", "first"}]
    /\ access \in [Tasks -> [op : {"none", "read", "write"}, lba : Sectors, n : Nat, done : Nat,
                             word : 0..(Words - 1)]]
    /\ polls \in [Tasks -> 0..(MaxPolls - 1)]
    /\ exact \in [Tasks -> BOOLEAN] /\ disturbed \in BOOLEAN

\* However two accesses mix their writes to the registers, and whatever the
\* drive makes of them, no sector of the boot loader or the kernel is written:
\* the partition starts at a multiple of Radix, so that any LBA_LOW with any
\* LBA_MID of an access stays behind it (ata.c:31-37 moves it there).
BootAreaUntouched == drive = "commit" => target >= Offset

\* An access that no other falls into, and before which none was given up by a
\* timeout, reads each word of the sectors it asked for ...
ReadsAreExact == \A t \in Tasks : ~disturbed => exact[t]

\* ... and what the drive writes is one after the other of the sectors that were
\* asked for, no matter that the caller returns while the last one is written.
WritesAreExact == drive = "commit" /\ ~disturbed => target = asked.lba + asked.n - left

\* Both: an access that nothing disturbs moves what it was asked to move.
AccessesAreExact == TypeOK /\ ReadsAreExact /\ WritesAreExact

\* A drive that is missing or never becomes ready does not hang the caller
\* (ata.c:63-66).
AccessesEnd == \A t \in Tasks : pc[t] # "idle" ~> pc[t] = "idle"
=============================================================================
