------------------------------- MODULE Fat16 -------------------------------
(***************************************************************************)
(* The FAT16 file system (kernel/fat16.c) as its callers use it: shells    *)
(* and editors in several windows, each a task of its own, write, delete   *)
(* and read files of the root directory.  fat16.c holds no lock and its    *)
(* callers run with interrupts on, so tasks interleave between any two     *)
(* disk accesses.  One access (ata_read_sectors, ata_write_sectors) is one *)
(* step; it may fail, and a task may be killed between accesses by closing *)
(* its window.                                                             *)
(*                                                                         *)
(* The file allocation table (twice) fits one sector, and so does the root *)
(* directory.  A cluster's contents are whose data it is: <<v, i>> for the *)
(* i-th cluster of a file saved as version v.                              *)
(***************************************************************************)
EXTENDS Integers, Sequences, FiniteSets, FiniteSetsExt

CONSTANTS
    Tasks,      \* the tasks that use files
    Names,      \* 8.3 file names
    NClusters,  \* data clusters: 2 .. NClusters + 1
    ChainEnd,   \* from this number on an entry ends a chain: 0xFFF8 in the code
    NSlots,     \* entries of the root directory
    MaxSize,    \* bound: clusters in a file
    EditorLimit, \* clusters that the editor's buffer holds
    MaxOps,     \* bound: operations started
    MaxErrors,  \* bound: disk accesses that fail
    FailingDrive, \* may any number of accesses fail, from the start
    MaxKills,   \* bound: tasks killed
    DirtyDisk,  \* may the disk image hold anything, which fat16_mount does not check
    None

ASSUME Fat16Assumption ==
    /\ NClusters \in Nat \ {0} /\ ChainEnd \in Nat /\ NClusters + 1 < ChainEnd /\ ChainEnd <= 65528
    /\ NSlots \in Nat \ {0} /\ MaxSize \in Nat /\ EditorLimit \in 0..MaxSize
    /\ MaxOps \in Nat /\ MaxErrors \in Nat /\ MaxKills \in Nat /\ None \notin Names
    /\ DirtyDisk \in BOOLEAN /\ FailingDrive \in BOOLEAN /\ (FailingDrive => MaxErrors > 0)

\* The numbers that chains are followed through, also where the volume has no
\* such cluster, and the clusters it has.
Clusters == 2..(ChainEnd - 1)
DataClusters == 2..(NClusters + 1)
FAT_ENTRY_FREE == 0
FAT_ENTRY_END == 65535
\* 1 and the values from ChainEnd on are neither free nor followed, like the end.
Entries == {FAT_ENTRY_FREE, FAT_ENTRY_END} \cup Clusters
Slots == 1..NSlots

\* Directory entries.  A first byte of 0x00 ends the directory, 0xE5 marks a
\* deleted file; size is in clusters here.
NeverUsed == [name |-> None, first |-> 0, size |-> 0]
Deleted == [name |-> None, first |-> 0, size |-> 1]
File(n, c, s) == [name |-> n, first |-> c, size |-> s]

VARIABLES
    fat,     \* the two on-disk copies of the table
    root,    \* the root directory
    disk,    \* contents of the data clusters
    pc,      \* per task: the disk access it is about to make, or "idle"
    op,      \* its operation: kind, name, version and size (of the buffer, for a read)
    loc,     \* its local variables
    sector,  \* its sector_buf: a copy of a table or of the directory
    saved,   \* per name: the version and size the user was told is saved, and
             \* how many of its clusters the chain reaches
    ops, errors, kills,
    stale,   \* names whose entry was left with a chain that had been given up
    spoiled  \* 1 once the chain of such an entry, in use again, was freed for it

vars == <<fat, root, disk, pc, op, loc, sector, saved, ops, errors, kills, stale, spoiled>>
diskVars == <<fat, root, disk>>
ghosts == <<saved, ops, errors, kills, stale, spoiled>>

NotSaved == [version |-> 0, size |-> 0, reach |-> 0]
NoOp == [kind |-> "none", name |-> None, version |-> 0, size |-> 0]
\* slot: directory slot; cluster, next: position in a chain or in the table;
\* first, prev: the chain being built; i: clusters written or read;
\* copy: which table fat_write_entry is at; value: what it writes;
\* why: who called fat_write_entry; ret: where fat_free_chain returns to;
\* got: what a read has returned so far; old: the file's first cluster before;
\* reach: if a link was lost, the clusters before it.
NoLocals == [slot |-> 0, cluster |-> 0, next |-> 0, first |-> 0, prev |-> 0, i |-> 0,
             copy |-> 1, value |-> <<0, 0>>, why |-> "none", ret |-> "idle", got |-> <<>>, old |-> 0,
             reach |-> 0]

\* An empty volume, or any table with any file in the first slot.
Volumes ==
    [table : IF DirtyDisk THEN [Clusters -> Entries] ELSE {[c \in Clusters |-> FAT_ENTRY_FREE]},
     entry : IF DirtyDisk THEN {File(n, c, s) : n \in Names, c \in {0} \cup Clusters, s \in 0..MaxSize}
             ELSE {NeverUsed}]

Init ==
    /\ \E v \in Volumes : /\ fat = [k \in 1..2 |-> v.table]
                          /\ root = [s \in Slots |-> IF s = 1 THEN v.entry ELSE NeverUsed]
    /\ disk = [c \in Clusters |-> <<0, 0>>]
    /\ pc = [t \in Tasks |-> "idle"]
    /\ op = [t \in Tasks |-> NoOp]
    /\ loc = [t \in Tasks |-> NoLocals]
    /\ sector = [t \in Tasks |-> <<>>]
    /\ saved = [n \in Names |-> NotSaved]
    /\ ops = 0 /\ kills = 0 /\ stale = {}
    /\ errors = IF FailingDrive THEN MaxErrors ELSE 0
    /\ spoiled = IF DirtyDisk THEN 1 ELSE 0

\* A step of task t that leaves the disk alone: it goes to label l with locals v.
Goto(t, l, v) == pc' = [pc EXCEPT ![t] = l] /\ loc' = [loc EXCEPT ![t] = v]

\* The operation returns, and its locals are gone.
Return(t) ==
    /\ pc' = [pc EXCEPT ![t] = "idle"]
    /\ loc' = [loc EXCEPT ![t] = NoLocals]
    /\ op' = [op EXCEPT ![t] = NoOp]
    /\ sector' = [sector EXCEPT ![t] = <<>>]

InChain(c) == c \in Clusters

----------------------------------------------------------------------------
(* find_file and find_dirent_slot                                          *)

Ended(d, s) == \E x \in 1..s : d[x] = NeverUsed
Matches(d, n) == {s \in Slots : ~Ended(d, s) /\ d[s].name = n}
FreeSlots(d) == {s \in Slots : d[s] \in {NeverUsed, Deleted} /\ ~Ended(d, s - 1)}

\* Where a write of n goes: its own entry, else the first free slot, else 0.
SlotFor(d, n) == IF Matches(d, n) # {} THEN Min(Matches(d, n))
                 ELSE IF FreeSlots(d) # {} THEN Min(FreeSlots(d))
                 ELSE 0

Start(t, kind, n, size) ==
    /\ pc[t] = "idle" /\ ops < MaxOps
    /\ ops' = ops + 1
    /\ op' = [op EXCEPT ![t] = [kind |-> kind, name |-> n, version |-> ops', size |-> size]]
    /\ Goto(t, "scan", NoLocals)
    /\ UNCHANGED <<diskVars, sector, saved, errors, kills, stale, spoiled>>

\* What follows the freeing of the old chain: allocate, or write the directory.
AfterFree(t) == IF op[t].kind = "write" /\ op[t].size > 0 THEN "allocRead" ELSE "dirRead"

\* The directory sector is read.  A missing file ends a read or a delete, a
\* full directory ends a write.
Scan(t) ==
    /\ pc[t] = "scan"
    /\ LET n == op[t].name
           s == SlotFor(root, n)
           existed == Matches(root, n) # {}
           old == IF existed THEN root[s].first ELSE 0
           found == [NoLocals EXCEPT !.slot = s, !.old = old, !.ret = AfterFree(t)]
       IN \/ /\ ~existed /\ (op[t].kind # "write" \/ s = 0)
             /\ Return(t) /\ UNCHANGED spoiled
          \/ /\ op[t].kind = "read" /\ existed
             /\ Goto(t, IF InChain(old) /\ root[s].size > 0 THEN "readData" ELSE "readDone",
                     [found EXCEPT !.cluster = old, !.i = root[s].size])
             /\ UNCHANGED <<op, sector, spoiled>>
          \/ /\ (op[t].kind = "write" /\ s # 0) \/ (op[t].kind = "delete" /\ existed)
             /\ IF InChain(old) THEN Goto(t, "freeRead", [found EXCEPT !.cluster = old])
                ELSE Goto(t, AfterFree(t), [found EXCEPT !.cluster = 2])
             /\ spoiled' = IF n \in stale /\ InChain(old) /\ fat[1][old] # FAT_ENTRY_FREE THEN 1
                           ELSE spoiled
             /\ UNCHANGED <<op, sector>>
    /\ UNCHANGED <<diskVars, saved, ops, errors, kills, stale>>

----------------------------------------------------------------------------
(* fat_write_entry: each copy of the table is read, changed and written    *)

\* The call fat_write_entry(c, v) of task t, with its other locals in v0.
WriteEntry(t, c, v, why, v0) ==
    Goto(t, "entryRead", [v0 EXCEPT !.copy = 1, !.value = <<c, v>>, !.why = why])

EntryRead(t) ==
    /\ pc[t] = "entryRead"
    /\ sector' = [sector EXCEPT ![t] = fat[loc[t].copy]]
    /\ Goto(t, "entryWrite", loc[t])
    /\ UNCHANGED <<diskVars, op, ghosts>>

\* Where the caller goes on once the entry is written in both copies.
FreeNext(t, v) == IF InChain(v.next) THEN Goto(t, "freeRead", [v EXCEPT !.cluster = v.next])
                  ELSE Goto(t, v.ret, [v EXCEPT !.cluster = 2])
\* Mutant of Claimed: the previous cluster is not linked to this one.
ClaimedUnlinked(t, v) == Goto(t, "data", [v EXCEPT !.first = IF @ = 0 THEN v.cluster ELSE @])

Claimed(t, v) ==
    IF v.first = 0 THEN Goto(t, "data", [v EXCEPT !.first = v.cluster])
    ELSE WriteEntry(t, v.prev, v.cluster, "link", v)

Continue(t, v) ==
    \/ v.why = "free" /\ FreeNext(t, v)
    \/ v.why = "claim" /\ Claimed(t, v)
    \/ v.why = "link" /\ Goto(t, "data", v)
    \/ v.why = "end" /\ Goto(t, "dirRead", v)

EntryWrite(t) ==
    /\ pc[t] = "entryWrite"
    /\ LET v == loc[t]
       IN /\ fat' = [fat EXCEPT ![v.copy] = [sector[t] EXCEPT ![v.value[1]] = v.value[2]]]
          /\ \/ v.copy = 1 /\ Goto(t, "entryRead", [v EXCEPT !.copy = 2])
             \/ v.copy = 2 /\ Continue(t, v)
    /\ UNCHANGED <<root, disk, op, sector, ghosts>>

----------------------------------------------------------------------------
(* fat_free_chain, fat_alloc_cluster, fat16_write_file                     *)

\* Mutant of FreeRead: the chain is walked before it is freed.
FreeReadAhead(t) ==
    /\ pc[t] = "freeRead"
    /\ FreeNext(t, [loc[t] EXCEPT !.next = fat[1][loc[t].cluster]])
    /\ UNCHANGED <<diskVars, op, sector, ghosts>>

FreeRead(t) ==
    /\ pc[t] = "freeRead"
    /\ WriteEntry(t, loc[t].cluster, FAT_ENTRY_FREE, "free",
                  [loc[t] EXCEPT !.next = fat[1][loc[t].cluster]])
    /\ UNCHANGED <<diskVars, op, sector, ghosts>>

\* The operation ends early: the old chain of its file is (or is being) freed,
\* and the directory entry still points at it.
Abandon(t) == stale' = IF op[t].kind # "read" /\ loc[t].old # 0 THEN stale \cup {op[t].name}
                       ELSE stale

\* Mutant of GiveUp: what was allocated is not freed.
GiveUpAtOnce(t, v) == Return(t) /\ Abandon(t)

\* fat16_write_file gives up: what it has allocated is freed.
GiveUp(t, v) ==
    /\ \/ v.first = 0 /\ Return(t)
       \/ /\ v.first # 0
          /\ Goto(t, "freeRead", [v EXCEPT !.cluster = v.first, !.ret = "fail"])
          /\ UNCHANGED <<op, sector>>
    /\ Abandon(t)

\* One entry of the scan for a free cluster, read from the first copy.
AllocRead(t) ==
    /\ pc[t] = "allocRead"
    /\ LET v == loc[t]
       IN \/ /\ v.cluster \in DataClusters /\ fat[1][v.cluster] # FAT_ENTRY_FREE
             /\ Goto(t, "allocRead", [v EXCEPT !.cluster = @ + 1])
             /\ UNCHANGED <<op, sector, stale>>
          \/ /\ v.cluster \in DataClusters /\ fat[1][v.cluster] = FAT_ENTRY_FREE
             /\ WriteEntry(t, v.cluster, FAT_ENTRY_END, "claim", v)
             /\ UNCHANGED <<op, sector, stale>>
          \/ /\ v.cluster \notin DataClusters
             /\ GiveUp(t, v)
    /\ UNCHANGED <<diskVars, saved, ops, errors, kills, spoiled>>

\* The cluster's data; then the next cluster, or the end of the chain.
Data(t) ==
    /\ pc[t] = "data"
    /\ LET v == [loc[t] EXCEPT !.prev = loc[t].cluster, !.i = @ + 1]
       IN /\ disk' = [disk EXCEPT ![v.prev] = <<op[t].version, v.i>>]
          /\ IF v.i < op[t].size THEN Goto(t, "allocRead", [v EXCEPT !.cluster = 2])
             ELSE WriteEntry(t, v.prev, FAT_ENTRY_END, "end", v)
    /\ UNCHANGED <<fat, root, op, sector, ghosts>>

\* The directory sector is read, changed and written.
DirRead(t) ==
    /\ pc[t] = "dirRead"
    /\ sector' = [sector EXCEPT ![t] = root]
    /\ Goto(t, "dirWrite", loc[t])
    /\ UNCHANGED <<diskVars, op, ghosts>>

NewEntry(t) == IF op[t].kind = "delete" THEN Deleted
               ELSE File(op[t].name, loc[t].first, op[t].size)

\* How many of the clusters written the chain leads to.
Reach(v) == IF v.reach = 0 THEN v.i ELSE v.reach

DirWrite(t) ==
    /\ pc[t] = "dirWrite"
    /\ root' = [sector[t] EXCEPT ![loc[t].slot] = NewEntry(t)]
    /\ saved' = [saved EXCEPT ![op[t].name] =
                    IF op[t].kind = "delete" THEN NotSaved
                    ELSE [version |-> op[t].version, size |-> op[t].size,
                          reach |-> Reach(loc[t])]]
    /\ stale' = stale \ {op[t].name}
    /\ Return(t)
    /\ UNCHANGED <<fat, disk, ops, errors, kills, spoiled>>

\* The cleanup after a full disk is done.
Fail(t) ==
    /\ pc[t] = "fail"
    /\ Return(t)
    /\ UNCHANGED <<diskVars, ghosts>>

----------------------------------------------------------------------------
(* fat16_read_file: loc.i is the size that find_file returned, op.size the *)
(* clusters that fit in the buffer                                         *)

\* Once the buffer is full, clusters are read and nothing of them is copied.
ReadData(t) ==
    /\ pc[t] = "readData"
    /\ LET v == [loc[t] EXCEPT !.got = IF Len(@) < op[t].size THEN Append(@, disk[loc[t].cluster])
                                      ELSE @]
       IN Goto(t, IF sector[t] = <<>> THEN "readFat" ELSE "readNext", v)
    /\ UNCHANGED <<diskVars, op, sector, ghosts>>

\* The table's sector is read once and kept for the rest of the file.
ReadFat(t) ==
    /\ pc[t] = "readFat"
    /\ sector' = [sector EXCEPT ![t] = fat[1]]
    /\ Goto(t, "readNext", loc[t])
    /\ UNCHANGED <<diskVars, op, ghosts>>

\* Mutant of ReadNext: one cluster too few.
ReadNextShort(t) ==
    /\ pc[t] = "readNext"
    /\ LET c == sector[t][loc[t].cluster]
       IN Goto(t, IF InChain(c) /\ Len(loc[t].got) + 1 < loc[t].i THEN "readData" ELSE "readDone",
               [loc[t] EXCEPT !.cluster = c])
    /\ UNCHANGED <<diskVars, op, sector, ghosts>>

ReadNext(t) ==
    /\ pc[t] = "readNext"
    /\ LET next == sector[t][loc[t].cluster]
       IN Goto(t, IF InChain(next) /\ Len(loc[t].got) < loc[t].i THEN "readData" ELSE "readDone",
               [loc[t] EXCEPT !.cluster = next])
    /\ UNCHANGED <<diskVars, op, sector, ghosts>>

ReadDone(t) ==
    /\ pc[t] = "readDone"
    /\ Return(t)
    /\ UNCHANGED <<diskVars, ghosts>>

----------------------------------------------------------------------------
(* A failed access, and a task that dies between two accesses              *)

\* t is in an ATA command, whose polling loops are bounded: the drive may report
\* an error or never become ready.
InAccess(t) ==
    /\ pc[t] \notin {"idle", "fail", "readNext", "readDone"}
    /\ pc[t] = "allocRead" => loc[t].cluster \in DataClusters

\* A link that is not written in the first table: the chain ends before it.
LostLink(v) == IF v.why = "link" /\ v.copy = 1 /\ v.reach = 0 THEN [v EXCEPT !.reach = v.i] ELSE v

\* What each caller makes of an access that returns 0: fat_free_chain stops
\* without telling, ignores a failed fat_write_entry and goes on; so does the
\* linking of clusters.  A failed claim looks like a full disk.  Everything
\* else returns 0 at once, without cleaning up.
AtaError(t) ==
    /\ (errors < MaxErrors \/ FailingDrive) /\ InAccess(t)
    /\ errors' = IF errors < MaxErrors THEN errors + 1 ELSE errors
    /\ LET v == loc[t]
           entry == pc[t] \in {"entryRead", "entryWrite"}
       IN \/ /\ pc[t] = "freeRead"
             /\ Goto(t, v.ret, [v EXCEPT !.cluster = 2])
             /\ UNCHANGED <<op, sector, stale>>
          \/ /\ entry /\ v.why # "claim"
             /\ Continue(t, LostLink(v))
             /\ UNCHANGED <<op, sector, stale>>
          \/ /\ (entry /\ v.why = "claim") \/ pc[t] = "allocRead"
             /\ GiveUp(t, v)
          \/ /\ pc[t] \in {"scan", "data", "dirRead", "dirWrite", "readData", "readFat"}
             /\ Return(t) /\ Abandon(t)
    /\ UNCHANGED <<diskVars, saved, ops, kills, spoiled>>

\* task_force_terminate: the desktop closes the task's window.
Kill(t) ==
    /\ kills < MaxKills /\ pc[t] # "idle"
    /\ kills' = kills + 1
    /\ Abandon(t) /\ Return(t)
    /\ UNCHANGED <<diskVars, saved, ops, errors, spoiled>>

----------------------------------------------------------------------------
Step(t) ==
    \/ Scan(t) \/ EntryRead(t) \/ EntryWrite(t) \/ FreeRead(t) \/ AllocRead(t) \/ Data(t)
    \/ DirRead(t) \/ DirWrite(t) \/ Fail(t)
    \/ ReadData(t) \/ ReadFat(t) \/ ReadNext(t) \/ ReadDone(t)

\* .save in the editor, with whatever has been typed.  Sizes beyond EditorLimit
\* stand for the files that the disk came with.
EditorSave(t) == \E n \in Names, size \in 0..MaxSize : Start(t, "write", n, size)

\* The cat and rm commands; run, exec and kronk read like cat, into a buffer as
\* large as the file.
CatOrRemove(t) == \E n \in Names : Start(t, "read", n, MaxSize) \/ Start(t, "delete", n, 0)

\* The editor opens a file, into the buffer it has.
EditorLoad(t) == \E n \in Names : Start(t, "read", n, EditorLimit)

Next == \E t \in Tasks :
    EditorSave(t) \/ EditorLoad(t) \/ CatOrRemove(t) \/ Step(t) \/ AtaError(t) \/ Kill(t)

Spec == Init /\ [][Next]_vars

\* The scheduler runs every task again and again.
FairSpec == Spec /\ \A t \in Tasks : WF_vars(Step(t))

----------------------------------------------------------------------------
(* Properties                                                              *)

Kinds == {"none", "write", "delete", "read"}
Labels == {"idle", "scan", "freeRead", "entryRead", "entryWrite", "allocRead", "data",
           "dirRead", "dirWrite", "fail", "readData", "readFat", "readNext", "readDone"}
Dirents == [name : Names \cup {None}, first : {0} \cup Clusters, size : 0..(MaxSize + 1)]

TypeOK ==
    /\ fat \in [1..2 -> [Clusters -> Entries]]
    /\ root \in [Slots -> Dirents]
    /\ disk \in [Clusters -> (0..MaxOps) \X (0..MaxSize)]
    /\ pc \in [Tasks -> Labels]
    /\ \A t \in Tasks :
          /\ op[t].kind \in Kinds
          /\ pc[t] \in {"freeRead", "data", "readData", "readNext"} => loc[t].cluster \in Clusters
          /\ pc[t] \in {"dirRead", "dirWrite"} => loc[t].slot \in Slots
          /\ pc[t] \in {"entryRead", "entryWrite"} => loc[t].value[1] \in Clusters
          /\ pc[t] = "data" => loc[t].cluster \in DataClusters
    /\ stale \subseteq Names /\ spoiled \in {0, 1}

\* The n clusters that following the first table from cluster c gives.
Walk(c, n) ==
    LET w[i \in 1..n] == IF i = 1 THEN c ELSE IF InChain(w[i - 1]) THEN fat[1][w[i - 1]] ELSE 0
    IN w

\* The directory entry of n leads to the clusters of version s.version, in order:
\* all of them, or those before a lost link.  There the chain ends.
Holds(n, s) ==
    \E x \in Matches(root, n) :
        /\ root[x].size = s.size
        /\ LET w == Walk(root[x].first, s.reach)
           IN \A i \in 1..s.reach : /\ InChain(w[i]) /\ disk[w[i]] = <<s.version, i>>
                                    /\ i = s.reach => fat[1][w[i]] = FAT_ENTRY_END

Busy(n) == \E t \in Tasks : op[t].name = n /\ op[t].kind \in {"write", "delete"}

\* A file that nobody is writing or deleting holds what was last saved under its
\* name, through allocations, frees, failed accesses and kills, also of
\* operations on other files that leave their own file without its chain; a
\* deleted file is gone.  What a link that was not written cuts off is lost,
\* although fat16_write_file reports success.  Once an operation has left an
\* entry with a chain given up, a later one on the same name may free clusters
\* that are another file's: that ends the claim.
SavedFilesIntact ==
    spoiled = 0 =>
        \A n \in Names \ stale :
            ~Busy(n) => IF saved[n].version = 0 THEN Matches(root, n) = {}
                        ELSE Holds(n, saved[n])

\* fat16_read_file returns what the chain of the file reaches and the caller's
\* buffer takes, in order, however the file was fragmented, although it keeps
\* its copy of the table for the whole read.
ReadReturnsSaved ==
    \A t \in Tasks :
        LET s == saved[op[t].name]
        IN spoiled = 0 /\ pc[t] = "readDone" /\ op[t].name \notin stale =>
              loc[t].got = [i \in 1..Min({s.reach, op[t].size}) |-> <<s.version, i>>]

AtRest == \A t \in Tasks : pc[t] = "idle"
Owned == UNION {{Walk(root[x].first, root[x].size)[i] : i \in 1..root[x].size} :
                    x \in {y \in Slots : root[y].first # 0 /\ root[y].name \notin stale}}

\* Without failed accesses and kills, a finished operation leaks nothing, nor
\* does one that a full disk has cut short: the clusters in use are those of
\* the files.
NoClusterLeaks ==
    AtRest /\ spoiled = 0 /\ errors = 0 /\ kills = 0 =>
        {c \in Clusters : fat[1][c] # FAT_ENTRY_FREE} = Owned

\* fat16.c:253-257: fat_write_entry keeps the second copy "in sync".
CopiesAgree == AtRest /\ errors = 0 /\ kills = 0 => fat[1] = fat[2]

\* The tables are sound between operations, whatever was written, freed and
\* rewritten before, and whatever a full disk or directory has cut short.
TablesAreSound == TypeOK /\ NoClusterLeaks /\ CopiesAgree

\* The table leads from c round in a circle.
Circles(c) == LET n == Cardinality(Clusters) + 1
                  w == Walk(c, n)
              IN \A i \in 1..n : InChain(w[i])

\* A file longer than the buffer is read on after the buffer is full, and no
\* longer counts as read: only the end of the chain ends the read.
EndlessRead(t) ==
    op[t].kind = "read" /\ pc[t] = "readData" /\ op[t].size < loc[t].i /\ Circles(loc[t].cluster)

\* Every operation comes to an end, whatever the table and the directory entry
\* hold, but for two cases: the editor opens a file that is longer than its
\* buffer and whose chain runs in a circle; or accesses fail again and again,
\* so that fat_free_chain, which ignores that an entry is not written, may
\* follow a circle for ever.
OperationsEnd ==
    \A t \in Tasks : \/ pc[t] # "idle" ~> (pc[t] = "idle" \/ EndlessRead(t))
                     \/ []<><<AtaError(t)>>_vars
=============================================================================
