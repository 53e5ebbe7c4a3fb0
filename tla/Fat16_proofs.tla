---------------------------- MODULE Fat16_proofs ----------------------------
(***************************************************************************)
(* Theorems about the FAT16 file system, for every number of clusters,     *)
(* directory slots, file names, operations, failed accesses and kills.     *)
(* The theorems about files are about one task, the only one that uses     *)
(* them: fat16.c takes no lock, and two tasks in it at once do corrupt     *)
(* each other's files.                                                     *)
(***************************************************************************)
EXTENDS Fat16, FiniteSetTheorems, WellFoundedInduction, TLAPS

----------------------------------------------------------------------------
(* Types, for any number of tasks on any disk                              *)

Starts == {0} \cup Clusters
Whys == {"none", "free", "claim", "link", "end"}
Tags == Nat \X Nat

Operations == [kind : Kinds, name : Names \cup {None}, version : 0..MaxOps, size : 0..MaxSize]

Locals ==
    [slot : {0} \cup Slots, cluster : Nat, next : Entries, first : Starts, prev : Starts,
     i : 0..(MaxSize + 1), copy : {1, 2}, value : Starts \X Entries, why : Whys, ret : Labels,
     got : Seq(Tags), old : Starts, reach : 0..(MaxSize + 1)]

InEntry(t) == pc[t] \in {"entryRead", "entryWrite"}
Changing(t) == op[t].kind \in {"write", "delete"}

\* What the sector_buf of t holds where it is used.
SectorTyped(t) ==
    /\ pc[t] = "entryWrite" => sector[t] \in [Clusters -> Entries]
    /\ pc[t] = "dirWrite" => sector[t] \in [Slots -> Dirents]
    /\ pc[t] = "readNext" => sector[t] \in [Clusters -> Entries]
    /\ pc[t] = "readData" => sector[t] \in {<<>>} \cup [Clusters -> Entries]
    /\ pc[t] \in {"idle", "scan", "readFat"} => sector[t] = <<>>

\* What fat_write_entry was called with, and for whom.
CallTyped(t) ==
    LET v == loc[t] IN
    InEntry(t) =>
        /\ v.value[1] \in Clusters
        /\ v.why = "free" => v.cluster \in Clusters /\ v.value = <<v.cluster, FAT_ENTRY_FREE>>
        /\ v.why = "claim" => v.cluster \in DataClusters /\ v.value = <<v.cluster, FAT_ENTRY_END>>
        /\ v.why = "link" => v.cluster \in DataClusters /\ v.value = <<v.prev, v.cluster>> /\ v.first # 0
        /\ v.why = "end" => v.value = <<v.prev, FAT_ENTRY_END>>
        /\ v.why # "none"

\* Where a task can be, given what it does.
PlaceTyped(t) ==
    LET v == loc[t]
        freeing == pc[t] = "freeRead" \/ (InEntry(t) /\ v.why = "free")
    IN /\ pc[t] = "idle" => op[t] = NoOp /\ v = NoLocals
       /\ pc[t] # "idle" => op[t].name \in Names /\ op[t].kind # "none"
       /\ pc[t] = "scan" => v = NoLocals
       /\ pc[t] \in {"readData", "readFat", "readNext", "readDone"} => op[t].kind = "read"
       /\ pc[t] \in {"freeRead", "entryRead", "entryWrite", "allocRead", "data", "dirRead",
                     "dirWrite", "fail"} => Changing(t) /\ v.slot \in Slots
       /\ pc[t] \in {"freeRead", "data", "readData", "readFat", "readNext"} => v.cluster \in Clusters
       /\ pc[t] = "data" => v.cluster \in DataClusters
       /\ pc[t] \in {"allocRead", "data"} => v.i < op[t].size
       /\ InEntry(t) /\ v.why \in {"claim", "link"} => v.i < op[t].size
       /\ freeing => v.ret \in {AfterFree(t), "fail"}
       /\ freeing /\ v.ret # "fail" => v.i = 0 /\ v.first = 0
       /\ pc[t] \in {"allocRead", "data"} \/ (InEntry(t) /\ ~freeing) =>
             (v.first # 0 /\ pc[t] # "data" => v.prev \in Clusters)
       /\ op[t].kind = "delete" => op[t].size = 0

TaskTyped(t) ==
    op[t] \in Operations /\ loc[t] \in Locals /\ SectorTyped(t) /\ CallTyped(t) /\ PlaceTyped(t)

DiskTyped ==
    /\ fat \in [1..2 -> [Clusters -> Entries]]
    /\ root \in [Slots -> Dirents]
    /\ disk \in [Clusters -> (0..MaxOps) \X (0..MaxSize)]

GhostsTyped ==
    /\ saved \in [Names -> [version : 0..MaxOps, size : 0..MaxSize, reach : 0..(MaxSize + 1)]]
    /\ ops \in 0..MaxOps /\ errors \in Nat /\ kills \in Nat
    /\ stale \subseteq Names /\ spoiled \in {0, 1}

PerTask ==
    pc \in [Tasks -> Labels] /\ DOMAIN op = Tasks /\ DOMAIN loc = Tasks /\ DOMAIN sector = Tasks

TypeInv == DiskTyped /\ GhostsTyped /\ PerTask /\ \A t \in Tasks : TaskTyped(t)

----------------------------------------------------------------------------
(* The invariant of one task                                               *)

\* In table f and with contents d, the clusters of version v from the lo-th to
\* the s-th lead each to the next one, and the s-th leads to e.
Rest(f, d, v, lo, s, e) ==
    \A c \in Clusters : d[c][1] = v /\ d[c][2] >= lo /\ d[c][2] <= s =>
        /\ d[c][2] < s => f[c] \in Clusters /\ d[f[c]] = <<v, d[c][2] + 1>>
        /\ d[c][2] = s => f[c] = e

\* What a task holds in sector_buf is what it is about to replace.
SectorsFresh ==
    \A t \in Tasks :
        /\ pc[t] = "entryWrite" => sector[t] = fat[loc[t].copy]
        /\ pc[t] = "dirWrite" => sector[t] = root
        /\ pc[t] = "readNext" => sector[t] = fat[1]
        /\ pc[t] = "readData" => sector[t] \in {<<>>, fat[1]}

\* Table f once the entry x, a cluster and its value, is written.
Rewritten(f, x) == [f EXCEPT ![x[1]] = x[2]]

\* The copies differ in the entry that is being written, if at all.
HalfWritten(t) == InEntry(t) /\ loc[t].copy = 2
CopiesInv ==
    errors = 0 /\ kills = 0 =>
        \/ \E t \in Tasks : HalfWritten(t) /\ fat[1] = Rewritten(fat[2], loc[t].value)
        \/ (\A t \in Tasks : ~ HalfWritten(t)) /\ fat[1] = fat[2]

\* Versions are given once, and every cluster of a version is written once.
VersionsFresh ==
    /\ \A c \in Clusters : disk[c][1] <= ops /\ (disk[c][1] # 0 => disk[c][2] >= 1)
    /\ \A c, d \in Clusters : disk[c] = disk[d] /\ disk[c][1] # 0 => c = d
    /\ \A n \in Names : saved[n].version <= ops
    /\ \A n, m \in Names : saved[n].version = saved[m].version /\ saved[n].version # 0 => n = m
    /\ \A t \in Tasks : pc[t] # "idle" =>
          /\ op[t].version \in 1..ops
          /\ \A n \in Names : saved[n].version # op[t].version
          /\ Changing(t) =>
                \A c \in Clusters : disk[c][1] = op[t].version => disk[c][2] <= loc[t].i

\* The directory holds one entry for each saved file and nothing after its end.
DirectorySound ==
    /\ \A x, y \in Slots : root[x] = NeverUsed /\ x <= y => root[y] = NeverUsed
    /\ \A x, y \in Slots : root[x].name = root[y].name /\ root[x].name # None => x = y
    /\ \A x \in Slots : root[x].name = None => root[x] \in {NeverUsed, Deleted}
    /\ \A x \in Slots : root[x].name # None =>
          /\ saved[root[x].name].version # 0
          /\ root[x].size = saved[root[x].name].size
          /\ (root[x].first = 0) <=> (root[x].size = 0)
    /\ \A n \in Names : saved[n].version # 0 => \E x \in Slots : root[x].name = n

\* Where the directory entry of the operation is.
SlotFound(t) ==
    LET v == loc[t]
        n == op[t].name
    IN Changing(t) /\ pc[t] # "scan" =>
          \/ saved[n].version # 0 /\ root[v.slot].name = n /\ v.old = root[v.slot].first
          \/ saved[n].version = 0 /\ op[t].kind = "write" /\ v.slot \in FreeSlots(root) /\ v.old = 0

\* Once it is being freed, the old chain of a file is no longer kept; nor is it
\* after that operation has ended without writing the directory.
Suspended(n) == \E t \in Tasks : op[t].name = n /\ Changing(t) /\ loc[t].old # 0
Kept(n) == saved[n].version # 0 /\ n \notin stale /\ ~Suspended(n)

FilesSound ==
    \A n \in Names : Kept(n) =>
        /\ Rest(fat[1], disk, saved[n].version, 1, saved[n].reach, FAT_ENTRY_END)
        /\ \A c \in Clusters : disk[c][1] = saved[n].version => fat[1][c] # FAT_ENTRY_FREE
        /\ \A x \in Slots : root[x].name = n /\ root[x].size > 0 =>
              disk[root[x].first] = <<saved[n].version, 1>>

\* A link is lost between clusters that are written, if an access failed.
LinksSound(t) ==
    LET v == loc[t]
    IN Changing(t) =>
          /\ errors = 0 => v.reach = 0
          /\ v.reach # 0 => v.reach <= v.i /\ (pc[t] # "data" => v.reach < v.i)

\* What a chain reaches: all of the file unless an access failed.
ReachSound ==
    /\ \A n \in Names :
          LET s == saved[n]
          IN /\ s.reach <= s.size /\ (s.size > 0 => s.reach > 0) /\ (errors = 0 => s.reach = s.size)
             /\ \A c \in Clusters : disk[c][1] = s.version /\ s.version # 0 => disk[c][2] <= s.size
    /\ \A t \in Tasks : LinksSound(t)

\* The version of the chain that fat_free_chain is freeing, and what it reaches.
FreedVersion(t) == IF loc[t].ret = "fail" THEN op[t].version ELSE saved[op[t].name].version
FreedSize(t) == IF loc[t].ret = "fail" THEN Reach(loc[t]) ELSE saved[op[t].name].reach

\* The entry was left with a chain of which the first cluster is free now.
Emptied(t) ==
    /\ loc[t].ret # "fail" /\ op[t].name \in stale /\ loc[t].old # 0
    /\ fat[1][loc[t].cluster] = FAT_ENTRY_FREE

\* What is left of the chain that is being freed.
FreeingSound(t) ==
    LET c == loc[t].cluster
        next == loc[t].next
        ver == FreedVersion(t)
        size == FreedSize(t)
    IN /\ pc[t] = "freeRead" =>
             \/ Emptied(t)
             \/ /\ loc[t].ret # "fail" => loc[t].old # 0 /\ op[t].name \notin stale
                /\ disk[c][1] = ver /\ ver # 0 /\ disk[c][2] <= size
                /\ Rest(fat[1], disk, ver, disk[c][2], size, FAT_ENTRY_END)
       /\ InEntry(t) /\ loc[t].why = "free" =>
             \/ Emptied(t) /\ next = FAT_ENTRY_FREE
             \/ /\ loc[t].ret # "fail" => loc[t].old # 0 /\ op[t].name \notin stale
                /\ disk[c][1] = ver /\ ver # 0 /\ disk[c][2] <= size
                /\ Rest(fat[1], disk, ver, disk[c][2] + 1, size, FAT_ENTRY_END)
                /\ IF next \in Clusters THEN disk[c][2] < size /\ disk[next] = <<ver, disk[c][2] + 1>>
                   ELSE disk[c][2] = size
                /\ loc[t].copy = 2 => fat[1][c] = FAT_ENTRY_FREE

\* Where the last cluster of the chain that is being built leads.
Linking(t) == pc[t] = "data" \/ (InEntry(t) /\ loc[t].why = "link" /\ loc[t].copy = 2)
LastEntry(t) == IF Linking(t) /\ loc[t].reach = 0 THEN loc[t].cluster ELSE FAT_ENTRY_END

\* The chain built so far, up to the first lost link; and what is behind it.
BuildingSound(t) ==
    LET v == loc[t]
        ver == op[t].version
    IN Changing(t) /\ v.ret # "fail" =>
          /\ Rest(fat[1], disk, ver, 1, Reach(v), LastEntry(t))
          /\ \A c \in Clusters : disk[c][1] = ver => fat[1][c] # FAT_ENTRY_FREE
          /\ v.i = 0 => v.first = IF pc[t] = "data" THEN v.cluster ELSE 0
          /\ v.i > 0 => /\ v.first \in Clusters /\ v.prev \in Clusters
                        /\ disk[v.first] = <<ver, 1>> /\ disk[v.prev] = <<ver, v.i>>
          /\ pc[t] \in {"dirRead", "dirWrite"} => v.i = op[t].size
          /\ InEntry(t) /\ v.why = "end" => v.i = op[t].size /\ v.i > 0
          /\ pc[t] = "freeRead" \/ (InEntry(t) /\ v.why = "free") => v.i = 0

\* When fat16_write_file gives up it frees what it has built, and the entry is
\* left with the old chain, if there is one.
FailingSound(t) ==
    LET v == loc[t]
    IN /\ Changing(t) /\ v.ret = "fail" =>
             /\ pc[t] \in {"freeRead", "entryRead", "entryWrite", "fail"}
             /\ (InEntry(t) => v.why = "free")
             /\ v.old # 0 => op[t].name \in stale
             /\ v.i > 0
       /\ pc[t] = "fail" => v.ret = "fail"

\* The cluster of which fat_alloc_cluster has read that it is free.
Claiming(t) == pc[t] = "data" \/ (InEntry(t) /\ loc[t].why \in {"claim", "link"})
ClaimSound(t) ==
    LET c == loc[t].cluster
    IN Claiming(t) =>
          /\ disk[c][1] # op[t].version
          /\ \A n \in Names : Kept(n) => disk[c][1] # saved[n].version
          /\ fat[1][c] = IF pc[t] # "data" /\ loc[t].why = "claim" /\ loc[t].copy = 1
                         THEN FAT_ENTRY_FREE ELSE FAT_ENTRY_END

\* What fat16_read_file has read so far: when it is at the k-th cluster of the
\* file, the clusters before it, as far as they fit in the buffer.
Least(a, b) == IF a <= b THEN a ELSE b
ReadingSound(t) ==
    LET v == loc[t]
        s == saved[op[t].name]
        k == disk[v.cluster][2]
        here == disk[v.cluster][1] = s.version /\ 1 <= k /\ k <= s.reach
    IN op[t].name \notin stale =>
       /\ pc[t] \in {"readData", "readFat", "readNext", "readDone"} =>
             s.version # 0 /\ v.i = s.size /\ v.got = [i \in 1..Len(v.got) |-> <<s.version, i>>]
       /\ pc[t] = "readData" => here /\ Len(v.got) = Least(k - 1, op[t].size)
       /\ pc[t] \in {"readFat", "readNext"} => here /\ Len(v.got) = Least(k, op[t].size)
       /\ pc[t] = "readDone" => Len(v.got) = Least(s.reach, op[t].size)

\* A cluster in use belongs to a file or to the operation in progress.
InProgress(t, c) ==
    /\ Changing(t)
    /\ \/ /\ pc[t] = "freeRead" \/ (InEntry(t) /\ loc[t].why = "free")
          /\ loc[t].ret = "fail" \/ op[t].name \notin stale
          /\ disk[c][1] = FreedVersion(t) /\ disk[c][2] >= disk[loc[t].cluster][2]
       \/ loc[t].ret # "fail" /\ disk[c][1] = op[t].version
       \/ Claiming(t) /\ c = loc[t].cluster

Accounted(c) ==
    \/ \E n \in Names : Kept(n) /\ disk[c][1] = saved[n].version
    \/ \E t \in Tasks : InProgress(t, c)

NothingLeaked ==
    errors = 0 /\ kills = 0 => \A c \in Clusters : fat[1][c] # FAT_ENTRY_FREE => Accounted(c)

TaskSound(t) ==
    SlotFound(t) /\ FreeingSound(t) /\ BuildingSound(t) /\ FailingSound(t) /\ ClaimSound(t)
    /\ ReadingSound(t)

ChainInv ==
    DirectorySound /\ FilesSound /\ ReachSound /\ (\A t \in Tasks : TaskSound(t)) /\ NothingLeaked

FileInv ==
    SectorsFresh /\ CopiesInv /\ VersionsFresh /\ (spoiled = 0 => ChainInv)

----------------------------------------------------------------------------
(* The directory's slots                                                   *)

\* A set of numbers has a least one, and Min finds it.
LEMMA MinIsLeast ==
    ASSUME NEW T \in SUBSET Nat, T # {}
    PROVE  Min(T) \in T /\ \A k \in T : Min(T) <= k

<1> DEFINE Upto(k) == 0..k
           F == {Upto(k) : k \in T}

<1>1. \A k \in T : IsFiniteSet(0..k) /\ 0..k \subseteq Nat
  BY FS_Interval

<1>2. F \subseteq FiniteSubsetsOf(Nat) /\ F # {}
  BY <1>1 DEF FiniteSubsetsOf

<1>3. IsWellFoundedOn(StrictSubsetOrdering(Nat), FiniteSubsetsOf(Nat))
  BY FS_StrictSubsetOrderingWellFounded

<1>4. PICK x \in F : \A y \in F : ~ (<<y, x>> \in StrictSubsetOrdering(Nat))
  <2> HIDE DEF F
  <2> QED
    BY <1>2, <1>3, WFMin, Zenon

<1>5. PICK m \in T : x = 0..m
  OBVIOUS

<1>6. ASSUME NEW k \in T, k < m PROVE FALSE
  <2>1. 0..k \in F
    OBVIOUS
  <2>2. 0..k \subseteq 0..m /\ 0..k # 0..m
    BY <1>6
  <2>3. <<0..k, 0..m>> \in StrictSubsetOrdering(Nat)
    BY <2>2 DEF StrictSubsetOrdering
  <2>4. QED
    BY <1>4, <1>5, <2>1, <2>3

<1>7. m \in T /\ \A k \in T : m <= k
  BY <1>6

<1>8. QED
  BY <1>7 DEF Min

LEMMA SlotForFinds ==
    ASSUME NEW d, NEW n
    PROVE /\ SlotFor(d, n) \in {0} \cup Slots
          /\ Matches(d, n) # {} => SlotFor(d, n) \in Matches(d, n)
          /\ Matches(d, n) = {} /\ SlotFor(d, n) # 0 => SlotFor(d, n) \in FreeSlots(d)
  <1>1. Matches(d, n) \in SUBSET Slots /\ FreeSlots(d) \in SUBSET Slots /\ Slots \in SUBSET Nat
    BY Fat16Assumption DEF Matches, FreeSlots, Slots
  <1>2. Matches(d, n) # {} => Min(Matches(d, n)) \in Matches(d, n)
    BY <1>1, MinIsLeast
  <1>3. FreeSlots(d) # {} => Min(FreeSlots(d)) \in FreeSlots(d)
    BY <1>1, MinIsLeast
  <1> QED
    BY <1>1, <1>2, <1>3 DEF SlotFor

----------------------------------------------------------------------------
(* Numbers of clusters, and the fields of a task's locals                  *)

LEMMA ClusterNumbers ==
    /\ Clusters \subseteq Nat /\ Entries \subseteq Nat /\ Starts \subseteq Nat
    /\ FAT_ENTRY_FREE \notin Clusters /\ FAT_ENTRY_END \notin Clusters
    /\ FAT_ENTRY_FREE # FAT_ENTRY_END /\ 0 \notin Clusters /\ Clusters \subseteq Entries
    /\ FAT_ENTRY_FREE \in Entries /\ FAT_ENTRY_END \in Entries /\ 2 \in Nat
    /\ Slots \subseteq Nat /\ 0 \notin Slots /\ DataClusters \subseteq Clusters
  BY Fat16Assumption DEF Clusters, DataClusters, Entries, Starts, FAT_ENTRY_FREE, FAT_ENTRY_END, Slots

SameFile(v, w) == w.slot = v.slot /\ w.old = v.old /\ w.reach = v.reach
SameChain(v, w) == w.first = v.first /\ w.prev = v.prev /\ w.i = v.i
SameCall(v, w) == w.copy = v.copy /\ w.value = v.value /\ w.why = v.why

LEMMA LocalsFields ==
    ASSUME NEW v \in Locals
    PROVE /\ v.slot \in {0} \cup Slots /\ v.cluster \in Nat /\ v.next \in Entries
          /\ v.first \in Starts /\ v.prev \in Starts /\ v.i \in 0..(MaxSize + 1)
          /\ v.copy \in {1, 2} /\ v.value \in Starts \X Entries /\ v.why \in Whys
          /\ v.ret \in Labels /\ v.got \in Seq(Tags) /\ v.old \in Starts
          /\ v.reach \in 0..(MaxSize + 1)
  BY DEF Locals

LEMMA NoLocalsTyped == NoLocals \in Locals
  BY Fat16Assumption, ClusterNumbers
  DEF Locals, NoLocals, Starts, Entries, FAT_ENTRY_FREE, Whys, Labels, Tags

\* The groups of locals that the code assigns together, and what each leaves alone.
At(v, c) == [v EXCEPT !.cluster = c]
Calling(v, c, e, y) == [v EXCEPT !.copy = 1, !.value = <<c, e>>, !.why = y]
Followed(v, e) == [v EXCEPT !.next = e]
SecondCopy(v) == [v EXCEPT !.copy = 2]
Begun(v, c) == [v EXCEPT !.first = c]
FailingAt(v, c) == [v EXCEPT !.cluster = c, !.ret = "fail"]
Wrote(v, c, k) == [v EXCEPT !.prev = c, !.i = k]
WithData(v, g) == [v EXCEPT !.got = g]
FoundAt(s, o, r) == [NoLocals EXCEPT !.slot = s, !.old = o, !.ret = r]
Reading(v, c, k) == [v EXCEPT !.cluster = c, !.i = k]

LEMMA AtTyped ==
    ASSUME NEW v \in Locals, NEW c \in Nat
    PROVE LET w == At(v, c) IN
          /\ w \in Locals /\ w.cluster = c
          /\ SameFile(v, w) /\ SameChain(v, w) /\ SameCall(v, w)
          /\ w.next = v.next /\ w.ret = v.ret /\ w.got = v.got
  BY DEF At, Locals, SameFile, SameChain, SameCall

LEMMA CallingTyped ==
    ASSUME NEW v \in Locals, NEW c \in Starts, NEW e \in Entries, NEW y \in Whys
    PROVE LET w == Calling(v, c, e, y) IN
          /\ w \in Locals /\ w.copy = 1 /\ w.value = <<c, e>> /\ w.why = y
          /\ SameFile(v, w) /\ SameChain(v, w)
          /\ w.cluster = v.cluster /\ w.next = v.next /\ w.ret = v.ret /\ w.got = v.got
  BY DEF Calling, Locals, SameFile, SameChain

LEMMA FollowedTyped ==
    ASSUME NEW v \in Locals, NEW e \in Entries
    PROVE LET w == Followed(v, e) IN
          /\ w \in Locals /\ w.next = e
          /\ SameFile(v, w) /\ SameChain(v, w) /\ SameCall(v, w)
          /\ w.cluster = v.cluster /\ w.ret = v.ret /\ w.got = v.got
  BY DEF Followed, Locals, SameFile, SameChain, SameCall

LEMMA SecondCopyTyped ==
    ASSUME NEW v \in Locals
    PROVE LET w == SecondCopy(v) IN
          /\ w \in Locals /\ w.copy = 2 /\ w.value = v.value /\ w.why = v.why
          /\ SameFile(v, w) /\ SameChain(v, w)
          /\ w.cluster = v.cluster /\ w.next = v.next /\ w.ret = v.ret /\ w.got = v.got
  BY DEF SecondCopy, Locals, SameFile, SameChain

LEMMA BegunTyped ==
    ASSUME NEW v \in Locals, NEW c \in Starts
    PROVE LET w == Begun(v, c) IN
          /\ w \in Locals /\ w.first = c /\ w.prev = v.prev /\ w.i = v.i
          /\ SameFile(v, w) /\ SameCall(v, w)
          /\ w.cluster = v.cluster /\ w.next = v.next /\ w.ret = v.ret /\ w.got = v.got
  BY DEF Begun, Locals, SameFile, SameCall

LEMMA FailingAtTyped ==
    ASSUME NEW v \in Locals, NEW c \in Nat
    PROVE LET w == FailingAt(v, c) IN
          /\ w \in Locals /\ w.cluster = c /\ w.ret = "fail"
          /\ SameFile(v, w) /\ SameChain(v, w) /\ SameCall(v, w)
          /\ w.next = v.next /\ w.got = v.got
  BY DEF FailingAt, Locals, SameFile, SameChain, SameCall, Labels

LEMMA WroteTyped ==
    ASSUME NEW v \in Locals, NEW c \in Starts, NEW k \in 0..(MaxSize + 1)
    PROVE LET w == Wrote(v, c, k) IN
          /\ w \in Locals /\ w.prev = c /\ w.i = k /\ w.first = v.first
          /\ SameFile(v, w) /\ SameCall(v, w)
          /\ w.cluster = v.cluster /\ w.next = v.next /\ w.ret = v.ret /\ w.got = v.got
  BY DEF Wrote, Locals, SameFile, SameCall

LEMMA WithDataTyped ==
    ASSUME NEW v \in Locals, NEW g \in Seq(Tags)
    PROVE LET w == WithData(v, g) IN
          /\ w \in Locals /\ w.got = g
          /\ SameFile(v, w) /\ SameChain(v, w) /\ SameCall(v, w)
          /\ w.cluster = v.cluster /\ w.next = v.next /\ w.ret = v.ret
  BY DEF WithData, Locals, SameFile, SameChain, SameCall

\* What Scan sets, before and after it chooses where to go.
LEMMA FoundAtTyped ==
    ASSUME NEW s \in {0} \cup Slots, NEW o \in Starts, NEW r \in Labels
    PROVE LET w == FoundAt(s, o, r) IN
          /\ w \in Locals /\ w.slot = s /\ w.old = o /\ w.ret = r
          /\ SameChain(NoLocals, w) /\ SameCall(NoLocals, w)
          /\ w.cluster = 0 /\ w.next = 0 /\ w.got = <<>> /\ w.reach = 0
  BY NoLocalsTyped DEF FoundAt, Locals, NoLocals, SameChain, SameCall

LEMMA LostLinkTyped ==
    ASSUME NEW v \in Locals
    PROVE LET w == LostLink(v) IN
          /\ w \in Locals /\ SameChain(v, w) /\ SameCall(v, w)
          /\ w.slot = v.slot /\ w.old = v.old
          /\ w.cluster = v.cluster /\ w.next = v.next /\ w.ret = v.ret /\ w.got = v.got
          /\ w.reach = IF v.why = "link" /\ v.copy = 1 /\ v.reach = 0 THEN v.i ELSE v.reach
  BY DEF LostLink, Locals, SameChain, SameCall

LEMMA ReadingTyped ==
    ASSUME NEW v \in Locals, NEW c \in Nat, NEW k \in 0..(MaxSize + 1)
    PROVE LET w == Reading(v, c, k) IN
          /\ w \in Locals /\ w.cluster = c /\ w.i = k
          /\ SameFile(v, w) /\ SameCall(v, w) /\ w.first = v.first /\ w.prev = v.prev
          /\ w.next = v.next /\ w.ret = v.ret /\ w.got = v.got
  BY DEF Reading, Locals, SameFile, SameCall

----------------------------------------------------------------------------
(* What a step of one task leaves to the others                            *)

OthersKeep(t) ==
    \A u \in Tasks \ {t} :
        pc'[u] = pc[u] /\ op'[u] = op[u] /\ loc'[u] = loc[u] /\ sector'[u] = sector[u]

LEMMA GotoMoves ==
    ASSUME PerTask, NEW t \in Tasks, NEW l \in Labels, NEW w, Goto(t, l, w)
    PROVE /\ pc' \in [Tasks -> Labels] /\ DOMAIN loc' = Tasks /\ pc'[t] = l /\ loc'[t] = w
          /\ \A u \in Tasks \ {t} : pc'[u] = pc[u] /\ loc'[u] = loc[u]
  BY DEF Goto, PerTask

LEMMA Moves ==
    ASSUME PerTask, NEW t \in Tasks, NEW l \in Labels, NEW w, Goto(t, l, w), UNCHANGED <<op, sector>>
    PROVE /\ PerTask' /\ OthersKeep(t) /\ pc'[t] = l /\ loc'[t] = w
          /\ op'[t] = op[t] /\ sector'[t] = sector[t]
  <1>1. /\ pc' \in [Tasks -> Labels] /\ DOMAIN loc' = Tasks /\ pc'[t] = l /\ loc'[t] = w
        /\ \A u \in Tasks \ {t} : pc'[u] = pc[u] /\ loc'[u] = loc[u]
    BY GotoMoves
  <1> QED
    BY <1>1 DEF PerTask, OthersKeep

\* A task goes on with the locals that the code has assigned.
LEMMA GoesAt ==
    ASSUME PerTask, NEW t \in Tasks, NEW l \in Labels, NEW v \in Locals, NEW c \in Nat,
           Goto(t, l, At(v, c)), UNCHANGED <<op, sector>>
    PROVE LET w == loc'[t] IN
          /\ PerTask' /\ OthersKeep(t) /\ pc'[t] = l /\ op'[t] = op[t] /\ sector'[t] = sector[t]
          /\ w \in Locals /\ w.cluster = c /\ w.slot = v.slot /\ w.old = v.old
          /\ w.first = v.first /\ w.prev = v.prev /\ w.i = v.i /\ w.ret = v.ret
          /\ w.reach = v.reach
  <1>1. /\ PerTask' /\ OthersKeep(t) /\ pc'[t] = l /\ loc'[t] = At(v, c)
        /\ op'[t] = op[t] /\ sector'[t] = sector[t]
    BY Moves
  <1>2. LET w == At(v, c) IN
        w \in Locals /\ w.cluster = c /\ SameFile(v, w) /\ SameChain(v, w) /\ w.ret = v.ret
    BY AtTyped
  <1> QED
    BY <1>1, <1>2 DEF SameFile, SameChain

LEMMA GoesReading ==
    ASSUME PerTask, NEW t \in Tasks, NEW l \in Labels, NEW v \in Locals, NEW c \in Nat,
           NEW k \in 0..(MaxSize + 1), Goto(t, l, Reading(v, c, k)), UNCHANGED <<op, sector>>
    PROVE LET w == loc'[t] IN
          /\ PerTask' /\ OthersKeep(t) /\ pc'[t] = l /\ op'[t] = op[t] /\ sector'[t] = sector[t]
          /\ w \in Locals /\ w.cluster = c /\ w.i = k /\ w.got = v.got
  <1>1. /\ PerTask' /\ OthersKeep(t) /\ pc'[t] = l /\ loc'[t] = Reading(v, c, k)
        /\ op'[t] = op[t] /\ sector'[t] = sector[t]
    BY Moves
  <1>2. LET w == Reading(v, c, k) IN w \in Locals /\ w.cluster = c /\ w.i = k /\ w.got = v.got
    BY ReadingTyped
  <1> QED
    BY <1>1, <1>2

LEMMA Returns ==
    ASSUME PerTask, NEW t \in Tasks, Return(t)
    PROVE /\ PerTask' /\ OthersKeep(t) /\ pc'[t] = "idle" /\ loc'[t] = NoLocals
          /\ op'[t] = NoOp /\ sector'[t] = <<>>
  BY DEF Return, PerTask, OthersKeep, Labels

LEMMA OthersTyped ==
    ASSUME TypeInv, NEW t \in Tasks, OthersKeep(t), PerTask', DiskTyped', GhostsTyped', TaskTyped(t)'
    PROVE TypeInv'
  <1>1. ASSUME NEW u \in Tasks, u # t PROVE TaskTyped(u)'
    <2>1. pc'[u] = pc[u] /\ op'[u] = op[u] /\ loc'[u] = loc[u] /\ sector'[u] = sector[u]
      BY <1>1 DEF OthersKeep
    <2>2. TaskTyped(u)
      BY DEF TypeInv
    <2> QED
      BY <2>1, <2>2
      DEF TaskTyped, SectorTyped, CallTyped, PlaceTyped, InEntry, Changing, AfterFree
  <1> QED
    BY <1>1 DEF TypeInv

----------------------------------------------------------------------------
(* Each step keeps the types                                               *)

LEMMA NoOpTyped == NoOp \in Operations
  BY Fat16Assumption DEF NoOp, Operations, Kinds

LEMMA IdleTyped ==
    ASSUME NEW t \in Tasks, pc[t] = "idle", op[t] = NoOp, loc[t] = NoLocals, sector[t] = <<>>
    PROVE TaskTyped(t)
  BY NoOpTyped, NoLocalsTyped
  DEF TaskTyped, SectorTyped, CallTyped, PlaceTyped, InEntry, Changing, NoOp

LEMMA ReturnTyped ==
    ASSUME TypeInv, NEW t \in Tasks, Return(t), DiskTyped', GhostsTyped'
    PROVE TypeInv'
  <1>1. /\ PerTask' /\ OthersKeep(t) /\ pc'[t] = "idle" /\ loc'[t] = NoLocals
        /\ op'[t] = NoOp /\ sector'[t] = <<>>
    BY Returns DEF TypeInv
  <1>2. TaskTyped(t)'
    BY <1>1, NoOpTyped, NoLocalsTyped
    DEF TaskTyped, SectorTyped, CallTyped, PlaceTyped, InEntry, Changing, NoOp
  <1> QED
    BY <1>1, <1>2, OthersTyped

LEMMA InitTypes == Init => TypeInv
  <1> SUFFICES ASSUME Init PROVE TypeInv
    OBVIOUS
  <1>1. DiskTyped
    <2>1. PICK x \in Volumes : /\ fat = [k \in 1..2 |-> x.table]
                               /\ root = [s \in Slots |-> IF s = 1 THEN x.entry ELSE NeverUsed]
      BY DEF Init
    <2>2. x.table \in [Clusters -> Entries]
      BY <2>1, ClusterNumbers DEF Volumes
    <2>3. NeverUsed \in Dirents
      BY Fat16Assumption DEF NeverUsed, Dirents
    <2>4. x.entry \in Dirents
      BY <2>1, <2>3, Fat16Assumption DEF Volumes, File, Dirents
    <2>5. disk \in [Clusters -> (0..MaxOps) \X (0..MaxSize)]
      BY Fat16Assumption DEF Init
    <2> QED
      BY <2>1, <2>2, <2>3, <2>4, <2>5 DEF DiskTyped
  <1>2. GhostsTyped
    BY Fat16Assumption DEF Init, GhostsTyped, NotSaved
  <1>3. PerTask
    BY DEF Init, PerTask, Labels
  <1>4. ASSUME NEW t \in Tasks PROVE TaskTyped(t)
    BY IdleTyped DEF Init
  <1> QED
    BY <1>1, <1>2, <1>3, <1>4 DEF TypeInv

LEMMA StartTypes ==
    ASSUME TypeInv, NEW t \in Tasks, NEW n \in Names, NEW size \in 0..MaxSize,
           NEW kind \in Kinds \ {"none"}, kind = "delete" => size = 0, Start(t, kind, n, size)
    PROVE TypeInv'
  <1>1. ops' = ops + 1 /\ ops' \in 0..MaxOps
    BY Fat16Assumption DEF Start, TypeInv, GhostsTyped
  <1>2. /\ pc' \in [Tasks -> Labels] /\ DOMAIN loc' = Tasks /\ pc'[t] = "scan" /\ loc'[t] = NoLocals
        /\ \A u \in Tasks \ {t} : pc'[u] = pc[u] /\ loc'[u] = loc[u]
    BY GotoMoves DEF Start, TypeInv, Labels
  <1>3. /\ op'[t] = [kind |-> kind, name |-> n, version |-> ops', size |-> size]
        /\ DOMAIN op' = Tasks /\ \A u \in Tasks \ {t} : op'[u] = op[u]
    BY DEF Start, TypeInv, PerTask
  <1>4. sector'[t] = <<>>
    BY DEF Start, TypeInv, TaskTyped, SectorTyped
  <1>5. PerTask' /\ OthersKeep(t)
    BY <1>2, <1>3 DEF Start, TypeInv, PerTask, OthersKeep
  <1>6. TaskTyped(t)'
    <2>1. op'[t] \in Operations
      BY <1>1, <1>3 DEF Operations
    <2> QED
      BY <1>2, <1>3, <1>4, <2>1, NoLocalsTyped
      DEF TaskTyped, SectorTyped, CallTyped, PlaceTyped, InEntry
  <1>7. DiskTyped' /\ GhostsTyped'
    BY <1>1 DEF Start, TypeInv, DiskTyped, GhostsTyped, diskVars
  <1> QED
    BY <1>5, <1>6, <1>7, OthersTyped

\* What the types say of one task.
LEMMA TaskFacts ==
    ASSUME TypeInv, NEW t \in Tasks
    PROVE /\ op[t] \in Operations /\ loc[t] \in Locals /\ pc[t] \in Labels
          /\ SectorTyped(t) /\ CallTyped(t) /\ PlaceTyped(t) /\ PerTask
          /\ op[t].kind \in Kinds /\ op[t].version \in 0..MaxOps /\ op[t].size \in 0..MaxSize
  BY DEF TypeInv, TaskTyped, PerTask, Operations

LEMMA SameDisk ==
    ASSUME TypeInv, UNCHANGED diskVars
    PROVE DiskTyped'
  BY DEF TypeInv, DiskTyped, diskVars

LEMMA SameGhosts ==
    ASSUME TypeInv, UNCHANGED ghosts
    PROVE GhostsTyped'
  BY DEF TypeInv, GhostsTyped, ghosts

LEMMA ScanTypes ==
    ASSUME TypeInv, NEW t \in Tasks, Scan(t)
    PROVE TypeInv'
  <1> DEFINE n == op[t].name
             existed == Matches(root, n) # {}
  <1> PICK s : s = SlotFor(root, n)
    OBVIOUS
  <1> PICK old : old = IF existed THEN root[s].first ELSE 0
    OBVIOUS
  <1> PICK found : found = FoundAt(s, old, AfterFree(t))
    OBVIOUS
  <1>1. DiskTyped' /\ GhostsTyped' /\ pc[t] = "scan"
    <2>1. UNCHANGED diskVars /\ UNCHANGED <<saved, ops, errors, kills, stale>>
          /\ spoiled' \in {1, spoiled} /\ pc[t] = "scan"
      BY DEF Scan
    <2>2. GhostsTyped'
      BY <2>1 DEF TypeInv, GhostsTyped
    <2> QED
      BY <2>1, <2>2, SameDisk
  <1>2. s \in {0} \cup Slots /\ (existed => s \in Slots) /\ n \in Names
    BY <1>1, SlotForFinds, TaskFacts DEF Matches, PlaceTyped
  <1>3. old \in Starts /\ (existed => root[s].size \in 0..(MaxSize + 1) /\ root[s] \in Dirents)
    BY <1>2 DEF TypeInv, DiskTyped, Dirents, Starts
  <1>4. AfterFree(t) \in {"allocRead", "dirRead"} /\ AfterFree(t) \in Labels
        /\ (AfterFree(t) = "allocRead" => op[t].kind = "write" /\ op[t].size > 0)
    BY DEF AfterFree, Labels
  <1>5. /\ found \in Locals /\ found.slot = s /\ found.old = old /\ found.ret = AfterFree(t)
        /\ SameChain(NoLocals, found) /\ SameCall(NoLocals, found)
        /\ found.cluster = 0 /\ found.next = 0 /\ found.got = <<>>
    <2>1. s \in {0} \cup Slots /\ old \in Starts /\ AfterFree(t) \in Labels
      BY <1>2, <1>3, <1>4
    <2> QED
      BY <2>1, FoundAtTyped
  <1>6. NoLocals.i = 0 /\ NoLocals.first = 0
    BY DEF NoLocals
  <1>7. CASE Return(t)
    BY <1>1, <1>7, ReturnTyped
  <1>8. ASSUME NEW c \in Nat, NEW l \in {"freeRead", "allocRead", "dirRead"},
               Goto(t, l, [found EXCEPT !.cluster = c]), UNCHANGED <<op, sector>>, s # 0,
               op[t].kind \in {"write", "delete"}, l = "freeRead" => c \in Clusters,
               l # "freeRead" => l = AfterFree(t)
        PROVE TypeInv'
    <2> PICK w : w = loc'[t]
      OBVIOUS
    <2>1. found \in Locals /\ l \in Labels /\ PerTask
      BY <1>5, TaskFacts DEF Labels
    <2>2. Goto(t, l, At(found, c)) /\ UNCHANGED <<op, sector>>
      BY <1>8 DEF At
    <2>3. /\ PerTask' /\ OthersKeep(t) /\ pc'[t] = l /\ op'[t] = op[t] /\ sector'[t] = sector[t]
          /\ w \in Locals /\ w.cluster = c /\ w.slot = found.slot /\ w.first = found.first
          /\ w.i = found.i /\ w.ret = found.ret
      BY <2>1, <2>2, GoesAt
    <2>4. w.slot \in Slots /\ w.i = 0 /\ w.first = 0 /\ w.ret = AfterFree(t)
      BY <1>2, <1>5, <1>6, <1>8, <2>3 DEF SameChain
    <2>5. TaskTyped(t)'
      <3>1. AfterFree(t)' = AfterFree(t)
        BY <2>3 DEF AfterFree
      <3>2. op[t] \in Operations /\ PlaceTyped(t)
        BY TaskFacts
      <3> QED
        BY <1>1, <1>4, <1>8, <2>3, <2>4, <3>1, <3>2
        DEF TaskTyped, SectorTyped, CallTyped, PlaceTyped, InEntry, Changing
    <2> QED
      BY <1>1, <2>3, <2>5, OthersTyped
  <1>9. ASSUME NEW l \in {"readData", "readDone"}, op[t].kind = "read", existed,
               Goto(t, l, [found EXCEPT !.cluster = old, !.i = root[s].size]),
               UNCHANGED <<op, sector>>, l = "readData" => InChain(old)
        PROVE TypeInv'
    <2> PICK k \in 0..(MaxSize + 1) : k = root[s].size
      BY <1>3, <1>9
    <2> PICK w : w = loc'[t]
      OBVIOUS
    <2>1. found \in Locals /\ old \in Nat /\ l \in Labels /\ PerTask
      BY <1>3, <1>5, TaskFacts, ClusterNumbers DEF Labels
    <2>2. /\ PerTask' /\ OthersKeep(t) /\ pc'[t] = l /\ op'[t] = op[t] /\ sector'[t] = sector[t]
          /\ w \in Locals /\ w.cluster = old
      <3>1. Goto(t, l, Reading(found, old, k)) /\ UNCHANGED <<op, sector>>
        BY <1>9 DEF Reading
      <3> QED
        BY <2>1, <3>1, GoesReading
    <2>3. TaskTyped(t)'
      BY <1>1, <1>9, <2>1, <2>2, TaskFacts
      DEF TaskTyped, SectorTyped, CallTyped, PlaceTyped, InEntry, Changing, InChain
    <2> QED
      BY <1>1, <2>2, <2>3, OthersTyped
  <1>10. CASE /\ op[t].kind = "read" /\ existed
              /\ Goto(t, IF InChain(old) /\ root[s].size > 0 THEN "readData" ELSE "readDone",
                      [found EXCEPT !.cluster = old, !.i = root[s].size])
              /\ UNCHANGED <<op, sector>>
    BY <1>9, <1>10
  <1>11. CASE /\ (op[t].kind = "write" /\ s # 0) \/ (op[t].kind = "delete" /\ existed)
              /\ IF InChain(old) THEN Goto(t, "freeRead", [found EXCEPT !.cluster = old])
                 ELSE Goto(t, AfterFree(t), [found EXCEPT !.cluster = 2])
              /\ UNCHANGED <<op, sector>>
    <2>1. s # 0 /\ op[t].kind \in {"write", "delete"}
      BY <1>2, <1>11, ClusterNumbers
    <2>2. InChain(old) => old \in Clusters /\ old \in Nat
      BY ClusterNumbers DEF InChain
    <2> QED
      BY <1>4, <1>8, <1>11, <2>1, <2>2, ClusterNumbers
  <1> QED
    BY <1>7, <1>10, <1>11 DEF Scan, FoundAt

LEMMA ChangingFacts ==
    ASSUME TypeInv, NEW t \in Tasks, Changing(t)
    PROVE /\ op[t].name \in Names /\ op[t].kind # "none" /\ pc[t] # "idle"
          /\ op[t].kind = "delete" => op[t].size = 0
          /\ op[t].size \in Nat
  <1>1. PlaceTyped(t) /\ op[t].size \in 0..MaxSize
    BY TaskFacts
  <1> QED
    BY <1>1, Fat16Assumption DEF PlaceTyped, Changing, NoOp

\* A step to label l with locals w keeps the types when they fit there.
LEMMA GotoTypes ==
    ASSUME TypeInv, NEW t \in Tasks, NEW l \in Labels, NEW w \in Locals, Goto(t, l, w),
           UNCHANGED <<op, sector>>, DiskTyped', GhostsTyped',
           SectorTyped(t)' /\ CallTyped(t)' /\ PlaceTyped(t)'
    PROVE TypeInv'
  <1>1. /\ PerTask' /\ OthersKeep(t) /\ pc'[t] = l /\ loc'[t] = w
        /\ op'[t] = op[t] /\ sector'[t] = sector[t]
    BY Moves, TaskFacts
  <1>2. TaskTyped(t)'
    BY <1>1, TaskFacts DEF TaskTyped
  <1> QED
    BY <1>1, <1>2, OthersTyped

\* fat_write_entry is called with a cluster and an entry.
LEMMA WriteEntryTypes ==
    ASSUME TypeInv, NEW t \in Tasks, NEW v \in Locals, NEW c \in Clusters, NEW e \in Entries,
           NEW why \in {"free", "claim", "link", "end"}, WriteEntry(t, c, e, why, v),
           UNCHANGED <<op, sector>>, DiskTyped', GhostsTyped',
           Changing(t), v.slot \in Slots,
           why = "free" => /\ c = v.cluster /\ e = FAT_ENTRY_FREE /\ v.ret \in {AfterFree(t), "fail"}
                           /\ (v.ret # "fail" => v.i = 0 /\ v.first = 0),
           why = "claim" => c = v.cluster /\ e = FAT_ENTRY_END /\ c \in DataClusters,
           why = "link" => c = v.prev /\ e = v.cluster /\ v.first # 0 /\ v.cluster \in DataClusters,
           why = "end" => c = v.prev /\ e = FAT_ENTRY_END,
           why \in {"claim", "link"} => v.i < op[t].size,
           why # "free" => (v.first # 0 => v.prev \in Clusters)
    PROVE TypeInv'
  <1> PICK w : w = Calling(v, c, e, why)
    OBVIOUS
  <1>1. /\ w \in Locals /\ w.copy = 1 /\ w.value = <<c, e>> /\ w.why = why
        /\ SameFile(v, w) /\ SameChain(v, w)
        /\ w.cluster = v.cluster /\ w.next = v.next /\ w.ret = v.ret /\ w.got = v.got
    <2>1. c \in Starts /\ why \in Whys
      BY DEF Starts, Whys
    <2> QED
      BY <2>1, CallingTyped
  <1>2. Goto(t, "entryRead", w)
    BY DEF WriteEntry, Calling
  <1>3. /\ PerTask' /\ OthersKeep(t) /\ pc'[t] = "entryRead" /\ loc'[t] = w
        /\ op'[t] = op[t] /\ sector'[t] = sector[t]
    BY <1>2, Moves, TaskFacts DEF Labels
  <1>4. AfterFree(t)' = AfterFree(t) /\ Changing(t)'
    BY <1>3 DEF AfterFree, Changing
  <1>5. SectorTyped(t)'
    BY <1>3 DEF SectorTyped
  <1>6. CallTyped(t)'
    BY <1>1, <1>3 DEF CallTyped, SameFile, SameChain
  <1>7. PlaceTyped(t)'
    BY <1>1, <1>3, <1>4, ChangingFacts DEF PlaceTyped, InEntry, SameFile, SameChain
  <1> QED
    BY <1>1, <1>2, <1>5, <1>6, <1>7, GotoTypes DEF Labels

LEMMA EntryReadTypes ==
    ASSUME TypeInv, NEW t \in Tasks, EntryRead(t)
    PROVE TypeInv'
  <1>1. DiskTyped' /\ GhostsTyped' /\ pc[t] = "entryRead"
    BY SameDisk, SameGhosts DEF EntryRead
  <1>2. loc[t].copy \in {1, 2} /\ fat[loc[t].copy] \in [Clusters -> Entries]
    BY TaskFacts, LocalsFields DEF TypeInv, DiskTyped
  <1>3. /\ pc' \in [Tasks -> Labels] /\ DOMAIN loc' = Tasks /\ pc'[t] = "entryWrite"
        /\ loc'[t] = loc[t]
        /\ \A u \in Tasks \ {t} : pc'[u] = pc[u] /\ loc'[u] = loc[u]
    BY GotoMoves, TaskFacts DEF EntryRead, Labels
  <1>4. /\ sector'[t] = fat[loc[t].copy] /\ DOMAIN sector' = Tasks /\ op' = op
        /\ \A u \in Tasks \ {t} : sector'[u] = sector[u]
    BY DEF EntryRead, TypeInv, PerTask
  <1>5. PerTask' /\ OthersKeep(t)
    BY <1>3, <1>4, TaskFacts DEF PerTask, OthersKeep
  <1>6. TaskTyped(t)'
    <2>1. SectorTyped(t)'
      BY <1>2, <1>3, <1>4 DEF SectorTyped
    <2>2. CallTyped(t)'
      BY <1>1, <1>3, <1>4, TaskFacts DEF CallTyped, InEntry
    <2>3. PlaceTyped(t)'
      BY <1>1, <1>3, <1>4, TaskFacts DEF PlaceTyped, InEntry, Changing, AfterFree
    <2> QED
      BY <1>3, <1>4, <2>1, <2>2, <2>3, TaskFacts DEF TaskTyped
  <1> QED
    BY <1>1, <1>5, <1>6, OthersTyped

\* The cluster that is freed, and where its chain goes on.
LEMMA FreeNextTypes ==
    ASSUME TypeInv, NEW t \in Tasks, NEW v \in Locals, FreeNext(t, v),
           UNCHANGED <<op, sector>>, DiskTyped', GhostsTyped',
           Changing(t), v.slot \in Slots, v.ret \in {AfterFree(t), "fail"},
           v.ret # "fail" => v.i = 0 /\ v.first = 0
    PROVE TypeInv'
  <1>1. PICK c \in Nat, l \in {"freeRead", "allocRead", "dirRead", "fail"} :
           /\ Goto(t, l, At(v, c)) /\ (l = "freeRead" => c \in Clusters)
           /\ (l # "freeRead" => l = v.ret)
    <2>1. AfterFree(t) \in {"allocRead", "dirRead"}
      BY DEF AfterFree
    <2>2. CASE InChain(v.next)
      <3>1. v.next \in Clusters /\ v.next \in Nat /\ Goto(t, "freeRead", At(v, v.next))
        BY <2>2, ClusterNumbers DEF FreeNext, InChain, At
      <3> QED
        BY <3>1
    <2>3. CASE ~ InChain(v.next)
      <3>1. 2 \in Nat /\ Goto(t, v.ret, At(v, 2))
        BY <2>3 DEF FreeNext, At
      <3>2. v.ret \in {"allocRead", "dirRead", "fail"}
        BY <2>1
      <3> QED
        BY <3>1, <3>2
    <2> QED
      BY <2>2, <2>3
  <1> PICK w : w = At(v, c)
    OBVIOUS
  <1>2. /\ w \in Locals /\ w.cluster = c
        /\ SameFile(v, w) /\ SameChain(v, w) /\ SameCall(v, w)
        /\ w.next = v.next /\ w.ret = v.ret /\ w.got = v.got
    BY AtTyped
  <1>3. /\ PerTask' /\ OthersKeep(t) /\ pc'[t] = l /\ loc'[t] = w
        /\ op'[t] = op[t] /\ sector'[t] = sector[t]
    BY <1>1, Moves, TaskFacts DEF Labels
  <1>4. AfterFree(t)' = AfterFree(t) /\ Changing(t)'
        /\ (l = "allocRead" => op[t].size > 0)
    BY <1>1, <1>3 DEF AfterFree, Changing
  <1>5. SectorTyped(t)' /\ CallTyped(t)'
    BY <1>1, <1>3 DEF SectorTyped, CallTyped, InEntry
  <1>6. PlaceTyped(t)'
    BY <1>1, <1>2, <1>3, <1>4, ChangingFacts DEF PlaceTyped, InEntry, SameFile, SameChain
  <1> QED
    BY <1>1, <1>2, <1>5, <1>6, GotoTypes DEF Labels

LEMMA DataStepTypes ==
    ASSUME TypeInv, NEW t \in Tasks, NEW w \in Locals, Goto(t, "data", w),
           UNCHANGED <<op, sector>>, DiskTyped', GhostsTyped',
           Changing(t), w.slot \in Slots, w.cluster \in DataClusters, w.i < op[t].size
    PROVE TypeInv'
  <1>1. /\ PerTask' /\ OthersKeep(t) /\ pc'[t] = "data" /\ loc'[t] = w
        /\ op'[t] = op[t] /\ sector'[t] = sector[t]
    BY Moves, TaskFacts DEF Labels
  <1>2. SectorTyped(t)' /\ CallTyped(t)'
    BY <1>1 DEF SectorTyped, CallTyped, InEntry
  <1>3. Changing(t)'
    BY <1>1 DEF Changing
  <1>4. PlaceTyped(t)'
    BY <1>1, <1>3, ChangingFacts, ClusterNumbers DEF PlaceTyped, InEntry
  <1> QED
    BY <1>2, <1>4, GotoTypes DEF Labels

LEMMA ContinueTypes ==
    ASSUME TypeInv, NEW t \in Tasks, InEntry(t), NEW v \in {loc[t], LostLink(loc[t])},
           Continue(t, v), UNCHANGED <<op, sector>>, DiskTyped', GhostsTyped'
    PROVE TypeInv'
  <1> PICK x : x = loc[t]
    OBVIOUS
  <1>0. /\ v \in Locals /\ SameChain(x, v) /\ v.slot = x.slot /\ v.cluster = x.cluster
        /\ v.why = x.why /\ v.ret = x.ret
    <2>1. x \in Locals
      BY TaskFacts
    <2> QED
      BY <2>1, LostLinkTyped DEF SameChain, SameCall
  <1>1. /\ v \in Locals /\ Changing(t) /\ v.slot \in Slots
        /\ v.prev \in Starts /\ v.cluster \in Nat
    <2>1. PlaceTyped(t)
      BY TaskFacts
    <2>2. Changing(t) /\ v.slot \in Slots
      BY <1>0, <2>1 DEF PlaceTyped, InEntry
    <2> QED
      BY <1>0, <2>2, LocalsFields
  <1>2. CASE v.why = "free" /\ FreeNext(t, v)
    <2>1. v.ret \in {AfterFree(t), "fail"} /\ (v.ret # "fail" => v.i = 0 /\ v.first = 0)
      BY <1>0, <1>2, TaskFacts DEF PlaceTyped, SameChain
    <2> QED
      BY <1>1, <1>2, <2>1, FreeNextTypes
  <1>3. CASE v.why = "claim" /\ Claimed(t, v)
    <2>1. /\ v.cluster \in DataClusters /\ v.cluster \in Clusters /\ v.cluster \in Starts
          /\ v.cluster \in Entries /\ v.i < op[t].size
      BY <1>0, <1>3, TaskFacts, ClusterNumbers DEF CallTyped, PlaceTyped, SameChain, Starts
    <2>2. CASE v.first = 0
      <3> PICK w : w = Begun(v, v.cluster)
        OBVIOUS
      <3>1. w \in Locals /\ w.i = v.i /\ w.slot = v.slot /\ w.cluster = v.cluster
        <4>1. /\ w \in Locals /\ w.i = v.i /\ SameFile(v, w) /\ w.cluster = v.cluster
          BY <1>1, <2>1, BegunTyped
        <4> QED
          BY <4>1 DEF SameFile
      <3>2. Goto(t, "data", w)
        BY <1>3, <2>2 DEF Claimed, Begun
      <3> QED
        BY <1>1, <2>1, <3>1, <3>2, DataStepTypes
    <2>3. CASE v.first # 0
      <3>1. v.prev \in Clusters
        BY <1>0, <1>3, <2>3, TaskFacts DEF PlaceTyped, SameChain, InEntry
      <3>2. WriteEntry(t, v.prev, v.cluster, "link", v)
        BY <1>3, <2>3 DEF Claimed
      <3> QED
        BY <1>1, <2>1, <2>3, <3>1, <3>2, WriteEntryTypes
    <2> QED
      BY <2>2, <2>3
  <1>4. CASE v.why = "link" /\ Goto(t, "data", v)
    <2>1. v.cluster \in DataClusters /\ v.i < op[t].size
      BY <1>0, <1>4, TaskFacts DEF CallTyped, PlaceTyped, SameChain
    <2> QED
      BY <1>1, <1>4, <2>1, DataStepTypes
  <1>5. CASE v.why = "end" /\ Goto(t, "dirRead", v)
    <2>1. /\ PerTask' /\ OthersKeep(t) /\ pc'[t] = "dirRead" /\ loc'[t] = v
          /\ op'[t] = op[t] /\ sector'[t] = sector[t]
      BY <1>5, Moves, TaskFacts DEF Labels
    <2>2. SectorTyped(t)' /\ CallTyped(t)'
      BY <2>1 DEF SectorTyped, CallTyped, InEntry
    <2>3. PlaceTyped(t)'
      <3>1. Changing(t)'
        BY <1>1, <2>1 DEF Changing
      <3> QED
        BY <1>1, <2>1, <3>1, ChangingFacts DEF PlaceTyped, InEntry
    <2> QED
      BY <1>1, <1>5, <2>2, <2>3, GotoTypes DEF Labels
  <1> QED
    BY <1>2, <1>3, <1>4, <1>5 DEF Continue

LEMMA EntryWriteTypes ==
    ASSUME TypeInv, NEW t \in Tasks, EntryWrite(t)
    PROVE TypeInv'
  <1> PICK v : v = loc[t]
    OBVIOUS
  <1>1. v \in Locals /\ v.copy \in {1, 2} /\ v.value \in Starts \X Entries /\ pc[t] = "entryWrite"
    BY TaskFacts, LocalsFields DEF EntryWrite
  <1>2. DiskTyped'
    <2>1. sector[t] \in [Clusters -> Entries] /\ v.value[1] \in Clusters
      BY <1>1, TaskFacts DEF SectorTyped, CallTyped, InEntry
    <2>2. [sector[t] EXCEPT ![v.value[1]] = v.value[2]] \in [Clusters -> Entries]
      BY <1>1, <2>1
    <2>3. fat' = [fat EXCEPT ![v.copy] = [sector[t] EXCEPT ![v.value[1]] = v.value[2]]]
      BY DEF EntryWrite
    <2>4. fat' \in [1..2 -> [Clusters -> Entries]]
      BY <1>1, <2>2, <2>3 DEF TypeInv, DiskTyped
    <2> QED
      BY <2>4 DEF EntryWrite, TypeInv, DiskTyped
  <1>3. GhostsTyped'
    BY SameGhosts DEF EntryWrite
  <1>4. CASE v.copy = 1 /\ Goto(t, "entryRead", [v EXCEPT !.copy = 2])
    <2> PICK w : w = SecondCopy(v)
      OBVIOUS
    <2>1. /\ w \in Locals /\ w.copy = 2 /\ w.value = v.value /\ w.why = v.why
          /\ SameFile(v, w) /\ SameChain(v, w)
          /\ w.cluster = v.cluster /\ w.next = v.next /\ w.ret = v.ret /\ w.got = v.got
      BY <1>1, SecondCopyTyped
    <2>2. Goto(t, "entryRead", w) /\ UNCHANGED <<op, sector>>
      BY <1>4 DEF SecondCopy, EntryWrite
    <2>3. /\ PerTask' /\ OthersKeep(t) /\ pc'[t] = "entryRead" /\ loc'[t] = w
          /\ op'[t] = op[t] /\ sector'[t] = sector[t]
      BY <2>2, Moves, TaskFacts DEF Labels
    <2>4. SectorTyped(t)'
      BY <2>3 DEF SectorTyped
    <2>5. CallTyped(t)'
      BY <1>1, <2>1, <2>3, TaskFacts DEF CallTyped, InEntry, SameChain
    <2>6. PlaceTyped(t)'
      BY <1>1, <2>1, <2>3, TaskFacts
      DEF PlaceTyped, InEntry, Changing, AfterFree, SameChain, SameFile
    <2> QED
      BY <1>2, <1>3, <2>1, <2>2, <2>4, <2>5, <2>6, GotoTypes DEF Labels
  <1>5. CASE v.copy = 2 /\ Continue(t, v)
    <2>1. UNCHANGED <<op, sector>> /\ InEntry(t)
      BY <1>1 DEF EntryWrite, InEntry
    <2> QED
      BY <1>2, <1>3, <1>5, <2>1, ContinueTypes
  <1> QED
    BY <1>4, <1>5 DEF EntryWrite

LEMMA FreeReadTypes ==
    ASSUME TypeInv, NEW t \in Tasks, FreeRead(t)
    PROVE TypeInv'
  <1> PICK v : v = loc[t]
    OBVIOUS
  <1>1. /\ v \in Locals /\ v.cluster \in Clusters /\ pc[t] = "freeRead" /\ Changing(t)
        /\ v.slot \in Slots /\ v.ret \in {AfterFree(t), "fail"}
        /\ (v.ret # "fail" => v.i = 0 /\ v.first = 0)
    BY TaskFacts DEF FreeRead, PlaceTyped
  <1>2. fat[1][v.cluster] \in Entries
    BY <1>1 DEF TypeInv, DiskTyped
  <1> PICK u : u = Followed(v, fat[1][v.cluster])
    OBVIOUS
  <1>3. /\ u \in Locals /\ SameFile(v, u) /\ SameChain(v, u) /\ u.cluster = v.cluster
        /\ u.ret = v.ret
    BY <1>1, <1>2, FollowedTyped
  <1>4. WriteEntry(t, u.cluster, FAT_ENTRY_FREE, "free", u)
    BY <1>3 DEF FreeRead, Followed
  <1>5. DiskTyped' /\ GhostsTyped' /\ UNCHANGED <<op, sector>>
    BY SameDisk, SameGhosts DEF FreeRead
  <1>6. u.slot \in Slots /\ u.ret \in {AfterFree(t), "fail"}
        /\ (u.ret # "fail" => u.i = 0 /\ u.first = 0)
    BY <1>1, <1>3 DEF SameFile, SameChain
  <1>7. u.cluster \in Clusters
    BY <1>1, <1>3
  <1> QED
    BY <1>1, <1>3, <1>4, <1>5, <1>6, <1>7, ClusterNumbers, WriteEntryTypes

\* fat16_write_file gives up.
LEMMA GiveUpTypes ==
    ASSUME TypeInv, NEW t \in Tasks, GiveUp(t, loc[t]), UNCHANGED diskVars, Changing(t),
           loc[t].slot \in Slots, GhostsTyped'
    PROVE TypeInv'
  <1> PICK v : v = loc[t]
    OBVIOUS
  <1>1. v \in Locals /\ v.first \in Starts /\ DiskTyped'
    BY SameDisk, TaskFacts, LocalsFields
  <1>2. CASE Return(t)
    BY <1>1, <1>2, ReturnTyped
  <1>3. CASE /\ v.first # 0 /\ Goto(t, "freeRead", [v EXCEPT !.cluster = v.first, !.ret = "fail"])
             /\ UNCHANGED <<op, sector>>
    <2> PICK w : w = FailingAt(v, v.first)
      OBVIOUS
    <2>1. v.first \in Clusters /\ v.first \in Nat
      BY <1>1, <1>3, ClusterNumbers DEF Starts
    <2>2. /\ w \in Locals /\ w.cluster = v.first /\ w.ret = "fail" /\ SameFile(v, w)
      BY <1>1, <2>1, FailingAtTyped
    <2>3. Goto(t, "freeRead", w)
      BY <1>3 DEF FailingAt
    <2>4. /\ PerTask' /\ OthersKeep(t) /\ pc'[t] = "freeRead" /\ loc'[t] = w
          /\ op'[t] = op[t] /\ sector'[t] = sector[t]
      BY <1>3, <2>3, Moves, TaskFacts DEF Labels
    <2>5. SectorTyped(t)' /\ CallTyped(t)'
      BY <2>4 DEF SectorTyped, CallTyped, InEntry
    <2>6. Changing(t)' /\ w.slot \in Slots
      BY <2>2, <2>4 DEF Changing, SameFile
    <2>7. PlaceTyped(t)'
      BY <2>1, <2>2, <2>4, <2>6, ChangingFacts DEF PlaceTyped, InEntry
    <2> QED
      BY <1>1, <1>3, <2>2, <2>3, <2>5, <2>7, GotoTypes DEF Labels
  <1> QED
    BY <1>2, <1>3 DEF GiveUp

LEMMA AbandonGhosts ==
    ASSUME TypeInv, NEW t \in Tasks, pc[t] # "idle", Abandon(t)
    PROVE stale' \subseteq Names /\ stale \subseteq stale'
  <1>1. op[t].name \in Names
    BY TaskFacts DEF PlaceTyped
  <1> QED
    BY <1>1 DEF Abandon, TypeInv, GhostsTyped

LEMMA AllocReadTypes ==
    ASSUME TypeInv, NEW t \in Tasks, AllocRead(t)
    PROVE TypeInv'
  <1> PICK v : v = loc[t]
    OBVIOUS
  <1>1. /\ v \in Locals /\ pc[t] = "allocRead" /\ Changing(t) /\ v.slot \in Slots
        /\ v.i < op[t].size /\ (v.first # 0 => v.prev \in Clusters) /\ v.cluster \in Nat
    BY TaskFacts, LocalsFields DEF AllocRead, PlaceTyped
  <1>2. DiskTyped'
    BY SameDisk DEF AllocRead
  <1>3. stale' \subseteq Names => GhostsTyped'
    BY DEF AllocRead, TypeInv, GhostsTyped
  <1>4. CASE /\ v.cluster \in DataClusters
             /\ Goto(t, "allocRead", [v EXCEPT !.cluster = @ + 1])
             /\ UNCHANGED <<op, sector, stale>>
    <2> PICK w : w = At(v, v.cluster + 1)
      OBVIOUS
    <2>1. /\ w \in Locals /\ SameFile(v, w) /\ SameChain(v, w)
      <3>1. v.cluster + 1 \in Nat
        BY <1>1
      <3> QED
        BY <1>1, <3>1, AtTyped
    <2>2. Goto(t, "allocRead", w)
      BY <1>4 DEF At
    <2>3. /\ PerTask' /\ OthersKeep(t) /\ pc'[t] = "allocRead" /\ loc'[t] = w
          /\ op'[t] = op[t] /\ sector'[t] = sector[t]
      BY <1>4, <2>2, Moves, TaskFacts DEF Labels
    <2>4. SectorTyped(t)' /\ CallTyped(t)'
      BY <2>3 DEF SectorTyped, CallTyped, InEntry
    <2>5. Changing(t)' /\ w.slot \in Slots /\ w.i < op[t].size /\ (w.first # 0 => w.prev \in Clusters)
      BY <1>1, <2>1, <2>3 DEF Changing, SameFile, SameChain
    <2>6. PlaceTyped(t)'
      BY <2>3, <2>5, <1>1, ChangingFacts DEF PlaceTyped, InEntry
    <2>7. GhostsTyped'
      BY <1>3, <1>4 DEF TypeInv, GhostsTyped
    <2> QED
      BY <1>2, <1>4, <2>1, <2>2, <2>4, <2>6, <2>7, GotoTypes DEF Labels
  <1>5. CASE /\ v.cluster \in DataClusters
             /\ WriteEntry(t, v.cluster, FAT_ENTRY_END, "claim", v)
             /\ UNCHANGED <<op, sector, stale>>
    <2>1. GhostsTyped' /\ v.cluster \in DataClusters /\ v.cluster \in Clusters
      BY <1>3, <1>5, ClusterNumbers DEF TypeInv, GhostsTyped
    <2> QED
      BY <1>1, <1>2, <1>5, <2>1, ClusterNumbers, WriteEntryTypes
  <1>6. CASE GiveUp(t, v)
    <2>1. GhostsTyped' /\ UNCHANGED diskVars
      BY <1>1, <1>3, <1>6, AbandonGhosts DEF AllocRead, GiveUp
    <2> QED
      BY <1>1, <1>6, <2>1, GiveUpTypes
  <1> QED
    BY <1>4, <1>5, <1>6 DEF AllocRead

LEMMA DataTypes ==
    ASSUME TypeInv, NEW t \in Tasks, Data(t)
    PROVE TypeInv'
  <1> PICK v : v = loc[t]
    OBVIOUS
  <1>1. /\ v \in Locals /\ pc[t] = "data" /\ Changing(t) /\ v.slot \in Slots
        /\ v.i < op[t].size /\ v.cluster \in Clusters /\ v.i \in Nat
        /\ op[t].size \in 0..MaxSize /\ op[t].version \in 0..MaxOps
    BY TaskFacts, LocalsFields, Fat16Assumption DEF Data, PlaceTyped
  <1> PICK k : k = v.i + 1
    OBVIOUS
  <1>2. k \in 0..(MaxSize + 1) /\ k \in 0..MaxSize /\ k \in Nat
    BY <1>1, Fat16Assumption
  <1> PICK u : u = Wrote(v, v.cluster, k)
    OBVIOUS
  <1>3. /\ u \in Locals /\ u.prev = v.cluster /\ u.i = k /\ SameFile(v, u) /\ u.cluster = v.cluster
        /\ u.ret = v.ret
    <2>1. v.cluster \in Starts
      BY <1>1 DEF Starts
    <2> QED
      BY <1>1, <1>2, <2>1, WroteTyped
  <1>4. /\ disk' = [disk EXCEPT ![u.prev] = <<op[t].version, u.i>>]
        /\ IF u.i < op[t].size THEN Goto(t, "allocRead", At(u, 2))
           ELSE WriteEntry(t, u.prev, FAT_ENTRY_END, "end", u)
    BY DEF Data, Wrote, At
  <1>5. DiskTyped'
    <2>1. <<op[t].version, k>> \in (0..MaxOps) \X (0..MaxSize)
      BY <1>1, <1>2
    <2>2. disk' \in [Clusters -> (0..MaxOps) \X (0..MaxSize)]
      BY <1>3, <1>4, <2>1 DEF TypeInv, DiskTyped
    <2> QED
      BY <2>2 DEF Data, TypeInv, DiskTyped
  <1>6. GhostsTyped' /\ UNCHANGED <<op, sector>>
    BY SameGhosts DEF Data
  <1>7. u.slot \in Slots /\ u.prev \in Clusters
    BY <1>1, <1>3 DEF SameFile
  <1>8. CASE u.i < op[t].size
    <2> PICK w : w = At(u, 2)
      OBVIOUS
    <2>1. /\ w \in Locals /\ SameFile(u, w) /\ SameChain(u, w)
      BY <1>3, AtTyped, ClusterNumbers
    <2>2. /\ PerTask' /\ OthersKeep(t) /\ pc'[t] = "allocRead" /\ loc'[t] = w
          /\ op'[t] = op[t] /\ sector'[t] = sector[t]
      BY <1>4, <1>6, <1>8, Moves, TaskFacts DEF Labels
    <2>3. SectorTyped(t)' /\ CallTyped(t)'
      BY <2>2 DEF SectorTyped, CallTyped, InEntry
    <2>4. Changing(t)' /\ w.slot \in Slots /\ w.i < op[t].size /\ w.prev \in Clusters
      BY <1>1, <1>7, <1>8, <2>1, <2>2 DEF Changing, SameFile, SameChain
    <2>5. PlaceTyped(t)'
      BY <2>2, <2>4, <1>1, ChangingFacts DEF PlaceTyped, InEntry
    <2> QED
      BY <1>4, <1>5, <1>6, <1>8, <2>1, <2>3, <2>5, GotoTypes DEF Labels
  <1>9. CASE ~ (u.i < op[t].size)
    <2>1. WriteEntry(t, u.prev, FAT_ENTRY_END, "end", u)
      BY <1>4, <1>9
    <2> QED
      BY <1>1, <1>3, <1>5, <1>6, <1>7, <2>1, ClusterNumbers, WriteEntryTypes
  <1> QED
    BY <1>8, <1>9

LEMMA DirReadTypes ==
    ASSUME TypeInv, NEW t \in Tasks, DirRead(t)
    PROVE TypeInv'
  <1>1. DiskTyped' /\ GhostsTyped' /\ pc[t] = "dirRead" /\ root \in [Slots -> Dirents]
    BY SameDisk, SameGhosts DEF DirRead, TypeInv, DiskTyped
  <1>2. /\ pc' \in [Tasks -> Labels] /\ DOMAIN loc' = Tasks /\ pc'[t] = "dirWrite"
        /\ loc'[t] = loc[t]
        /\ \A u \in Tasks \ {t} : pc'[u] = pc[u] /\ loc'[u] = loc[u]
    BY GotoMoves, TaskFacts DEF DirRead, Labels
  <1>3. /\ sector'[t] = root /\ DOMAIN sector' = Tasks /\ op' = op
        /\ \A u \in Tasks \ {t} : sector'[u] = sector[u]
    BY DEF DirRead, TypeInv, PerTask
  <1>4. PerTask' /\ OthersKeep(t)
    BY <1>2, <1>3, TaskFacts DEF PerTask, OthersKeep
  <1>5. TaskTyped(t)'
    <2>1. SectorTyped(t)' /\ CallTyped(t)'
      BY <1>1, <1>2, <1>3 DEF SectorTyped, CallTyped, InEntry
    <2>2. PlaceTyped(t)'
      BY <1>1, <1>2, <1>3, TaskFacts DEF PlaceTyped, InEntry, Changing
    <2> QED
      BY <1>2, <1>3, <2>1, <2>2, TaskFacts DEF TaskTyped
  <1> QED
    BY <1>1, <1>4, <1>5, OthersTyped

LEMMA NewEntryTyped ==
    ASSUME TypeInv, NEW t \in Tasks, Changing(t)
    PROVE NewEntry(t) \in Dirents
  <1>1. op[t].name \in Names /\ op[t].size \in 0..MaxSize /\ loc[t].first \in Starts
    BY TaskFacts, ChangingFacts, LocalsFields
  <1> QED
    BY <1>1, Fat16Assumption DEF NewEntry, Deleted, File, Dirents, Starts

LEMMA DirWriteTypes ==
    ASSUME TypeInv, NEW t \in Tasks, DirWrite(t)
    PROVE TypeInv'
  <1>1. /\ pc[t] = "dirWrite" /\ Changing(t) /\ loc[t].slot \in Slots
        /\ sector[t] \in [Slots -> Dirents] /\ NewEntry(t) \in Dirents
    BY TaskFacts, NewEntryTyped DEF DirWrite, PlaceTyped, SectorTyped
  <1>2. DiskTyped'
    BY <1>1 DEF DirWrite, TypeInv, DiskTyped
  <1>3. GhostsTyped'
    <2>1. op[t].version \in 0..MaxOps /\ op[t].size \in 0..MaxSize
          /\ Reach(loc[t]) \in 0..(MaxSize + 1)
      BY TaskFacts, LocalsFields DEF Reach
    <2> PICK s : s = IF op[t].kind = "delete" THEN NotSaved
                     ELSE [version |-> op[t].version, size |-> op[t].size, reach |-> Reach(loc[t])]
      OBVIOUS
    <2>2. s \in [version : 0..MaxOps, size : 0..MaxSize, reach : 0..(MaxSize + 1)]
      BY <2>1, Fat16Assumption DEF NotSaved
    <2>3. saved' = [saved EXCEPT ![op[t].name] = s]
      BY DEF DirWrite
    <2>4. saved' \in [Names -> [version : 0..MaxOps, size : 0..MaxSize, reach : 0..(MaxSize + 1)]]
      BY <2>2, <2>3 DEF TypeInv, GhostsTyped
    <2>5. UNCHANGED <<ops, errors, kills, spoiled>> /\ stale' \subseteq stale
      BY DEF DirWrite
    <2> QED
      BY <2>4, <2>5 DEF TypeInv, GhostsTyped
  <1> QED
    BY <1>2, <1>3, ReturnTyped DEF DirWrite

LEMMA FailTypes ==
    ASSUME TypeInv, NEW t \in Tasks, Fail(t) \/ ReadDone(t)
    PROVE TypeInv'
  BY SameDisk, SameGhosts, ReturnTyped DEF Fail, ReadDone

\* A step of a read that only changes the read's own state.
LEMMA ReadTypes ==
    ASSUME TypeInv, NEW t \in Tasks, NEW w \in Locals, op[t].kind = "read", op[t].name \in Names,
           NEW l \in {"readData", "readFat", "readNext", "readDone"},
           Goto(t, l, w), UNCHANGED <<diskVars, op, ghosts>>,
           DOMAIN sector' = Tasks, \A u \in Tasks \ {t} : sector'[u] = sector[u],
           l # "readDone" => w.cluster \in Clusters,
           l = "readData" => sector'[t] \in {<<>>} \cup [Clusters -> Entries],
           l = "readNext" => sector'[t] \in [Clusters -> Entries],
           l = "readFat" => sector'[t] = <<>>
    PROVE TypeInv'
  <1>1. DiskTyped' /\ GhostsTyped'
    BY SameDisk, SameGhosts
  <1>2. /\ pc' \in [Tasks -> Labels] /\ DOMAIN loc' = Tasks /\ pc'[t] = l /\ loc'[t] = w
        /\ \A u \in Tasks \ {t} : pc'[u] = pc[u] /\ loc'[u] = loc[u]
    BY GotoMoves, TaskFacts DEF Labels
  <1>3. PerTask' /\ OthersKeep(t)
    BY <1>2, TaskFacts DEF PerTask, OthersKeep
  <1>4. TaskTyped(t)'
    <2>1. SectorTyped(t)' /\ CallTyped(t)'
      BY <1>2 DEF SectorTyped, CallTyped, InEntry
    <2>2. PlaceTyped(t)'
      BY <1>2 DEF PlaceTyped, InEntry, Changing
    <2> QED
      BY <1>2, <2>1, <2>2, TaskFacts DEF TaskTyped
  <1> QED
    BY <1>1, <1>3, <1>4, OthersTyped

LEMMA ReadDataTypes ==
    ASSUME TypeInv, NEW t \in Tasks, ReadData(t)
    PROVE TypeInv'
  <1> PICK v : v = loc[t]
    OBVIOUS
  <1>1. /\ v \in Locals /\ v.cluster \in Clusters /\ v.got \in Seq(Tags)
        /\ op[t].kind = "read" /\ op[t].name \in Names
        /\ sector[t] \in {<<>>} \cup [Clusters -> Entries]
    BY TaskFacts, LocalsFields DEF ReadData, PlaceTyped, SectorTyped
  <1>2. disk[v.cluster] \in Tags
    BY <1>1, Fat16Assumption DEF TypeInv, DiskTyped, Tags
  <1> PICK g : g = IF Len(v.got) < op[t].size THEN Append(v.got, disk[v.cluster]) ELSE v.got
    OBVIOUS
  <1>3. g \in Seq(Tags)
    BY <1>1, <1>2
  <1> PICK w : w = WithData(v, g)
    OBVIOUS
  <1>4. w \in Locals /\ w.cluster = v.cluster
    <2>1. v \in Locals
      BY <1>1
    <2> QED
      BY <1>3, <2>1, WithDataTyped
  <1>5. PICK l \in {"readFat", "readNext"} :
           Goto(t, l, w) /\ (l = "readFat" <=> sector[t] = <<>>)
    BY DEF ReadData, WithData
  <1>6. UNCHANGED <<diskVars, op, sector, ghosts>> /\ DOMAIN sector = Tasks
    BY TaskFacts DEF ReadData, PerTask
  <1> QED
    BY <1>1, <1>4, <1>5, <1>6, ReadTypes

LEMMA ReadFatTypes ==
    ASSUME TypeInv, NEW t \in Tasks, ReadFat(t)
    PROVE TypeInv'
  <1>1. /\ loc[t] \in Locals /\ loc[t].cluster \in Clusters
        /\ op[t].kind = "read" /\ op[t].name \in Names
    BY TaskFacts DEF ReadFat, PlaceTyped
  <1>2. /\ DOMAIN sector' = Tasks /\ \A u \in Tasks \ {t} : sector'[u] = sector[u]
    BY TaskFacts DEF ReadFat, PerTask
  <1>3. sector'[t] \in [Clusters -> Entries]
    BY TaskFacts DEF ReadFat, PerTask, TypeInv, DiskTyped
  <1>4. Goto(t, "readNext", loc[t]) /\ UNCHANGED <<diskVars, op, ghosts>>
    BY DEF ReadFat
  <1> QED
    BY <1>1, <1>2, <1>3, <1>4, ReadTypes

LEMMA ReadNextTypes ==
    ASSUME TypeInv, NEW t \in Tasks, ReadNext(t)
    PROVE TypeInv'
  <1> PICK v : v = loc[t]
    OBVIOUS
  <1>1. /\ v \in Locals /\ v.cluster \in Clusters
        /\ op[t].kind = "read" /\ op[t].name \in Names
        /\ sector[t] \in [Clusters -> Entries]
    BY TaskFacts DEF ReadNext, PlaceTyped, SectorTyped
  <1> PICK c : c = sector[t][v.cluster]
    OBVIOUS
  <1>2. c \in Nat
    BY <1>1, ClusterNumbers
  <1> PICK w : w = At(v, c)
    OBVIOUS
  <1>3. w \in Locals /\ w.cluster = c
    BY <1>1, <1>2, AtTyped
  <1>4. PICK l \in {"readData", "readDone"} : Goto(t, l, w) /\ (l = "readData" => c \in Clusters)
    BY DEF ReadNext, At, InChain
  <1>5. UNCHANGED <<diskVars, op, sector, ghosts>> /\ DOMAIN sector = Tasks
    BY TaskFacts DEF ReadNext, PerTask
  <1> QED
    BY <1>1, <1>3, <1>4, <1>5, ReadTypes

LEMMA AtaErrorTypes ==
    ASSUME TypeInv, NEW t \in Tasks, AtaError(t)
    PROVE TypeInv'
  <1> PICK v : v = loc[t]
    OBVIOUS
  <1>1. v \in Locals /\ DiskTyped' /\ UNCHANGED diskVars
    BY SameDisk, TaskFacts DEF AtaError
  <1>2. stale' \subseteq Names => GhostsTyped'
    BY DEF AtaError, TypeInv, GhostsTyped
  <1>3. stale \subseteq Names /\ pc[t] # "idle"
    BY DEF AtaError, InAccess, TypeInv, GhostsTyped
  <1>4. CASE /\ pc[t] = "freeRead" /\ Goto(t, v.ret, [v EXCEPT !.cluster = 2])
             /\ UNCHANGED <<op, sector, stale>>
    <2>1. /\ Changing(t) /\ v.slot \in Slots /\ v.ret \in {AfterFree(t), "fail"}
          /\ (v.ret # "fail" => v.i = 0 /\ v.first = 0)
      BY <1>4, TaskFacts DEF PlaceTyped
    <2> PICK w : w = At(v, 2)
      OBVIOUS
    <2>2. w \in Locals /\ w.cluster = 2 /\ SameFile(v, w) /\ SameChain(v, w) /\ w.ret = v.ret
      BY <1>1, AtTyped, ClusterNumbers
    <2>3. v.ret \in {"allocRead", "dirRead", "fail"} /\ v.ret \in Labels
      BY <2>1 DEF AfterFree, Labels
    <2>4. /\ PerTask' /\ OthersKeep(t) /\ pc'[t] = v.ret /\ loc'[t] = w
          /\ op'[t] = op[t] /\ sector'[t] = sector[t] /\ Goto(t, v.ret, w)
      BY <1>4, <2>3, Moves, TaskFacts DEF At
    <2>5. SectorTyped(t)' /\ CallTyped(t)'
      BY <2>3, <2>4 DEF SectorTyped, CallTyped, InEntry
    <2>6. /\ Changing(t)' /\ w.slot \in Slots
          /\ (v.ret # "fail" => w.i = 0 /\ w.first = 0)
          /\ (v.ret = "allocRead" => op[t].size > 0)
      BY <2>1, <2>2, <2>4 DEF Changing, SameFile, SameChain, AfterFree
    <2>7. PlaceTyped(t)'
      BY <2>1, <2>3, <2>4, <2>6, ChangingFacts DEF PlaceTyped, InEntry
    <2> QED
      BY <1>1, <1>2, <1>3, <1>4, <2>2, <2>3, <2>4, <2>5, <2>7, GotoTypes
  <1>5. CASE /\ InEntry(t) /\ Continue(t, LostLink(v))
             /\ UNCHANGED <<op, sector, stale>>
    BY <1>1, <1>2, <1>3, <1>5, ContinueTypes
  <1>6. CASE /\ (InEntry(t) /\ v.why = "claim") \/ pc[t] = "allocRead"
             /\ GiveUp(t, v)
    <2>1. Changing(t) /\ v.slot \in Slots
      BY <1>6, TaskFacts DEF PlaceTyped, InEntry
    <2> QED
      BY <1>1, <1>2, <1>3, <1>6, <2>1, AbandonGhosts, GiveUpTypes DEF GiveUp
  <1>7. CASE Return(t) /\ Abandon(t)
    BY <1>1, <1>2, <1>3, <1>7, AbandonGhosts, ReturnTyped
  <1> QED
    BY <1>4, <1>5, <1>6, <1>7 DEF AtaError, InEntry

LEMMA KillTypes ==
    ASSUME TypeInv, NEW t \in Tasks, Kill(t)
    PROVE TypeInv'
  <1>1. DiskTyped' /\ Return(t)
    BY SameDisk DEF Kill
  <1>2. GhostsTyped'
    BY AbandonGhosts DEF Kill, TypeInv, GhostsTyped
  <1> QED
    BY <1>1, <1>2, ReturnTyped

LEMMA StutterTypes == TypeInv /\ UNCHANGED vars => TypeInv'
  <1> SUFFICES ASSUME TypeInv, UNCHANGED vars PROVE TypeInv'
    OBVIOUS
  <1>1. DiskTyped' /\ GhostsTyped' /\ PerTask'
    BY DEF TypeInv, DiskTyped, GhostsTyped, PerTask, vars
  <1>2. ASSUME NEW t \in Tasks PROVE TaskTyped(t)'
    <2>1. op'[t] = op[t] /\ loc'[t] = loc[t] /\ pc'[t] = pc[t] /\ sector'[t] = sector[t]
      BY DEF vars
    <2>2. TaskTyped(t)
      BY DEF TypeInv
    <2> QED
      BY <2>1, <2>2 DEF TaskTyped, SectorTyped, CallTyped, PlaceTyped, InEntry, Changing, AfterFree
  <1> QED
    BY <1>1, <1>2 DEF TypeInv

LEMMA NextTypes == TypeInv /\ [Next]_vars => TypeInv'
  <1> SUFFICES ASSUME TypeInv, [Next]_vars PROVE TypeInv'
    OBVIOUS
  <1>1. ASSUME NEW t \in Tasks, EditorSave(t) PROVE TypeInv'
    BY <1>1, StartTypes DEF EditorSave, Kinds
  <1>2. ASSUME NEW t \in Tasks, CatOrRemove(t) PROVE TypeInv'
    <2>1. 0 \in 0..MaxSize /\ MaxSize \in 0..MaxSize
      BY Fat16Assumption
    <2> QED
      BY <1>2, <2>1, StartTypes DEF CatOrRemove, Kinds
  <1>4. ASSUME NEW t \in Tasks, EditorLoad(t) PROVE TypeInv'
    <2>1. EditorLimit \in 0..MaxSize
      BY Fat16Assumption
    <2> QED
      BY <1>4, <2>1, StartTypes DEF EditorLoad, Kinds
  <1>3. ASSUME NEW t \in Tasks, Step(t) PROVE TypeInv'
    BY <1>3, ScanTypes, EntryReadTypes, EntryWriteTypes, FreeReadTypes, AllocReadTypes, DataTypes,
       DirReadTypes, DirWriteTypes, FailTypes, ReadDataTypes, ReadFatTypes, ReadNextTypes DEF Step
  <1> QED
    BY <1>1, <1>2, <1>3, <1>4, AtaErrorTypes, KillTypes, StutterTypes DEF Next

LEMMA TypesSuffice == TypeInv => TypeOK
  <1> SUFFICES ASSUME TypeInv PROVE TypeOK
    OBVIOUS
  <1>1. ASSUME NEW t \in Tasks
        PROVE /\ op[t].kind \in Kinds
              /\ pc[t] \in {"freeRead", "data", "readData", "readNext"} => loc[t].cluster \in Clusters
              /\ pc[t] \in {"dirRead", "dirWrite"} => loc[t].slot \in Slots
              /\ pc[t] \in {"entryRead", "entryWrite"} => loc[t].value[1] \in Clusters
              /\ pc[t] = "data" => loc[t].cluster \in DataClusters
    BY TaskFacts DEF PlaceTyped, CallTyped, InEntry
  <1> QED
    BY <1>1 DEF TypeOK, TypeInv, DiskTyped, GhostsTyped, PerTask

\* TypeOK: whatever the tasks do, and whatever the disk held when it was mounted,
\* the loops of fat16.c follow and change only entries of numbers from 2 to
\* below the marks of an end (fat16.c:174, 296), and data is written only to
\* clusters that the volume has (fat16.c:281-283), never where a damaged table
\* or directory entry leads.
THEOREM Types == Spec => []TypeOK
  <1>1. Init => TypeInv
    BY InitTypes
  <1>2. TypeInv /\ [Next]_vars => TypeInv'
    BY NextTypes
  <1>3. TypeInv => TypeOK
    BY TypesSuffice
  <1> QED
    BY <1>1, <1>2, <1>3, PTL DEF Spec

----------------------------------------------------------------------------
(* Chains, when one entry or one cluster changes                           *)

Table == [Clusters -> Entries]
Contents == [Clusters -> Tags]

\* A table with one entry changed, or data with one cluster written.
With(f, c, x) == [f EXCEPT ![c] = x]

LEMMA RestAt ==
    ASSUME NEW f, NEW d, NEW v, NEW lo, NEW s, NEW e,
           Rest(f, d, v, lo, s, e), NEW c \in Clusters, d[c][1] = v, d[c][2] >= lo, d[c][2] <= s
    PROVE /\ d[c][2] < s => f[c] \in Clusters /\ d[f[c]] = <<v, d[c][2] + 1>>
          /\ d[c][2] = s => f[c] = e
  BY DEF Rest

LEMMA RestLater ==
    ASSUME NEW f, NEW d \in Contents, NEW v, NEW lo \in Nat, NEW s, NEW e, Rest(f, d, v, lo, s, e)
    PROVE Rest(f, d, v, lo + 1, s, e)
  <1>1. \A c \in Clusters : d[c][2] \in Nat
    BY DEF Contents, Tags
  <1> QED
    BY <1>1 DEF Rest

\* The entry of a cluster that is not of the rest does not matter.
LEMMA RestOtherEntry ==
    ASSUME NEW f \in Table, NEW d, NEW v, NEW lo, NEW s, NEW e, Rest(f, d, v, lo, s, e),
           NEW c \in Clusters, NEW x, ~ (d[c][1] = v /\ d[c][2] >= lo /\ d[c][2] <= s)
    PROVE Rest(With(f, c, x), d, v, lo, s, e)
  <1>1. \A a \in Clusters : a # c => With(f, c, x)[a] = f[a]
    BY DEF Table, With
  <1> QED
    BY <1>1 DEF Rest

\* The last cluster is linked to another one.
LEMMA RestLinked ==
    ASSUME NEW f \in Table, NEW d \in Contents, NEW v, NEW s \in Nat, NEW e,
           Rest(f, d, v, 1, s, e), NEW c \in Clusters, d[c] = <<v, s>>,
           \A a \in Clusters : d[a] = d[c] => a = c,
           NEW x
    PROVE Rest(With(f, c, x), d, v, 1, s, x)
  <1> PICK g : g = With(f, c, x)
    OBVIOUS
  <1>1. g[c] = x /\ \A a \in Clusters : a # c => g[a] = f[a]
    BY DEF Table, With
  <1>2. ASSUME NEW a \in Clusters, d[a][1] = v, d[a][2] >= 1, d[a][2] <= s
        PROVE /\ d[a][2] < s => g[a] \in Clusters /\ d[g[a]] = <<v, d[a][2] + 1>>
              /\ d[a][2] = s => g[a] = x
    <2>1. d[a] = <<d[a][1], d[a][2]>> /\ d[a][2] \in Nat
      BY DEF Contents, Tags
    <2>2. /\ d[a][2] < s => f[a] \in Clusters /\ d[f[a]] = <<v, d[a][2] + 1>>
      BY <1>2, RestAt
    <2>3. CASE a = c
      BY <1>1, <2>1, <2>2, <2>3
    <2>4. CASE a # c
      <3>1. d[a][2] # s
        BY <1>2, <2>1, <2>4
      <3> QED
        BY <1>1, <2>2, <2>4, <3>1
    <2> QED
      BY <2>3, <2>4
  <1> QED
    BY <1>2 DEF Rest

\* The cluster that the last one leads to gets its data, and is the last one.
LEMMA RestWritten ==
    ASSUME NEW f, NEW d \in Contents, NEW v, NEW s \in Nat, NEW c \in Clusters,
           Rest(f, d, v, 1, s, c), d[c][1] # v, NEW e, f[c] = e,
           \A a \in Clusters : d[a][1] = v => d[a][2] <= s
    PROVE Rest(f, With(d, c, <<v, s + 1>>), v, 1, s + 1, e)
  <1> PICK g : g = With(d, c, <<v, s + 1>>)
    OBVIOUS
  <1>1. g[c] = <<v, s + 1>> /\ \A a \in Clusters : a # c => g[a] = d[a]
    BY DEF Contents, With
  <1>2. ASSUME NEW a \in Clusters, g[a][1] = v, g[a][2] >= 1, g[a][2] <= s + 1
        PROVE /\ g[a][2] < s + 1 => f[a] \in Clusters /\ g[f[a]] = <<v, g[a][2] + 1>>
              /\ g[a][2] = s + 1 => f[a] = e
    <2>1. CASE a = c
      BY <1>1, <2>1
    <2>2. CASE a # c
      <3>1. g[a] = d[a] /\ d[a][2] \in Nat
        BY <1>1, <2>2 DEF Contents, Tags
      <3>2. /\ d[a][2] <= s
            /\ d[a][2] < s => f[a] \in Clusters /\ d[f[a]] = <<v, d[a][2] + 1>>
            /\ d[a][2] = s => f[a] = c
        <4>1. d[a][2] <= s
          BY <1>2, <3>1
        <4> QED
          BY <1>2, <3>1, <4>1, RestAt
      <3>3. d[a][2] < s => f[a] # c
        BY <3>2
      <3> QED
        BY <1>1, <3>1, <3>2, <3>3
    <2> QED
      BY <2>1, <2>2
  <1> QED
    BY <1>2 DEF Rest

\* The data of another version, on a cluster that is not of the rest.
LEMMA RestOtherData ==
    ASSUME NEW f, NEW d \in Contents, NEW v, NEW lo, NEW s \in Nat, NEW e, Rest(f, d, v, lo, s, e),
           NEW c \in Clusters, d[c][1] # v, NEW u, NEW k \in Nat, u # v \/ k > s
    PROVE Rest(f, With(d, c, <<u, k>>), v, lo, s, e)
  <1> PICK g : g = With(d, c, <<u, k>>)
    OBVIOUS
  <1>1. g[c] = <<u, k>> /\ \A a \in Clusters : a # c => g[a] = d[a]
    BY DEF Contents, With
  <1>2. ASSUME NEW a \in Clusters, g[a][1] = v, g[a][2] >= lo, g[a][2] <= s
        PROVE /\ g[a][2] < s => f[a] \in Clusters /\ g[f[a]] = <<v, g[a][2] + 1>>
              /\ g[a][2] = s => f[a] = e
    <2>1. a # c /\ g[a] = d[a]
      BY <1>1, <1>2
    <2>2. /\ d[a][2] < s => f[a] \in Clusters /\ d[f[a]] = <<v, d[a][2] + 1>>
          /\ d[a][2] = s => f[a] = e
      BY <1>2, <2>1, RestAt
    <2>3. d[a][2] < s => f[a] # c
      BY <2>2
    <2> QED
      BY <1>1, <2>1, <2>2, <2>3
  <1> QED
    BY <1>2 DEF Rest

----------------------------------------------------------------------------
(* What a step of the one task leaves alone                                *)

OneTask == \A t, u \in Tasks : t = u

\* The part of the disk that the invariant is about is the same, and what is
\* known of the files.
SameChains == fat'[1] = fat[1] /\ disk' = disk /\ root' = root /\ saved' = saved
SameVolume == fat'[1] = fat[1] /\ disk' = disk /\ root' = root /\ saved' = saved /\ stale' = stale

LEMMA SuspendedByTask ==
    ASSUME OneTask, NEW t \in Tasks, NEW n
    PROVE Suspended(n) <=> (op[t].name = n /\ Changing(t) /\ loc[t].old # 0)
  <1>1. \A u \in Tasks : u = t
    BY DEF OneTask
  <1> QED
    BY <1>1 DEF Suspended

LEMMA SuspendedByTaskNext ==
    ASSUME OneTask, NEW t \in Tasks, NEW n
    PROVE Suspended(n)' <=> (op'[t].name = n /\ Changing(t)' /\ loc'[t].old # 0)
  <1>1. \A u \in Tasks : u = t
    BY DEF OneTask
  <1> QED
    BY <1>1 DEF Suspended

LEMMA KeptSame ==
    ASSUME OneTask, NEW t \in Tasks, op'[t] = op[t], loc'[t].old = loc[t].old, saved' = saved,
           stale' = stale
    PROVE \A n : Kept(n)' <=> Kept(n)
  <1>1. Changing(t)' <=> Changing(t)
    BY DEF Changing
  <1> QED
    BY <1>1, SuspendedByTask, SuspendedByTaskNext DEF Kept

LEMMA KeptAtAbandon ==
    ASSUME OneTask, NEW t \in Tasks, op'[t] = op[t], loc'[t].old = loc[t].old, saved' = saved,
           Changing(t), Abandon(t)
    PROVE \A n : Kept(n)' <=> Kept(n)
  <1>1. Changing(t)'
    BY DEF Changing
  <1>2. stale' = IF loc[t].old # 0 THEN stale \cup {op[t].name} ELSE stale
    BY DEF Abandon, Changing
  <1> QED
    BY <1>1, <1>2, SuspendedByTask, SuspendedByTaskNext DEF Kept

LEMMA KeptAtReturn ==
    ASSUME OneTask, NEW t \in Tasks, op'[t] = NoOp, saved' = saved, Changing(t) \/ stale' = stale,
           Changing(t) => Abandon(t)
    PROVE \A n : Kept(n)' <=> Kept(n)
  <1>1. ~ Changing(t)'
    BY DEF Changing, NoOp
  <1>2. CASE Changing(t)
    <2>1. stale' = IF loc[t].old # 0 THEN stale \cup {op[t].name} ELSE stale
      BY <1>2 DEF Abandon, Changing
    <2> QED
      BY <1>1, <1>2, <2>1, SuspendedByTask, SuspendedByTaskNext DEF Kept
  <1>3. CASE ~ Changing(t)
    BY <1>1, <1>3, SuspendedByTask, SuspendedByTaskNext DEF Kept
  <1> QED
    BY <1>2, <1>3

LEMMA FilesSame ==
    ASSUME FilesSound, SameChains, \A n \in Names : Kept(n)' => Kept(n)
    PROVE FilesSound'
  BY DEF FilesSound, SameChains

LEMMA DirectorySame ==
    ASSUME DirectorySound, SameChains
    PROVE DirectorySound'
  BY DEF DirectorySound, SameChains

LEMMA ReachSame ==
    ASSUME OneTask, ReachSound, NEW t \in Tasks, disk' = disk, saved' = saved,
           errors' = 0 => errors = 0, LinksSound(t)'
    PROVE ReachSound'
  <1>1. \A u \in Tasks : u = t
    BY DEF OneTask
  <1> QED
    BY <1>1 DEF ReachSound

LEMMA VersionsSame ==
    ASSUME OneTask, VersionsFresh, NEW t \in Tasks, disk' = disk, saved' = saved, ops' = ops,
           pc'[t] # "idle" => pc[t] # "idle" /\ op'[t] = op[t]
                              /\ (Changing(t) => loc'[t].i = loc[t].i)
    PROVE VersionsFresh'
  <1>1. \A u \in Tasks : u = t
    BY DEF OneTask
  <1>2. pc'[t] # "idle" =>
          /\ op'[t].version \in 1..ops'
          /\ \A n \in Names : saved'[n].version # op'[t].version
          /\ Changing(t)' =>
                \A c \in Clusters : disk'[c][1] = op'[t].version => disk'[c][2] <= loc'[t].i
    BY DEF VersionsFresh, Changing
  <1> QED
    BY <1>1, <1>2 DEF VersionsFresh

\* A step that changes neither the first table nor the data nor the directory.
LEMMA QuietChange ==
    ASSUME OneTask, FileInv, NEW t \in Tasks, pc[t] # "idle", op'[t] = op[t],
           Changing(t) => loc'[t].i = loc[t].i,
           Changing(t) /\ pc[t] = "data" => pc'[t] = "data",
           loc'[t].reach = loc[t].reach, \A n \in Names : Kept(n)' => Kept(n),
           SameChains, ops' = ops, errors' = 0 => errors = 0,
           spoiled' = 0 => spoiled = 0, SectorsFresh', CopiesInv',
           spoiled' = 0 => TaskSound(t)' /\ NothingLeaked'
    PROVE FileInv'
  <1>1. VersionsFresh'
    BY VersionsSame DEF FileInv, SameChains
  <1>2. ASSUME spoiled' = 0 PROVE ChainInv'
    <2>1. DirectorySound' /\ FilesSound'
      BY <1>2, FilesSame, DirectorySame DEF FileInv, ChainInv
    <2>2. \A u \in Tasks : TaskSound(u)'
      BY <1>2 DEF OneTask
    <2>3. ReachSound'
      <3>1. ReachSound
        BY <1>2 DEF FileInv, ChainInv
      <3>2. Changing(t)' <=> Changing(t)
        BY DEF Changing
      <3> QED
        BY <3>1, <3>2, ReachSame DEF SameChains, ReachSound, LinksSound
    <2> QED
      BY <1>2, <2>1, <2>2, <2>3 DEF ChainInv
  <1> QED
    BY <1>1, <1>2 DEF FileInv

\* One that leaves no entry without its chain.
LEMMA QuietStep ==
    ASSUME OneTask, FileInv, NEW t \in Tasks, pc[t] # "idle", op'[t] = op[t],
           loc'[t].old = loc[t].old, Changing(t) => loc'[t].i = loc[t].i,
           Changing(t) /\ pc[t] = "data" => pc'[t] = "data",
           loc'[t].reach = loc[t].reach,
           SameVolume, ops' = ops, errors' = 0 => errors = 0,
           spoiled' = 0 => spoiled = 0, SectorsFresh', CopiesInv',
           spoiled' = 0 => TaskSound(t)' /\ NothingLeaked'
    PROVE FileInv'
  BY KeptSame, QuietChange DEF SameVolume, SameChains

LEMMA IdleSound ==
    ASSUME NEW t \in Tasks, pc[t] = "idle", op[t] = NoOp, loc[t] = NoLocals
    PROVE TaskSound(t)
  BY DEF TaskSound, SlotFound, FreeingSound, BuildingSound, FailingSound, ClaimSound, ReadingSound,
         Changing, Claiming, InEntry, NoOp

LEMMA SectorsElsewhere ==
    ASSUME OneTask, NEW t \in Tasks, pc'[t] \notin {"entryWrite", "dirWrite", "readNext", "readData"}
    PROVE SectorsFresh'
  <1>1. \A u \in Tasks : u = t
    BY DEF OneTask
  <1> QED
    BY <1>1 DEF SectorsFresh

LEMMA CopiesSame ==
    ASSUME OneTask, CopiesInv, NEW t \in Tasks, fat' = fat, ~ HalfWritten(t)',
           errors' = 0 /\ kills' = 0 => errors = 0 /\ kills = 0 /\ ~ InEntry(t)
    PROVE CopiesInv'
  <1>1. \A u \in Tasks : u = t
    BY DEF OneTask
  <1> QED
    BY <1>1 DEF CopiesInv, HalfWritten

\* The operation returns before it has written the directory.
LEMMA ReturnSound ==
    ASSUME OneTask, TypeInv, FileInv, NEW t \in Tasks, Return(t), UNCHANGED diskVars,
           saved' = saved, ops' = ops, Changing(t) \/ stale' = stale,
           spoiled' = 0 /\ Changing(t) => Abandon(t),
           spoiled' = 0 => spoiled = 0 /\ NothingLeaked', errors' = 0 => errors = 0,
           errors' = 0 /\ kills' = 0 => errors = 0 /\ kills = 0 /\ ~ InEntry(t)
    PROVE FileInv'
  <1>1. pc'[t] = "idle" /\ op'[t] = NoOp /\ loc'[t] = NoLocals /\ \A u \in Tasks : u = t
    BY Returns DEF TypeInv, OneTask
  <1>2. SameChains /\ fat' = fat
    BY DEF SameChains, diskVars
  <1>3. SectorsFresh' /\ CopiesInv'
    <2>1. ~ HalfWritten(t)'
      BY <1>1 DEF HalfWritten, InEntry
    <2> QED
      BY <1>1, <1>2, <2>1, SectorsElsewhere, CopiesSame DEF FileInv
  <1>4. VersionsFresh'
    BY <1>1, <1>2, VersionsSame DEF FileInv, SameChains
  <1>5. ASSUME spoiled' = 0 PROVE ChainInv'
    <2>1. DirectorySound' /\ FilesSound'
      BY <1>1, <1>2, <1>5, KeptAtReturn, FilesSame, DirectorySame DEF FileInv, ChainInv, SameChains
    <2>2. TaskSound(t)'
      BY <1>1 DEF TaskSound, SlotFound, FreeingSound, BuildingSound, FailingSound, ClaimSound,
                  ReadingSound, Changing, Claiming, InEntry, NoOp
    <2>3. ReachSound'
      <3>1. ReachSound /\ ~ Changing(t)'
        BY <1>1, <1>5 DEF FileInv, ChainInv, Changing, NoOp
      <3> QED
        BY <1>2, <3>1, ReachSame DEF SameChains, LinksSound
    <2> QED
      BY <1>1, <1>5, <2>1, <2>2, <2>3 DEF ChainInv
  <1> QED
    BY <1>3, <1>4, <1>5 DEF FileInv

----------------------------------------------------------------------------
(* Each step keeps the invariant                                           *)

\* What the invariant says while nothing is spoiled.
LEMMA SoundFacts ==
    ASSUME FileInv, spoiled = 0, NEW t \in Tasks
    PROVE /\ DirectorySound /\ FilesSound /\ ReachSound /\ NothingLeaked /\ TaskSound(t)
          /\ SlotFound(t) /\ FreeingSound(t) /\ BuildingSound(t) /\ FailingSound(t)
          /\ ClaimSound(t) /\ ReadingSound(t)
  BY DEF FileInv, ChainInv, TaskSound

LEMMA TablesTyped ==
    ASSUME TypeInv
    PROVE /\ fat[1] \in Table /\ fat[2] \in Table /\ disk \in Contents
          /\ \A c \in Clusters : disk[c] \in Tags /\ disk[c] = <<disk[c][1], disk[c][2]>>
                                 /\ disk[c][1] \in Nat /\ disk[c][2] \in Nat /\ fat[1][c] \in Entries
  BY Fat16Assumption DEF TypeInv, DiskTyped, Table, Contents, Tags

LEMMA SavedTyped ==
    ASSUME TypeInv, NEW n \in Names
    PROVE saved[n].version \in Nat /\ saved[n].size \in 0..MaxSize /\ saved[n].size \in Nat
          /\ saved[n].reach \in Nat
  BY Fat16Assumption DEF TypeInv, GhostsTyped

\* Clusters in use stay accounted for when the operation keeps its own.
LEMMA LeaksKept ==
    ASSUME OneTask, NothingLeaked, NEW t \in Tasks, SameChains, \A n \in Names : Kept(n) => Kept(n)',
           errors' = 0 /\ kills' = 0 => errors = 0 /\ kills = 0,
           errors = 0 /\ kills = 0 =>
              \A c \in Clusters : fat[1][c] # FAT_ENTRY_FREE /\ InProgress(t, c) => InProgress(t, c)'
    PROVE NothingLeaked'
  <1>1. \A u \in Tasks : u = t
    BY DEF OneTask
  <1>2. ASSUME NEW c \in Clusters, fat'[1][c] # FAT_ENTRY_FREE, errors' = 0, kills' = 0
        PROVE Accounted(c)'
    <2>1. Accounted(c) /\ fat[1][c] # FAT_ENTRY_FREE
      BY <1>2 DEF NothingLeaked, SameChains
    <2>2. CASE InProgress(t, c)
      BY <1>2, <2>1, <2>2 DEF Accounted
    <2>3. CASE \E n \in Names : Kept(n) /\ disk[c][1] = saved[n].version
      BY <2>3 DEF Accounted, SameChains
    <2> QED
      BY <1>1, <2>1, <2>2, <2>3 DEF Accounted
  <1> QED
    BY <1>2 DEF NothingLeaked

LEMMA LeaksSame ==
    ASSUME OneTask, NothingLeaked, NEW t \in Tasks, SameVolume, op'[t] = op[t],
           loc'[t].old = loc[t].old, errors' = 0 /\ kills' = 0 => errors = 0 /\ kills = 0,
           errors = 0 /\ kills = 0 =>
              \A c \in Clusters : fat[1][c] # FAT_ENTRY_FREE /\ InProgress(t, c) => InProgress(t, c)'
    PROVE NothingLeaked'
  BY KeptSame, LeaksKept DEF SameVolume, SameChains

\* Between the two halves of one access of fat_write_entry nothing changes.
LEMMA SameCallSound ==
    ASSUME OneTask, NEW t \in Tasks, TaskSound(t), SameVolume, op'[t] = op[t], loc'[t] = loc[t],
           InEntry(t), InEntry(t)'
    PROVE /\ TaskSound(t)' /\ \A c : InProgress(t, c) => InProgress(t, c)'
  <1>1. Changing(t)' <=> Changing(t)
    BY DEF Changing
  <1>2. FreedVersion(t)' = FreedVersion(t) /\ FreedSize(t)' = FreedSize(t)
    BY DEF FreedVersion, FreedSize, SameVolume
  <1>3. pc[t] \in {"entryRead", "entryWrite"} /\ pc'[t] \in {"entryRead", "entryWrite"}
    BY DEF InEntry
  <1>4. LastEntry(t)' = LastEntry(t) /\ (Claiming(t)' <=> Claiming(t))
    BY <1>3 DEF LastEntry, Linking, Claiming
  <1>5. SlotFound(t)'
    BY <1>1, <1>3 DEF TaskSound, SlotFound, SameVolume
  <1>6. FreeingSound(t)'
    BY <1>2, <1>3 DEF TaskSound, FreeingSound, Emptied, SameVolume
  <1>7. BuildingSound(t)'
    BY <1>1, <1>3, <1>4 DEF TaskSound, BuildingSound, SameVolume
  <1>8. FailingSound(t)'
    BY <1>1, <1>3 DEF TaskSound, FailingSound, SameVolume
  <1>9. ClaimSound(t)'
    <2>1. \A n : Kept(n)' => Kept(n)
      BY KeptSame DEF SameVolume
    <2> QED
      BY <1>3, <1>4, <2>1 DEF TaskSound, ClaimSound, SameVolume
  <1>10. ReadingSound(t)'
    BY <1>3 DEF TaskSound, ReadingSound, SameVolume
  <1>11. \A c : InProgress(t, c) => InProgress(t, c)'
    BY <1>1, <1>2, <1>3, <1>4 DEF InProgress, SameVolume
  <1> QED
    BY <1>5, <1>6, <1>7, <1>8, <1>9, <1>10, <1>11 DEF TaskSound

LEMMA EntryReadSound ==
    ASSUME OneTask, TypeInv, FileInv, NEW t \in Tasks, EntryRead(t)
    PROVE FileInv'
  <1>1. /\ pc[t] = "entryRead" /\ pc'[t] = "entryWrite" /\ loc'[t] = loc[t] /\ op'[t] = op[t]
        /\ sector'[t] = fat[loc[t].copy] /\ \A u \in Tasks : u = t
    <2>1. pc'[t] = "entryWrite" /\ loc'[t] = loc[t]
      BY GotoMoves, TaskFacts DEF EntryRead, Labels
    <2>2. sector'[t] = fat[loc[t].copy]
      BY TaskFacts DEF EntryRead, PerTask
    <2>3. pc[t] = "entryRead" /\ op' = op
      BY DEF EntryRead
    <2>4. \A u \in Tasks : u = t
      BY DEF OneTask
    <2> QED
      BY <2>1, <2>2, <2>3, <2>4
  <1>2. SameVolume /\ fat' = fat /\ ops' = ops /\ spoiled' = spoiled /\ errors' = errors /\ kills' = kills
    BY DEF EntryRead, SameVolume, diskVars, ghosts
  <1>3. SectorsFresh'
    BY <1>1, <1>2 DEF SectorsFresh
  <1>4. InEntry(t) /\ InEntry(t)'
    BY <1>1 DEF InEntry
  <1>5. CopiesInv'
    BY <1>1, <1>2, <1>4 DEF FileInv, CopiesInv, HalfWritten
  <1>6. ASSUME spoiled' = 0 PROVE TaskSound(t)' /\ NothingLeaked'
    <2>1. TaskSound(t) /\ NothingLeaked
      BY <1>2, <1>6, SoundFacts
    <2> QED
      BY <1>1, <1>2, <1>4, <2>1, SameCallSound, LeaksSame
  <1> QED
    BY <1>1, <1>2, <1>3, <1>5, <1>6, QuietStep

\* A chain of no clusters leads anywhere.
LEMMA RestEmpty ==
    ASSUME NEW f, NEW d \in Contents, NEW v, NEW x
    PROVE Rest(f, d, v, 1, 0, x)
  <1>1. \A c \in Clusters : d[c][2] \in Nat
    BY DEF Contents, Tags
  <1> QED
    BY <1>1 DEF Rest

LEMMA WriteEntryDoes ==
    ASSUME TypeInv, NEW t \in Tasks, NEW v \in Locals, NEW c \in Starts, NEW e \in Entries,
           NEW why \in Whys, WriteEntry(t, c, e, why, v), UNCHANGED <<op, sector>>
    PROVE LET w == loc'[t] IN
          /\ pc'[t] = "entryRead" /\ op'[t] = op[t]
          /\ w.copy = 1 /\ w.value = <<c, e>> /\ w.why = why
          /\ SameFile(v, w) /\ SameChain(v, w)
          /\ w.cluster = v.cluster /\ w.next = v.next /\ w.ret = v.ret /\ w.got = v.got
  <1> PICK w : w = Calling(v, c, e, why)
    OBVIOUS
  <1>1. Goto(t, "entryRead", w)
    BY DEF WriteEntry, Calling
  <1>2. pc'[t] = "entryRead" /\ op'[t] = op[t] /\ loc'[t] = w
    BY <1>1, Moves, TaskFacts DEF Labels
  <1> QED
    BY <1>2, CallingTyped

LEMMA FreeNextDoes ==
    ASSUME TypeInv, NEW t \in Tasks, NEW v \in Locals, FreeNext(t, v), UNCHANGED <<op, sector>>
    PROVE LET w == loc'[t] IN
          /\ pc'[t] = IF v.next \in Clusters THEN "freeRead" ELSE v.ret
          /\ op'[t] = op[t] /\ w.cluster = IF v.next \in Clusters THEN v.next ELSE 2
          /\ SameFile(v, w) /\ SameChain(v, w) /\ w.ret = v.ret /\ w.got = v.got
  <1>1. v.ret \in Labels
    BY LocalsFields
  <1>2. CASE v.next \in Clusters
    <2>1. v.next \in Nat /\ Goto(t, "freeRead", At(v, v.next))
      BY <1>2, ClusterNumbers DEF FreeNext, InChain, At
    <2>2. pc'[t] = "freeRead" /\ op'[t] = op[t] /\ loc'[t] = At(v, v.next)
      BY <2>1, Moves, TaskFacts DEF Labels
    <2> QED
      BY <1>2, <2>1, <2>2, AtTyped
  <1>3. CASE v.next \notin Clusters
    <2>1. 2 \in Nat /\ Goto(t, v.ret, At(v, 2))
      BY <1>3 DEF FreeNext, InChain, At
    <2>2. pc'[t] = v.ret /\ op'[t] = op[t] /\ loc'[t] = At(v, 2)
      BY <1>1, <2>1, Moves, TaskFacts
    <2> QED
      BY <1>3, <2>1, <2>2, AtTyped
  <1> QED
    BY <1>2, <1>3

\* The chain being freed is the old one or what was built.
LEMMA FreedSame ==
    ASSUME NEW t \in Tasks, op'[t] = op[t], loc'[t].ret = loc[t].ret, loc'[t].i = loc[t].i, saved' = saved,
           loc'[t].reach = loc[t].reach
    PROVE FreedVersion(t)' = FreedVersion(t) /\ FreedSize(t)' = FreedSize(t)
  BY DEF FreedVersion, FreedSize, Reach

LEMMA FreedTyped ==
    ASSUME TypeInv, NEW t \in Tasks, Changing(t)
    PROVE FreedSize(t) \in Nat /\ Reach(loc[t]) \in Nat
  <1>1. op[t].name \in Names /\ loc[t].reach \in Nat /\ loc[t].i \in Nat
    BY ChangingFacts, TaskFacts, LocalsFields, Fat16Assumption
  <1> QED
    BY <1>1, SavedTyped DEF FreedSize, Reach

\* Where a freed cluster's chain ends, its caller goes on.
LEMMA FreeDoneSound ==
    ASSUME OneTask, TypeInv, NEW t \in Tasks, NEW v, v = loc[t], Changing(t), TaskSound(t), SameVolume,
           pc[t] = "freeRead" \/ (InEntry(t) /\ v.why = "free"),
           op'[t] = op[t], pc'[t] = v.ret, SameFile(v, loc'[t]), SameChain(v, loc'[t]),
           loc'[t].ret = v.ret
    PROVE TaskSound(t)'
  <1>1. /\ v.ret \in {AfterFree(t), "fail"} /\ AfterFree(t) \in {"allocRead", "dirRead"}
        /\ (AfterFree(t) = "dirRead" => op[t].size = 0)
    <2>1. PlaceTyped(t) /\ op[t].size \in Nat /\ (op[t].kind = "delete" => op[t].size = 0)
      BY TaskFacts, ChangingFacts
    <2>2. op[t].kind \in {"write", "delete"}
      BY DEF Changing
    <2> QED
      BY <2>1, <2>2 DEF PlaceTyped, AfterFree
  <1>2. pc'[t] \in {"allocRead", "dirRead", "fail"} /\ (pc'[t] = "dirRead" => op[t].size = 0)
        /\ (pc'[t] = "fail" <=> v.ret = "fail")
    BY <1>1
  <1>3. Changing(t)' /\ ~ InEntry(t)' /\ ~ Claiming(t)' /\ LastEntry(t)' = FAT_ENTRY_END
    BY <1>2 DEF Changing, InEntry, Claiming, LastEntry, Linking
  <1>4. ~ Linking(t) /\ LastEntry(t) = FAT_ENTRY_END /\ pc[t] # "data"
    BY DEF Linking, LastEntry, InEntry
  <1>5. SlotFound(t)'
    <2>1. SlotFound(t) /\ pc[t] # "scan" /\ loc'[t].slot = v.slot /\ loc'[t].old = v.old
      BY DEF TaskSound, SameFile, InEntry
    <2> QED
      BY <1>2, <1>3, <2>1 DEF SlotFound, SameVolume
  <1>6. FreeingSound(t)'
    BY <1>2, <1>3 DEF FreeingSound
  <1>7. BuildingSound(t)'
    <2>1. BuildingSound(t) /\ loc'[t].i = v.i /\ loc'[t].first = v.first /\ loc'[t].prev = v.prev
          /\ Reach(loc'[t]) = Reach(v)
      BY DEF TaskSound, SameChain, SameFile, Reach
    <2>2. v.ret # "fail" =>
             /\ Rest(fat[1], disk, op[t].version, 1, Reach(v), FAT_ENTRY_END)
             /\ \A c \in Clusters : disk[c][1] = op[t].version => fat[1][c] # FAT_ENTRY_FREE
             /\ v.i = 0 /\ v.first = 0
      BY <1>4, <2>1 DEF BuildingSound
    <2> QED
      BY <1>2, <1>3, <2>1, <2>2 DEF BuildingSound, SameVolume
  <1>8. FailingSound(t)'
    <2>1. FailingSound(t) /\ loc'[t].old = v.old /\ loc'[t].i = v.i
      BY DEF TaskSound, SameFile, SameChain
    <2> QED
      BY <1>2, <1>3, <2>1 DEF FailingSound, SameVolume
  <1>9. ClaimSound(t)' /\ ReadingSound(t)'
    BY <1>2, <1>3 DEF ClaimSound, ReadingSound
  <1> QED
    BY <1>5, <1>6, <1>7, <1>8, <1>9 DEF TaskSound

\* The next cluster of the chain is freed.
LEMMA FreeNextSound ==
    ASSUME OneTask, TypeInv, NEW t \in Tasks, NEW v \in Locals, v = loc[t], InEntry(t), v.why = "free",
           FreeNext(t, v), UNCHANGED <<op, sector>>, TaskSound(t), SameVolume
    PROVE TaskSound(t)'
  <1>1. /\ Changing(t)
        /\ pc'[t] = IF v.next \in Clusters THEN "freeRead" ELSE v.ret
        /\ op'[t] = op[t] /\ loc'[t].cluster = IF v.next \in Clusters THEN v.next ELSE 2
        /\ SameFile(v, loc'[t]) /\ SameChain(v, loc'[t]) /\ loc'[t].ret = v.ret
    BY FreeNextDoes, TaskFacts DEF PlaceTyped, InEntry
  <1>2. CASE v.next \notin Clusters
    BY <1>1, <1>2, FreeDoneSound
  <1>3. CASE v.next \in Clusters
    <2>1. pc'[t] = "freeRead" /\ loc'[t].cluster = v.next /\ Changing(t)' /\ ~ InEntry(t)' /\ ~ Claiming(t)'
          /\ LastEntry(t)' = FAT_ENTRY_END /\ LastEntry(t) = FAT_ENTRY_END
          /\ loc'[t].slot = v.slot /\ loc'[t].old = v.old /\ loc'[t].i = v.i /\ loc'[t].reach = v.reach
          /\ loc'[t].first = v.first /\ loc'[t].prev = v.prev /\ pc[t] # "data" /\ pc[t] # "scan"
      BY <1>1, <1>3 DEF InEntry, Claiming, LastEntry, Linking, Changing, SameFile, SameChain
    <2>2. FreedVersion(t)' = FreedVersion(t) /\ FreedSize(t)' = FreedSize(t)
      BY <1>1, <2>1, FreedSame DEF SameVolume
    <2>3. FreeingSound(t)'
      <3>1. /\ disk[v.cluster][1] = FreedVersion(t) /\ FreedVersion(t) # 0
            /\ (v.ret # "fail" => v.old # 0 /\ op[t].name \notin stale)
            /\ disk[v.cluster][2] < FreedSize(t)
            /\ Rest(fat[1], disk, FreedVersion(t), disk[v.cluster][2] + 1, FreedSize(t), FAT_ENTRY_END)
            /\ disk[v.next] = <<FreedVersion(t), disk[v.cluster][2] + 1>>
        BY <1>3, ClusterNumbers DEF TaskSound, FreeingSound
      <3>2. disk[v.next][1] = FreedVersion(t) /\ disk[v.next][2] = disk[v.cluster][2] + 1
        BY <3>1
      <3>3. disk[v.next][2] <= FreedSize(t)
        <4>1. v.cluster \in Clusters
          BY TaskFacts DEF CallTyped
        <4>2. disk[v.cluster][2] \in Nat /\ FreedSize(t) \in Nat
          BY <1>1, <4>1, TablesTyped, FreedTyped
        <4> QED
          BY <3>1, <3>2, <4>2
      <3> QED
        BY <1>1, <2>1, <2>2, <3>1, <3>2, <3>3 DEF FreeingSound, SameVolume
    <2>4. SlotFound(t)'
      BY <1>1, <2>1 DEF TaskSound, SlotFound, SameVolume, Changing
    <2>5. BuildingSound(t)'
      <3>1. Reach(loc'[t]) = Reach(v)
        BY <2>1 DEF Reach
      <3> QED
        BY <1>1, <2>1, <3>1 DEF TaskSound, BuildingSound, SameVolume, Changing
    <2>6. FailingSound(t)'
      BY <1>1, <2>1 DEF TaskSound, FailingSound, SameVolume
    <2>7. ClaimSound(t)' /\ ReadingSound(t)'
      BY <2>1 DEF ClaimSound, ReadingSound
    <2> QED
      BY <2>3, <2>4, <2>5, <2>6, <2>7 DEF TaskSound
  <1> QED
    BY <1>2, <1>3

\* No cluster of the freed chain is behind its end, when no access has failed.
LEMMA FreedBound ==
    ASSUME TypeInv, VersionsFresh, ReachSound, errors = 0, NEW t \in Tasks, Changing(t),
           NEW c \in Clusters, disk[c][1] = FreedVersion(t), FreedVersion(t) # 0
    PROVE disk[c][2] <= FreedSize(t)
  <1>1. op[t].name \in Names /\ pc[t] # "idle"
    BY ChangingFacts
  <1>2. CASE loc[t].ret = "fail"
    <2>1. loc[t].reach = 0
      BY DEF ReachSound, LinksSound
    <2> QED
      BY <1>1, <1>2, <2>1 DEF VersionsFresh, FreedVersion, FreedSize, Reach
  <1>3. CASE loc[t].ret # "fail"
    BY <1>1, <1>3 DEF ReachSound, FreedVersion, FreedSize
  <1> QED
    BY <1>2, <1>3

\* No cluster of the freed chain is left behind.
LEMMA FreeNextLeaks ==
    ASSUME OneTask, TypeInv, VersionsFresh, ReachSound, NothingLeaked, NEW t \in Tasks, NEW v \in Locals,
           v = loc[t], InEntry(t), v.why = "free", v.copy = 2,
           FreeNext(t, v), UNCHANGED <<op, sector>>, TaskSound(t), SameVolume,
           errors' = 0 /\ kills' = 0 => errors = 0 /\ kills = 0
    PROVE NothingLeaked'
  <1>1. /\ Changing(t)
        /\ pc'[t] = IF v.next \in Clusters THEN "freeRead" ELSE v.ret
        /\ op'[t] = op[t] /\ loc'[t].cluster = IF v.next \in Clusters THEN v.next ELSE 2
        /\ SameFile(v, loc'[t]) /\ SameChain(v, loc'[t]) /\ loc'[t].ret = v.ret
    BY FreeNextDoes, TaskFacts DEF PlaceTyped, InEntry
  <1>2. FreedVersion(t)' = FreedVersion(t) /\ loc'[t].old = loc[t].old /\ Changing(t)'
    BY <1>1, FreedSame DEF SameVolume, SameFile, SameChain, Changing
  <1>3. ~ Emptied(t) =>
        /\ disk[v.cluster][1] = FreedVersion(t) /\ FreedVersion(t) # 0
        /\ Rest(fat[1], disk, FreedVersion(t), disk[v.cluster][2] + 1, FreedSize(t), FAT_ENTRY_END)
        /\ IF v.next \in Clusters THEN disk[v.next] = <<FreedVersion(t), disk[v.cluster][2] + 1>>
           ELSE disk[v.cluster][2] = FreedSize(t)
        /\ fat[1][v.cluster] = FAT_ENTRY_FREE
    BY DEF TaskSound, FreeingSound
  <1>5. v.cluster \in Clusters
    BY TaskFacts DEF CallTyped
  <1>4. ASSUME errors = 0, NEW c \in Clusters, fat[1][c] # FAT_ENTRY_FREE, InProgress(t, c)
        PROVE InProgress(t, c)'
    <2>1. CASE /\ v.ret = "fail" \/ op[t].name \notin stale
               /\ disk[c][1] = FreedVersion(t) /\ disk[c][2] >= disk[v.cluster][2]
      <3>0. ~ Emptied(t)
        BY <2>1 DEF Emptied
      <3>1. disk[c][2] # disk[v.cluster][2]
        <4>1. c # v.cluster
          BY <1>3, <1>4, <3>0
        <4>2. disk[c] # disk[v.cluster]
          BY <1>3, <1>5, <2>1, <3>0, <4>1 DEF VersionsFresh
        <4> QED
          BY <1>3, <1>5, <2>1, <3>0, <4>2, TablesTyped
      <3>2. disk[c][2] \in Nat /\ disk[v.cluster][2] \in Nat
        BY <1>5, TablesTyped
      <3>3. disk[c][2] >= disk[v.cluster][2] + 1
        BY <2>1, <3>1, <3>2
      <3>4. v.next \in Clusters
        <4>1. disk[c][2] <= FreedSize(t)
          BY <1>1, <1>3, <1>4, <2>1, <3>0, FreedBound
        <4> QED
          BY <1>3, <3>0, <3>2, <3>3, <4>1
      <3>5. pc'[t] = "freeRead" /\ disk'[loc'[t].cluster][2] = disk[v.cluster][2] + 1
        BY <1>1, <1>3, <3>0, <3>4 DEF SameVolume
      <3> QED
        BY <1>1, <1>2, <2>1, <3>3, <3>5 DEF InProgress, SameVolume
    <2>2. CASE v.ret # "fail" /\ disk[c][1] = op[t].version
      BY <1>1, <1>2, <2>2 DEF InProgress, SameVolume
    <2> QED
      BY <1>4, <2>1, <2>2 DEF InProgress, Claiming, InEntry
  <1> QED
    BY <1>1, <1>2, <1>4, LeaksSame

\* A claimed cluster starts the chain, or is linked to the one before.
LEMMA ClaimedDoes ==
    ASSUME TypeInv, NEW t \in Tasks, NEW v \in Locals, v = loc[t], Claimed(t, v), InEntry(t),
           v.why = "claim", UNCHANGED <<op, sector>>
    PROVE LET w == loc'[t] IN
          /\ op'[t] = op[t] /\ SameFile(v, w) /\ w.i = v.i /\ w.prev = v.prev
          /\ w.cluster = v.cluster /\ w.next = v.next /\ w.ret = v.ret /\ w.got = v.got
          /\ v.first = 0 => pc'[t] = "data" /\ w.first = v.cluster
          /\ v.first # 0 => pc'[t] = "entryRead" /\ w.why = "link" /\ w.copy = 1
                            /\ w.first = v.first /\ w.value = <<v.prev, v.cluster>>
  <1>1. v.cluster \in Clusters /\ v.cluster \in Starts /\ v.cluster \in Entries /\ v.prev \in Starts
    BY TaskFacts, ClusterNumbers, LocalsFields DEF CallTyped, Starts
  <1>2. CASE v.first = 0
    <2>1. Goto(t, "data", Begun(v, v.cluster))
      BY <1>2 DEF Claimed, Begun
    <2>2. pc'[t] = "data" /\ op'[t] = op[t] /\ loc'[t] = Begun(v, v.cluster)
      BY <2>1, Moves, TaskFacts DEF Labels
    <2> QED
      BY <1>1, <1>2, <2>2, BegunTyped
  <1>3. CASE v.first # 0
    <2>1. WriteEntry(t, v.prev, v.cluster, "link", v) /\ "link" \in Whys
      BY <1>3 DEF Claimed, Whys
    <2> QED
      BY <1>1, <1>3, <2>1, WriteEntryDoes DEF SameChain
  <1> QED
    BY <1>2, <1>3

LEMMA ClaimedSound ==
    ASSUME OneTask, TypeInv, NEW t \in Tasks, NEW v \in Locals, v = loc[t], Claimed(t, v), InEntry(t),
           v.why = "claim", v.copy = 2, UNCHANGED <<op, sector>>, TaskSound(t), LinksSound(t),
           SameVolume
    PROVE TaskSound(t)' /\ \A c : InProgress(t, c) => InProgress(t, c)'
  <1> PICK w : w = loc'[t]
    OBVIOUS
  <1>1. /\ op'[t] = op[t] /\ w.slot = v.slot /\ w.old = v.old /\ w.i = v.i /\ w.prev = v.prev
        /\ w.cluster = v.cluster /\ w.next = v.next /\ w.ret = v.ret /\ w.got = v.got /\ w.reach = v.reach
        /\ v.first = 0 => pc'[t] = "data" /\ w.first = v.cluster
        /\ v.first # 0 => pc'[t] = "entryRead" /\ w.why = "link" /\ w.copy = 1 /\ w.first = v.first
    BY ClaimedDoes DEF SameFile
  <1>2. Changing(t) /\ Changing(t)' /\ pc'[t] \in {"data", "entryRead"}
        /\ pc[t] \in {"entryRead", "entryWrite"}
    BY <1>1, TaskFacts DEF PlaceTyped, InEntry, Changing
  <1>3. LastEntry(t) = FAT_ENTRY_END /\ Claiming(t)
    BY <1>2 DEF LastEntry, Linking, Claiming, InEntry
  <1>4. LastEntry(t)' = (IF v.first = 0 /\ v.reach = 0 THEN v.cluster ELSE FAT_ENTRY_END) /\ Claiming(t)'
        /\ (InEntry(t)' <=> v.first # 0)
    BY <1>1, <1>2 DEF LastEntry, Linking, Claiming, InEntry
  <1>5. v.ret # "fail"
    BY <1>2 DEF TaskSound, FailingSound, InEntry
  <1>6. SlotFound(t)'
    BY <1>1, <1>2 DEF TaskSound, SlotFound, SameVolume
  <1>7. FreeingSound(t)'
    BY <1>1, <1>2, <1>4 DEF FreeingSound
  <1>8. BuildingSound(t)'
    <2>1. /\ Rest(fat[1], disk, op[t].version, 1, Reach(v), FAT_ENTRY_END)
          /\ \A c \in Clusters : disk[c][1] = op[t].version => fat[1][c] # FAT_ENTRY_FREE
          /\ v.i = 0 => v.first = 0
          /\ v.i > 0 => /\ v.first \in Clusters /\ v.prev \in Clusters
                        /\ disk[v.first] = <<op[t].version, 1>> /\ disk[v.prev] = <<op[t].version, v.i>>
      BY <1>2, <1>3, <1>5 DEF TaskSound, BuildingSound
    <2>2. v.i \in 0..(MaxSize + 1) /\ v.i \in Nat
      BY LocalsFields, Fat16Assumption
    <2>3. v.first = 0 <=> v.i = 0
      BY <2>1, <2>2, ClusterNumbers
    <2>4. Rest(fat[1], disk, op[t].version, 1, Reach(v), LastEntry(t)') /\ Reach(w) = Reach(v)
      <3>1. v.first = 0 => Reach(v) = 0 /\ v.reach = 0
        BY <1>2, <2>2, <2>3, LocalsFields DEF LinksSound, Reach
      <3>2. Reach(w) = Reach(v)
        BY <1>1 DEF Reach
      <3>3. CASE v.first = 0
        BY <3>1, <3>2, <3>3, RestEmpty, TablesTyped
      <3>4. CASE v.first # 0
        BY <1>4, <2>1, <3>2, <3>4
      <3> QED
        BY <3>3, <3>4
    <2> QED
      BY <1>1, <1>2, <1>4, <2>1, <2>2, <2>3, <2>4 DEF BuildingSound, SameVolume
  <1>9. FailingSound(t)'
    BY <1>1, <1>2, <1>5 DEF FailingSound
  <1>10. ClaimSound(t)'
    <2>1. \A n \in Names : Kept(n)' => Kept(n)
      BY <1>1, KeptSame DEF SameVolume
    <2> QED
      BY <1>1, <1>2, <1>3, <1>4, <2>1 DEF TaskSound, ClaimSound, SameVolume
  <1>11. ReadingSound(t)'
    BY <1>2 DEF ReadingSound
  <1>12. \A c : InProgress(t, c) => InProgress(t, c)'
    BY <1>1, <1>2, <1>3, <1>4, <1>5 DEF InProgress, SameVolume, InEntry
  <1> QED
    BY <1>6, <1>7, <1>8, <1>9, <1>10, <1>11, <1>12 DEF TaskSound

\* Linked or ended in both copies.
LEMMA LinkedSound ==
    ASSUME OneTask, TypeInv, NEW t \in Tasks, NEW v \in Locals, v = loc[t], InEntry(t),
           \/ v.why = "link" /\ v.copy = 2 /\ Goto(t, "data", v)
           \/ v.why = "end" /\ Goto(t, "dirRead", v),
           UNCHANGED <<op, sector>>, TaskSound(t), SameVolume
    PROVE TaskSound(t)' /\ \A c : InProgress(t, c) => InProgress(t, c)'
  <1>1. /\ op'[t] = op[t] /\ loc'[t] = v
        /\ pc'[t] = IF v.why = "link" THEN "data" ELSE "dirRead"
    BY Moves, TaskFacts DEF Labels
  <1>2. Changing(t) /\ Changing(t)' /\ pc'[t] \in {"data", "dirRead"}
        /\ pc[t] \in {"entryRead", "entryWrite"}
    BY <1>1, TaskFacts DEF PlaceTyped, InEntry, Changing
  <1>3. /\ LastEntry(t)' = LastEntry(t) /\ (Claiming(t)' <=> Claiming(t)) /\ ~ InEntry(t)'
        /\ v.why \in {"link", "end"} /\ (Claiming(t)' => pc'[t] = "data")
    BY <1>1, <1>2 DEF LastEntry, Linking, Claiming, InEntry
  <1>4. SlotFound(t)'
    BY <1>1, <1>2 DEF TaskSound, SlotFound, SameVolume
  <1>5. FreeingSound(t)' /\ ReadingSound(t)'
    BY <1>2, <1>3 DEF FreeingSound, ReadingSound
  <1>6. v.ret # "fail"
    BY <1>2, <1>3 DEF TaskSound, FailingSound, InEntry
  <1>7. BuildingSound(t)'
    <2>1. v.why = "link" => v.first # 0
      BY TaskFacts DEF CallTyped
    <2>2. BuildingSound(t)
      BY DEF TaskSound
    <2> QED
      BY <1>1, <1>2, <1>3, <1>6, <2>1, <2>2 DEF BuildingSound, SameVolume
  <1>8. FailingSound(t)'
    BY <1>1, <1>2, <1>6 DEF FailingSound
  <1>9. ClaimSound(t)'
    <2>1. \A n \in Names : Kept(n)' => Kept(n)
      BY <1>1, KeptSame DEF SameVolume
    <2> QED
      BY <1>1, <1>2, <1>3, <2>1 DEF TaskSound, ClaimSound, SameVolume
  <1>10. \A c : InProgress(t, c) => InProgress(t, c)'
    BY <1>1, <1>2, <1>3, <1>6 DEF InProgress, SameVolume
  <1> QED
    BY <1>4, <1>5, <1>7, <1>8, <1>9, <1>10 DEF TaskSound

\* The first copy of an entry is written.
LEMMA FirstCopyDoes ==
    ASSUME TypeInv, NEW t \in Tasks, NEW v, v = loc[t], Goto(t, "entryRead", [v EXCEPT !.copy = 2]),
           UNCHANGED <<op, sector>>
    PROVE LET w == loc'[t] IN
          /\ pc'[t] = "entryRead" /\ op'[t] = op[t]
          /\ w.copy = 2 /\ w.value = v.value /\ w.why = v.why
          /\ SameFile(v, w) /\ SameChain(v, w)
          /\ w.cluster = v.cluster /\ w.next = v.next /\ w.ret = v.ret /\ w.got = v.got
  <1>1. Goto(t, "entryRead", SecondCopy(v)) /\ v \in Locals
    BY TaskFacts DEF SecondCopy
  <1>2. pc'[t] = "entryRead" /\ op'[t] = op[t] /\ loc'[t] = SecondCopy(v)
    BY <1>1, Moves, TaskFacts DEF Labels
  <1> QED
    BY <1>1, <1>2, SecondCopyTyped

\* No kept file has a cluster of the version that an operation frees or builds.
LEMMA KeptElsewhere ==
    ASSUME OneTask, TypeInv, FileInv, NEW t \in Tasks, Changing(t), pc[t] # "idle",
           NEW n \in Names, Kept(n)
    PROVE /\ saved[n].version # op[t].version
          /\ loc[t].ret # "fail" /\ loc[t].old # 0 => FreedVersion(t) # saved[n].version
          /\ loc[t].ret = "fail" => FreedVersion(t) # saved[n].version
  <1>1. saved[n].version # op[t].version
    BY DEF FileInv, VersionsFresh
  <1>2. ASSUME loc[t].ret # "fail", loc[t].old # 0 PROVE FreedVersion(t) # saved[n].version
    <2>1. op[t].name # n /\ op[t].name \in Names
      BY <1>2, SuspendedByTask, ChangingFacts DEF Kept
    <2> QED
      BY <1>2, <2>1 DEF FileInv, VersionsFresh, FreedVersion, Kept
  <1> QED
    BY <1>1, <1>2 DEF FreedVersion

\* What becomes of the chains when one entry of the first table changes, of a
\* cluster that is of no kept file.
LEMMA FilesOtherEntry ==
    ASSUME TypeInv, FilesSound, NEW c \in Clusters, NEW x,
           fat'[1] = With(fat[1], c, x), disk' = disk, root' = root, saved' = saved,
           \A n \in Names : Kept(n) => disk[c][1] # saved[n].version,
           \A n \in Names : Kept(n)' => Kept(n)
    PROVE FilesSound'
  <1>1. ASSUME NEW n \in Names, Kept(n)
        PROVE /\ Rest(fat'[1], disk, saved[n].version, 1, saved[n].reach, FAT_ENTRY_END)
              /\ \A a \in Clusters : disk[a][1] = saved[n].version => fat'[1][a] # FAT_ENTRY_FREE
    <2>1. Rest(fat[1], disk, saved[n].version, 1, saved[n].reach, FAT_ENTRY_END)
      BY <1>1 DEF FilesSound
    <2>2. disk[c][1] # saved[n].version
      BY <1>1
    <2>3. \A a \in Clusters : a # c => fat'[1][a] = fat[1][a]
      BY TablesTyped DEF Table, With
    <2>4. \A a \in Clusters : disk[a][1] = saved[n].version => fat'[1][a] # FAT_ENTRY_FREE
      BY <1>1, <2>2, <2>3 DEF FilesSound
    <2> QED
      BY <2>1, <2>2, <2>4, TablesTyped, RestOtherEntry
  <1> QED
    BY <1>1 DEF FilesSound

\* fat_write_entry has written the first copy.
FirstWritten(t) ==
    LET v == loc[t]
        w == loc'[t]
    IN /\ InEntry(t) /\ v.copy = 1 /\ pc'[t] = "entryRead" /\ op'[t] = op[t]
       /\ w.copy = 2 /\ w.value = v.value /\ w.why = v.why
       /\ w.slot = v.slot /\ w.old = v.old /\ w.first = v.first /\ w.prev = v.prev /\ w.i = v.i
       /\ w.cluster = v.cluster /\ w.next = v.next /\ w.ret = v.ret /\ w.reach = v.reach
       /\ fat'[1] = With(fat[1], v.value[1], v.value[2])
       /\ disk' = disk /\ root' = root /\ saved' = saved /\ stale' = stale
       /\ errors' = errors /\ kills' = kills

LEMMA FirstKeeps ==
    ASSUME OneTask, TypeInv, FileInv, spoiled = 0, NEW t \in Tasks, FirstWritten(t)
    PROVE /\ Changing(t) /\ Changing(t)' /\ InEntry(t)' /\ pc[t] \in {"entryRead", "entryWrite"}
          /\ FreedVersion(t)' = FreedVersion(t) /\ FreedSize(t)' = FreedSize(t)
          /\ \A n \in Names : Kept(n)' <=> Kept(n)
          /\ SlotFound(t)' /\ FailingSound(t)' /\ ReadingSound(t)' /\ DirectorySound'
          /\ Claiming(t)' <=> Claiming(t)
          /\ LastEntry(t) = FAT_ENTRY_END
          /\ LastEntry(t)' = IF loc[t].why = "link" /\ loc[t].reach = 0 THEN loc[t].cluster
                             ELSE FAT_ENTRY_END
          /\ Reach(loc'[t]) = Reach(loc[t]) /\ ReachSound'
          /\ \A c : InProgress(t, c) => InProgress(t, c)'
  <1>1. /\ Changing(t) /\ Changing(t)' /\ InEntry(t)' /\ InEntry(t)
        /\ pc[t] \in {"entryRead", "entryWrite"} /\ pc'[t] = "entryRead"
    BY TaskFacts DEF FirstWritten, PlaceTyped, InEntry, Changing
  <1>2. FreedVersion(t)' = FreedVersion(t) /\ FreedSize(t)' = FreedSize(t)
    BY FreedSame DEF FirstWritten
  <1>3. \A n \in Names : Kept(n)' <=> Kept(n)
    BY KeptSame DEF FirstWritten
  <1>4. SlotFound(t)'
    <2>1. SlotFound(t)
      BY SoundFacts
    <2> QED
      BY <1>1, <2>1 DEF SlotFound, FirstWritten
  <1>5. FailingSound(t)'
    <2>1. FailingSound(t)
      BY SoundFacts
    <2> QED
      BY <1>1, <2>1 DEF FailingSound, FirstWritten
  <1>6. ReadingSound(t)'
    BY <1>1 DEF ReadingSound
  <1>7. DirectorySound'
    BY SoundFacts DEF DirectorySound, FirstWritten
  <1>8. (Claiming(t)' <=> Claiming(t)) /\ LastEntry(t) = FAT_ENTRY_END
        /\ LastEntry(t)' = IF loc[t].why = "link" /\ loc[t].reach = 0 THEN loc[t].cluster
                           ELSE FAT_ENTRY_END
    BY <1>1 DEF Claiming, LastEntry, Linking, FirstWritten
  <1>10. Reach(loc'[t]) = Reach(loc[t]) /\ ReachSound'
    <2>1. Reach(loc'[t]) = Reach(loc[t])
      BY DEF Reach, FirstWritten
    <2>2. LinksSound(t)'
      BY <1>1, SoundFacts DEF ReachSound, LinksSound, FirstWritten
    <2>3. ReachSound
      BY SoundFacts
    <2> QED
      BY <2>1, <2>2, <2>3, ReachSame DEF FirstWritten
  <1>9. \A c : InProgress(t, c) => InProgress(t, c)'
    BY <1>1, <1>2, <1>8 DEF InProgress, FirstWritten
  <1> QED
    BY <1>1, <1>2, <1>3, <1>4, <1>5, <1>6, <1>7, <1>8, <1>9, <1>10

\* What the entry that changes does not lead to leak: the cluster becomes free,
\* belongs to the operation, or was in use before.
LEMMA FirstLeaks ==
    ASSUME OneTask, TypeInv, FileInv, spoiled = 0, NEW t \in Tasks, FirstWritten(t),
           NEW c \in Clusters, c = loc[t].value[1],
           fat'[1][c] = FAT_ENTRY_FREE \/ InProgress(t, c)
    PROVE NothingLeaked'
  <1>1. \A u \in Tasks : u = t
    BY DEF OneTask
  <1>2. ASSUME NEW a \in Clusters, fat'[1][a] # FAT_ENTRY_FREE, errors' = 0, kills' = 0
        PROVE Accounted(a)'
    <2>1. CASE InProgress(t, a)
      BY <2>1, FirstKeeps DEF Accounted
    <2>2. CASE ~ InProgress(t, a)
      <3>1. a # c
        BY <1>2, <2>2
      <3>2. fat'[1][a] = fat[1][a]
        BY <3>1, TablesTyped DEF FirstWritten, Table, With
      <3>3. Accounted(a)
        BY <1>2, <3>2, SoundFacts DEF NothingLeaked, FirstWritten
      <3>4. PICK n \in Names : Kept(n) /\ disk[a][1] = saved[n].version
        BY <1>1, <2>2, <3>3 DEF Accounted
      <3>5. Kept(n)' /\ disk'[a][1] = saved'[n].version
        BY <3>4, FirstKeeps DEF FirstWritten
      <3> QED
        BY <3>5 DEF Accounted
    <2> QED
      BY <2>1, <2>2
  <1> QED
    BY <1>2 DEF NothingLeaked

\* A cluster of the chain that is being freed.
LEMMA FirstFree ==
    ASSUME OneTask, TypeInv, FileInv, spoiled = 0, NEW t \in Tasks, FirstWritten(t),
           NEW v, v = loc[t], v.why = "free"
    PROVE FilesSound' /\ TaskSound(t)' /\ NothingLeaked'
  <1> PICK c : c = v.cluster
    OBVIOUS
  <1>1. /\ c \in Clusters /\ v.value = <<c, FAT_ENTRY_FREE>>
        /\ fat'[1] = With(fat[1], c, FAT_ENTRY_FREE)
    BY TaskFacts DEF CallTyped, FirstWritten
  <1>2. \/ Emptied(t) /\ v.next = FAT_ENTRY_FREE
        \/ /\ disk[c][1] = FreedVersion(t) /\ FreedVersion(t) # 0 /\ disk[c][2] <= FreedSize(t)
           /\ v.ret # "fail" => v.old # 0 /\ op[t].name \notin stale
           /\ Rest(fat[1], disk, FreedVersion(t), disk[c][2] + 1, FreedSize(t), FAT_ENTRY_END)
           /\ IF v.next \in Clusters
              THEN disk[c][2] < FreedSize(t) /\ disk[v.next] = <<FreedVersion(t), disk[c][2] + 1>>
              ELSE disk[c][2] = FreedSize(t)
    BY SoundFacts DEF FreeingSound, FirstWritten
  <1>3. \A n \in Names : Kept(n) => disk[c][1] # saved[n].version
    <2>1. CASE Emptied(t)
      BY <1>1, <2>1, SoundFacts DEF Emptied, FilesSound
    <2>2. CASE ~ Emptied(t)
      BY <1>2, <2>2, FirstKeeps, KeptElsewhere DEF InEntry
    <2> QED
      BY <2>1, <2>2
  <1>4. FilesSound'
    BY <1>1, <1>3, SoundFacts, FirstKeeps, FilesOtherEntry DEF FirstWritten
  <1>5. fat'[1][c] = FAT_ENTRY_FREE
    BY <1>1, TablesTyped DEF Table, With
  <1>6. FreeingSound(t)'
    <2>1. disk[c][2] \in Nat /\ pc'[t] # "freeRead"
      BY <1>1, TablesTyped DEF FirstWritten
    <2>2. CASE Emptied(t) /\ v.next = FAT_ENTRY_FREE
      BY <1>5, <2>1, <2>2 DEF FreeingSound, Emptied, FirstWritten
    <2>3. CASE ~ Emptied(t)
      <3>1. Rest(fat'[1], disk, FreedVersion(t), disk[c][2] + 1, FreedSize(t), FAT_ENTRY_END)
        BY <1>1, <1>2, <2>1, <2>3, TablesTyped, RestOtherEntry
      <3> QED
        BY <1>2, <1>5, <2>1, <2>3, <3>1, FirstKeeps DEF FreeingSound, FirstWritten
    <2> QED
      BY <1>2, <2>2, <2>3 DEF Emptied
  <1>7. BuildingSound(t)'
    <2>1. ASSUME v.ret # "fail"
          PROVE /\ Rest(fat'[1], disk, op[t].version, 1, Reach(v), FAT_ENTRY_END)
                /\ \A a \in Clusters : disk[a][1] = op[t].version => fat'[1][a] # FAT_ENTRY_FREE
      <3>1. /\ Rest(fat[1], disk, op[t].version, 1, Reach(v), FAT_ENTRY_END)
            /\ \A a \in Clusters : disk[a][1] = op[t].version => fat[1][a] # FAT_ENTRY_FREE
        BY <2>1, SoundFacts, FirstKeeps DEF BuildingSound
      <3>2. disk[c][1] # op[t].version
        <4>1. CASE Emptied(t)
          BY <1>1, <3>1, <4>1 DEF Emptied
        <4>2. CASE ~ Emptied(t)
          <5>1. FreedVersion(t) # op[t].version
            BY <2>1, FirstKeeps, ChangingFacts DEF FileInv, VersionsFresh, FreedVersion
          <5> QED
            BY <1>2, <4>2, <5>1
        <4> QED
          BY <4>1, <4>2
      <3>3. \A a \in Clusters : a # c => fat'[1][a] = fat[1][a]
        BY <1>1, TablesTyped DEF Table, With
      <3> QED
        BY <1>1, <3>1, <3>2, <3>3, TablesTyped, RestOtherEntry
    <2> QED
      BY <2>1, SoundFacts, FirstKeeps DEF BuildingSound, FirstWritten
  <1>8. ClaimSound(t)'
    BY FirstKeeps DEF ClaimSound, Claiming, FirstWritten, InEntry
  <1>9. NothingLeaked'
    BY <1>1, <1>5, FirstLeaks
  <1> QED
    BY <1>4, <1>6, <1>7, <1>8, <1>9, FirstKeeps DEF TaskSound

\* A free cluster is claimed.
LEMMA FirstClaim ==
    ASSUME OneTask, TypeInv, FileInv, spoiled = 0, NEW t \in Tasks, FirstWritten(t),
           NEW v, v = loc[t], v.why = "claim"
    PROVE FilesSound' /\ TaskSound(t)' /\ NothingLeaked'
  <1> PICK c : c = v.cluster
    OBVIOUS
  <1>1. /\ c \in Clusters /\ v.value = <<c, FAT_ENTRY_END>>
        /\ fat'[1] = With(fat[1], c, FAT_ENTRY_END)
    BY TaskFacts DEF CallTyped, FirstWritten
  <1>2. Claiming(t)
    BY DEF Claiming, FirstWritten
  <1>3. /\ disk[c][1] # op[t].version
        /\ \A n \in Names : Kept(n) => disk[c][1] # saved[n].version
    BY <1>2, SoundFacts DEF ClaimSound
  <1>4. FilesSound'
    BY <1>1, <1>3, SoundFacts, FirstKeeps, FilesOtherEntry DEF FirstWritten
  <1>5. fat'[1][c] = FAT_ENTRY_END
    BY <1>1, TablesTyped DEF Table, With
  <1>6. FreeingSound(t)'
    BY FirstKeeps DEF FreeingSound, FirstWritten
  <1>7. BuildingSound(t)'
    <2>1. ASSUME v.ret # "fail"
          PROVE /\ Rest(fat'[1], disk, op[t].version, 1, Reach(v), FAT_ENTRY_END)
                /\ \A a \in Clusters : disk[a][1] = op[t].version => fat'[1][a] # FAT_ENTRY_FREE
      <3>1. /\ Rest(fat[1], disk, op[t].version, 1, Reach(v), FAT_ENTRY_END)
            /\ \A a \in Clusters : disk[a][1] = op[t].version => fat[1][a] # FAT_ENTRY_FREE
        BY <2>1, SoundFacts, FirstKeeps DEF BuildingSound
      <3>2. \A a \in Clusters : a # c => fat'[1][a] = fat[1][a]
        BY <1>1, TablesTyped DEF Table, With
      <3> QED
        BY <1>1, <1>3, <3>1, <3>2, TablesTyped, RestOtherEntry
    <2> QED
      BY <2>1, SoundFacts, FirstKeeps DEF BuildingSound, FirstWritten
  <1>8. ClaimSound(t)'
    BY <1>3, <1>5, FirstKeeps DEF ClaimSound, FirstWritten
  <1>9. NothingLeaked'
    <2>1. InProgress(t, c)
      BY <1>2, FirstKeeps DEF InProgress
    <2> QED
      BY <1>1, <2>1, FirstLeaks
  <1> QED
    BY <1>4, <1>6, <1>7, <1>8, <1>9, FirstKeeps DEF TaskSound

\* The last cluster of the chain is linked to the claimed one, or ends the chain.
LEMMA FirstLinkOrEnd ==
    ASSUME OneTask, TypeInv, FileInv, spoiled = 0, NEW t \in Tasks, FirstWritten(t),
           NEW v, v = loc[t], v.why \in {"link", "end"}
    PROVE FilesSound' /\ TaskSound(t)' /\ NothingLeaked'
  <1> PICK c : c = v.prev
    OBVIOUS
  <1> PICK x : x = v.value[2]
    OBVIOUS
  <1>1. /\ c \in Clusters /\ fat'[1] = With(fat[1], c, x) /\ c = v.value[1]
        /\ x = IF v.why = "link" THEN v.cluster ELSE FAT_ENTRY_END
        /\ v.why = "link" => v.first # 0 /\ v.cluster \in Clusters
        /\ x # FAT_ENTRY_FREE
    <2>1. CallTyped(t) /\ InEntry(t)
      BY TaskFacts DEF FirstWritten
    <2>2. v.value = <<c, IF v.why = "link" THEN v.cluster ELSE FAT_ENTRY_END>> /\ v.value[1] \in Clusters
      BY <2>1 DEF CallTyped
    <2>3. v.why = "link" => v.first # 0 /\ v.cluster \in Clusters
      BY <2>1, ClusterNumbers DEF CallTyped
    <2>4. x # FAT_ENTRY_FREE
      BY <2>2, <2>3, ClusterNumbers
    <2> QED
      BY <2>2, <2>3, <2>4 DEF FirstWritten
  <1>2. v.ret # "fail"
    BY SoundFacts, FirstKeeps DEF FailingSound, FirstWritten
  <1>3. /\ v.i > 0 /\ disk[c] = <<op[t].version, v.i>> /\ v.i \in Nat /\ v.reach \in Nat
        /\ Rest(fat[1], disk, op[t].version, 1, Reach(v), FAT_ENTRY_END)
        /\ \A a \in Clusters : disk[a][1] = op[t].version => fat[1][a] # FAT_ENTRY_FREE
    <2>1. v.i \in 0..(MaxSize + 1) /\ v.i \in Nat /\ v.reach \in Nat
      BY TaskFacts, LocalsFields, Fat16Assumption
    <2>2. pc[t] # "data" /\ InEntry(t)
      BY FirstKeeps DEF FirstWritten
    <2>3. BuildingSound(t)
      BY SoundFacts
    <2>4. v.i > 0
      BY <1>1, <1>2, <2>1, <2>2, <2>3, FirstKeeps DEF BuildingSound
    <2> QED
      BY <1>2, <2>1, <2>3, <2>4, FirstKeeps DEF BuildingSound
  <1>4. op[t].version # 0 /\ pc[t] # "idle"
    BY FirstKeeps, TaskFacts DEF FileInv, VersionsFresh
  <1>5. /\ Rest(fat'[1], disk, op[t].version, 1, Reach(v), LastEntry(t)')
        /\ \A a \in Clusters : disk[a][1] = op[t].version => fat'[1][a] # FAT_ENTRY_FREE
    <2>1. \A a \in Clusters : disk[a] = disk[c] => a = c
      BY <1>1, <1>3, <1>4 DEF FileInv, VersionsFresh
    <2>2. \A a \in Clusters : fat'[1][a] = IF a = c THEN x ELSE fat[1][a]
      BY <1>1, TablesTyped DEF Table, With
    <2>3. CASE v.reach = 0
      <3>1. LastEntry(t)' = x /\ Reach(v) = v.i
        BY <1>1, <2>3, FirstKeeps DEF Reach
      <3> QED
        BY <1>1, <1>3, <2>1, <2>2, <3>1, TablesTyped, RestLinked
    <2>4. CASE v.reach # 0
      <3>1. LastEntry(t)' = FAT_ENTRY_END /\ Reach(v) = v.reach
        BY <2>4, FirstKeeps DEF Reach
      <3>2. v.reach < v.i
        BY <2>4, SoundFacts, FirstKeeps DEF ReachSound, LinksSound
      <3>3. ~ (disk[c][2] <= Reach(v))
        BY <1>3, <3>1, <3>2
      <3> QED
        BY <1>1, <1>3, <2>2, <3>1, <3>3, TablesTyped, RestOtherEntry
    <2> QED
      BY <2>3, <2>4
  <1>6. FilesSound'
    <2>1. \A n \in Names : Kept(n) => disk[c][1] # saved[n].version
      BY <1>3, <1>4, FirstKeeps, KeptElsewhere
    <2> QED
      BY <1>1, <2>1, SoundFacts, FirstKeeps, FilesOtherEntry DEF FirstWritten
  <1>7. FreeingSound(t)'
    BY FirstKeeps DEF FreeingSound, FirstWritten
  <1>8. BuildingSound(t)'
    BY <1>2, <1>3, <1>5, SoundFacts, FirstKeeps DEF BuildingSound, FirstWritten
  <1>9. ClaimSound(t)'
    <2>1. CASE v.why = "end"
      BY <2>1 DEF ClaimSound, Claiming, FirstWritten, InEntry
    <2>2. CASE v.why = "link"
      <3>1. Claiming(t) /\ v.cluster \in Clusters
        BY <1>1, <2>2 DEF Claiming, FirstWritten
      <3>2. /\ disk[v.cluster][1] # op[t].version
            /\ \A n \in Names : Kept(n) => disk[v.cluster][1] # saved[n].version
            /\ fat[1][v.cluster] = FAT_ENTRY_END
        BY <2>2, <3>1, SoundFacts DEF ClaimSound
      <3>3. v.cluster # c
        BY <1>3, <3>2
      <3>4. fat'[1][v.cluster] = FAT_ENTRY_END
        BY <1>1, <3>1, <3>2, <3>3, TablesTyped DEF With, Table
      <3> QED
        BY <2>2, <3>2, <3>4, FirstKeeps DEF ClaimSound, FirstWritten
    <2> QED
      BY <2>1, <2>2
  <1>10. NothingLeaked'
    <2>1. InProgress(t, c)
      BY <1>2, <1>3, FirstKeeps DEF InProgress
    <2> QED
      BY <1>1, <2>1, FirstLeaks
  <1> QED
    BY <1>6, <1>7, <1>8, <1>9, <1>10, FirstKeeps DEF TaskSound

LEMMA EntryWriteSound ==
    ASSUME OneTask, TypeInv, FileInv, NEW t \in Tasks, EntryWrite(t)
    PROVE FileInv'
  <1> PICK v : v = loc[t]
    OBVIOUS
  <1>1. /\ pc[t] = "entryWrite" /\ InEntry(t) /\ v \in Locals /\ v.copy \in {1, 2}
        /\ v.value[1] \in Clusters /\ Changing(t) /\ \A u \in Tasks : u = t
    BY TaskFacts, LocalsFields DEF EntryWrite, InEntry, CallTyped, PlaceTyped, OneTask
  <1>2. /\ root' = root /\ disk' = disk /\ saved' = saved /\ ops' = ops /\ spoiled' = spoiled
        /\ stale' = stale /\ errors' = errors /\ kills' = kills /\ UNCHANGED <<op, sector>>
    BY DEF EntryWrite, ghosts
  <1>3. fat' = [fat EXCEPT ![v.copy] = Rewritten(fat[v.copy], v.value)]
    <2>1. sector[t] = fat[v.copy]
      BY <1>1 DEF FileInv, SectorsFresh
    <2> QED
      BY <2>1 DEF EntryWrite, Rewritten
  <1>4. CASE v.copy = 1 /\ Goto(t, "entryRead", [v EXCEPT !.copy = 2])
    <2>1. fat'[1] = Rewritten(fat[1], v.value) /\ fat'[2] = fat[2]
      BY <1>3, <1>4 DEF TypeInv, DiskTyped
    <2>2. FirstWritten(t)
      BY <1>1, <1>2, <1>4, <2>1, FirstCopyDoes
      DEF FirstWritten, SameFile, SameChain, Rewritten, With
    <2>3. SectorsFresh'
      BY <2>2, SectorsElsewhere DEF FirstWritten
    <2>4. CopiesInv'
      <3>1. errors = 0 /\ kills = 0 => fat[1] = fat[2]
        BY <1>1, <1>4 DEF FileInv, CopiesInv, HalfWritten
      <3>2. HalfWritten(t)' /\ loc'[t].value = v.value
        BY <2>2 DEF HalfWritten, InEntry, FirstWritten
      <3> QED
        BY <1>2, <2>1, <3>1, <3>2 DEF CopiesInv
    <2>5. VersionsFresh'
      BY <1>1, <1>2, <2>2, VersionsSame DEF FileInv, FirstWritten
    <2>6. ASSUME spoiled' = 0 PROVE ChainInv'
      <3>1. v.why \in {"free", "claim", "link", "end"}
        BY <1>1, TaskFacts, LocalsFields DEF Whys, CallTyped
      <3>2. FilesSound' /\ TaskSound(t)' /\ NothingLeaked' /\ DirectorySound' /\ ReachSound'
        BY <1>2, <2>2, <2>6, <3>1, FirstFree, FirstClaim, FirstLinkOrEnd, FirstKeeps
      <3> QED
        BY <1>1, <3>2 DEF ChainInv
    <2> QED
      BY <2>3, <2>4, <2>5, <2>6 DEF FileInv
  <1>5. CASE v.copy = 2 /\ Continue(t, v)
    <2>1. fat'[1] = fat[1] /\ fat'[2] = Rewritten(fat[2], v.value)
      BY <1>3, <1>5 DEF TypeInv, DiskTyped
    <2>2. SameVolume
      BY <1>2, <2>1 DEF SameVolume
    <2>3. /\ pc'[t] \in {"freeRead", "allocRead", "dirRead", "fail", "data", "entryRead"}
          /\ pc'[t] = "entryRead" => loc'[t].copy = 1
          /\ op'[t] = op[t] /\ loc'[t].old = v.old /\ loc'[t].i = v.i /\ loc'[t].reach = v.reach
          /\ pc[t] # "data"
      <3>1. CASE v.why = "free" /\ FreeNext(t, v)
        <4>1. v.ret \in {"allocRead", "dirRead", "fail"}
          BY <1>1, <3>1, TaskFacts DEF PlaceTyped, AfterFree
        <4> QED
          BY <1>1, <1>2, <3>1, <4>1, FreeNextDoes DEF SameFile, SameChain
      <3>2. CASE v.why = "claim" /\ Claimed(t, v)
        BY <1>1, <1>2, <3>2, ClaimedDoes DEF SameFile
      <3>3. CASE (v.why = "link" /\ Goto(t, "data", v)) \/ (v.why = "end" /\ Goto(t, "dirRead", v))
        BY <1>1, <1>2, <3>3, Moves, TaskFacts DEF Labels
      <3> QED
        BY <1>5, <3>1, <3>2, <3>3 DEF Continue
    <2>4. SectorsFresh'
      BY <2>3, SectorsElsewhere
    <2>5. CopiesInv'
      <3>1. ~ HalfWritten(t)'
        BY <2>3 DEF HalfWritten, InEntry
      <3>2. errors = 0 /\ kills = 0 => fat[1] = Rewritten(fat[2], v.value)
        BY <1>1, <1>5 DEF FileInv, CopiesInv, HalfWritten
      <3> QED
        BY <1>1, <1>2, <2>1, <3>1, <3>2 DEF CopiesInv
    <2>6. ASSUME spoiled' = 0 PROVE TaskSound(t)' /\ NothingLeaked'
      <3>1. TaskSound(t) /\ NothingLeaked /\ VersionsFresh /\ ReachSound /\ LinksSound(t)
        BY <1>2, <2>6, SoundFacts DEF FileInv, ReachSound
      <3>2. CASE v.why = "free" /\ FreeNext(t, v)
        BY <1>1, <1>2, <1>5, <2>2, <3>1, <3>2, FreeNextSound, FreeNextLeaks
      <3>3. CASE v.why = "claim" /\ Claimed(t, v)
        BY <1>1, <1>2, <1>5, <2>2, <2>3, <3>1, <3>3, ClaimedSound, LeaksSame
      <3>4. CASE (v.why = "link" /\ Goto(t, "data", v)) \/ (v.why = "end" /\ Goto(t, "dirRead", v))
        BY <1>1, <1>2, <1>5, <2>2, <2>3, <3>1, <3>4, LinkedSound, LeaksSame
      <3> QED
        BY <1>5, <3>2, <3>3, <3>4 DEF Continue
    <2> QED
      BY <1>1, <1>2, <2>2, <2>3, <2>4, <2>5, <2>6, QuietStep
  <1> QED
    BY <1>4, <1>5 DEF EntryWrite

\* fat_free_chain reads where the cluster leads before it frees it.
LEMMA FreeReadDoes ==
    ASSUME TypeInv, NEW t \in Tasks, FreeRead(t), NEW v, v = loc[t], NEW w, w = loc'[t]
    PROVE /\ pc[t] = "freeRead" /\ pc'[t] = "entryRead" /\ op'[t] = op[t]
          /\ Changing(t) /\ Changing(t)' /\ v \in Locals /\ v.cluster \in Clusters
          /\ w.copy = 1 /\ w.why = "free" /\ w.cluster = v.cluster /\ w.next = fat[1][v.cluster]
          /\ w.slot = v.slot /\ w.old = v.old /\ w.first = v.first /\ w.prev = v.prev /\ w.i = v.i
          /\ w.ret = v.ret /\ w.reach = v.reach
  <1>1. v \in Locals /\ v.cluster \in Clusters /\ pc[t] = "freeRead" /\ Changing(t)
    BY TaskFacts DEF FreeRead, PlaceTyped
  <1>2. fat[1][v.cluster] \in Entries
    BY <1>1, TablesTyped
  <1> PICK u : u = Followed(v, fat[1][v.cluster])
    OBVIOUS
  <1>3. /\ u \in Locals /\ SameFile(v, u) /\ SameChain(v, u) /\ u.cluster = v.cluster
        /\ u.ret = v.ret /\ u.next = fat[1][v.cluster]
    BY <1>1, <1>2, FollowedTyped
  <1>4. WriteEntry(t, u.cluster, FAT_ENTRY_FREE, "free", u) /\ UNCHANGED <<op, sector>>
    BY <1>3 DEF FreeRead, Followed
  <1>5. u.cluster \in Starts /\ FAT_ENTRY_FREE \in Entries /\ "free" \in Whys
    BY <1>1, <1>3, ClusterNumbers DEF Starts, Whys
  <1>6. /\ pc'[t] = "entryRead" /\ op'[t] = op[t]
        /\ w.copy = 1 /\ w.why = "free" /\ SameFile(u, w) /\ SameChain(u, w)
        /\ w.cluster = u.cluster /\ w.next = u.next /\ w.ret = u.ret
    BY <1>3, <1>4, <1>5, WriteEntryDoes
  <1>7. Changing(t)'
    BY <1>1, <1>6 DEF Changing
  <1> QED
    BY <1>1, <1>3, <1>6, <1>7 DEF SameFile, SameChain

LEMMA FreeReadSound ==
    ASSUME OneTask, TypeInv, FileInv, NEW t \in Tasks, FreeRead(t)
    PROVE FileInv'
  <1> PICK v : v = loc[t]
    OBVIOUS
  <1> PICK w : w = loc'[t]
    OBVIOUS
  <1>1. /\ pc[t] = "freeRead" /\ pc'[t] = "entryRead" /\ op'[t] = op[t]
        /\ Changing(t) /\ Changing(t)' /\ v \in Locals /\ v.cluster \in Clusters
        /\ w.copy = 1 /\ w.why = "free" /\ w.cluster = v.cluster /\ w.next = fat[1][v.cluster]
        /\ w.slot = v.slot /\ w.old = v.old /\ w.first = v.first /\ w.prev = v.prev /\ w.i = v.i
        /\ w.ret = v.ret /\ w.reach = v.reach
    BY FreeReadDoes
  <1>2. SameVolume /\ fat' = fat /\ ops' = ops /\ spoiled' = spoiled /\ errors' = errors /\ kills' = kills
    BY DEF FreeRead, SameVolume, diskVars, ghosts
  <1>3. ~ InEntry(t) /\ InEntry(t)' /\ ~ HalfWritten(t)' /\ ~ Claiming(t) /\ ~ Claiming(t)'
        /\ LastEntry(t) = FAT_ENTRY_END /\ LastEntry(t)' = FAT_ENTRY_END
    BY <1>1 DEF InEntry, HalfWritten, Claiming, LastEntry, Linking
  <1>4. SectorsFresh'
    BY <1>1, SectorsElsewhere
  <1>5. CopiesInv'
    BY <1>2, <1>3, CopiesSame DEF FileInv
  <1>6. FreedVersion(t)' = FreedVersion(t) /\ FreedSize(t)' = FreedSize(t)
    BY <1>1, <1>2, FreedSame DEF SameVolume
  <1>7. ASSUME spoiled' = 0 PROVE TaskSound(t)' /\ NothingLeaked'
    <2>1. /\ SlotFound(t) /\ FreeingSound(t) /\ BuildingSound(t) /\ FailingSound(t) /\ NothingLeaked
      BY <1>2, <1>7, SoundFacts
    <2>2. SlotFound(t)'
      BY <1>1, <1>2, <2>1 DEF SlotFound, SameVolume
    <2>3. FreeingSound(t)'
      <3>0. CASE Emptied(t)
        <4>1. Emptied(t)' /\ w.next = FAT_ENTRY_FREE
          BY <1>1, <1>2, <3>0 DEF Emptied, SameVolume
        <4> QED
          BY <1>1, <4>1 DEF FreeingSound
      <3>1. CASE ~ Emptied(t)
        <4>1. /\ disk[v.cluster][1] = FreedVersion(t) /\ FreedVersion(t) # 0
              /\ disk[v.cluster][2] <= FreedSize(t)
              /\ v.ret # "fail" => v.old # 0 /\ op[t].name \notin stale
              /\ Rest(fat[1], disk, FreedVersion(t), disk[v.cluster][2], FreedSize(t), FAT_ENTRY_END)
          BY <1>1, <2>1, <3>1 DEF FreeingSound
        <4> PICK k : k = disk[v.cluster][2]
          OBVIOUS
        <4>2. k \in Nat /\ FreedSize(t) \in Nat
          BY <1>1, TablesTyped, FreedTyped
        <4>3. Rest(fat[1], disk, FreedVersion(t), k + 1, FreedSize(t), FAT_ENTRY_END)
          BY <4>1, <4>2, TablesTyped, RestLater
        <4>4. /\ k < FreedSize(t) => fat[1][v.cluster] \in Clusters
                                     /\ disk[fat[1][v.cluster]] = <<FreedVersion(t), k + 1>>
              /\ k = FreedSize(t) => fat[1][v.cluster] = FAT_ENTRY_END
          <5>0. PICK f, z, y, c : f = fat[1] /\ z = FreedVersion(t) /\ y = FreedSize(t) /\ c = v.cluster
            OBVIOUS
          <5>1. disk[c][2] = k /\ c \in Clusters /\ disk[c][1] = z /\ disk[c][2] >= k /\ disk[c][2] <= y
                /\ Rest(f, disk, z, k, y, FAT_ENTRY_END)
            BY <1>1, <4>1, <4>2, <5>0
          <5>2. /\ disk[c][2] < y => f[c] \in Clusters /\ disk[f[c]] = <<z, disk[c][2] + 1>>
                /\ disk[c][2] = y => f[c] = FAT_ENTRY_END
            BY <5>1, RestAt
          <5> QED
            BY <5>0, <5>1, <5>2
        <4>5. IF w.next \in Clusters
              THEN k < FreedSize(t) /\ disk[w.next] = <<FreedVersion(t), k + 1>> ELSE k = FreedSize(t)
          BY <1>1, <4>1, <4>2, <4>4, ClusterNumbers
        <4> QED
          BY <1>1, <1>2, <1>6, <4>1, <4>3, <4>5 DEF FreeingSound, SameVolume
      <3> QED
        BY <3>0, <3>1
    <2>4. BuildingSound(t)'
      <3>1. Reach(w) = Reach(v)
        BY <1>1 DEF Reach
      <3> QED
        BY <1>1, <1>2, <1>3, <2>1, <3>1 DEF BuildingSound, SameVolume
    <2>5. FailingSound(t)'
      BY <1>1, <1>2, <2>1 DEF FailingSound, SameVolume
    <2>6. ClaimSound(t)' /\ ReadingSound(t)'
      BY <1>1, <1>3 DEF ClaimSound, ReadingSound
    <2>7. \A c : InProgress(t, c) => InProgress(t, c)'
      BY <1>1, <1>2, <1>3, <1>6 DEF InProgress, SameVolume
    <2>8. NothingLeaked'
      BY <1>1, <1>2, <2>1, <2>7, LeaksSame
    <2> QED
      BY <2>2, <2>3, <2>4, <2>5, <2>6, <2>8 DEF TaskSound
  <1> QED
    BY <1>1, <1>2, <1>4, <1>5, <1>7, QuietStep

\* What fat_alloc_cluster starts from.
LEMMA AllocFacts ==
    ASSUME TypeInv, FileInv, NEW t \in Tasks, spoiled = 0,
           pc[t] = "allocRead" \/ (InEntry(t) /\ loc[t].why = "claim"), NEW v, v = loc[t]
    PROVE /\ Changing(t) /\ v.ret # "fail" /\ op[t].version # 0 /\ v.i \in Nat
          /\ LastEntry(t) = FAT_ENTRY_END
          /\ Rest(fat[1], disk, op[t].version, 1, Reach(v), FAT_ENTRY_END)
          /\ \A c \in Clusters : disk[c][1] = op[t].version => fat[1][c] # FAT_ENTRY_FREE
          /\ v.first = 0 <=> v.i = 0
          /\ v.i > 0 => v.first \in Clusters /\ v.prev \in Clusters /\ Reach(v) \in Nat /\ Reach(v) >= 1
                        /\ disk[v.first] = <<op[t].version, 1>> /\ disk[v.prev] = <<op[t].version, v.i>>
          /\ \A c \in Clusters : disk[c][1] = op[t].version => disk[c][2] >= 1 /\ disk[c][2] <= v.i
  <1>1. Changing(t)
    BY TaskFacts DEF PlaceTyped, InEntry
  <1>2. op[t].version # 0 /\ pc[t] # "idle"
    BY <1>1, ChangingFacts, TaskFacts DEF FileInv, VersionsFresh
  <1>3. v.ret # "fail"
    BY <1>1, SoundFacts DEF FailingSound, InEntry
  <1>4. LastEntry(t) = FAT_ENTRY_END /\ pc[t] # "data"
    BY DEF LastEntry, Linking, InEntry
  <1>5. v.i \in 0..(MaxSize + 1) /\ v.i \in Nat /\ v.reach \in Nat
    BY TaskFacts, LocalsFields, Fat16Assumption
  <1>6. /\ Rest(fat[1], disk, op[t].version, 1, Reach(v), FAT_ENTRY_END)
        /\ \A c \in Clusters : disk[c][1] = op[t].version => fat[1][c] # FAT_ENTRY_FREE
        /\ v.i = 0 => v.first = 0
        /\ v.i > 0 => v.first \in Clusters /\ v.prev \in Clusters
                      /\ disk[v.first] = <<op[t].version, 1>> /\ disk[v.prev] = <<op[t].version, v.i>>
    <2>1. BuildingSound(t)
      BY SoundFacts
    <2> QED
      BY <1>1, <1>3, <1>4, <2>1 DEF BuildingSound
  <1>7. v.first = 0 <=> v.i = 0
    BY <1>5, <1>6, ClusterNumbers
  <1>8. \A c \in Clusters : disk[c][1] = op[t].version => disk[c][2] >= 1 /\ disk[c][2] <= v.i
    BY <1>1, <1>2 DEF FileInv, VersionsFresh
  <1>9. v.i > 0 => Reach(v) \in Nat /\ Reach(v) >= 1
    BY <1>5 DEF Reach
  <1> QED
    BY <1>1, <1>2, <1>3, <1>4, <1>5, <1>6, <1>7, <1>8, <1>9

\* fat16_write_file gives up with nothing allocated, or starts to free what it has.
LEMMA GiveUpSound ==
    ASSUME OneTask, TypeInv, FileInv, NEW t \in Tasks, GiveUp(t, loc[t]), UNCHANGED diskVars,
           saved' = saved, ops' = ops, spoiled' = spoiled, errors' = 0 => errors = 0,
           pc[t] = "allocRead" \/ (InEntry(t) /\ loc[t].why = "claim"),
           errors' = 0 /\ kills' = 0 => errors = 0 /\ kills = 0 /\ pc[t] = "allocRead"
    PROVE FileInv'
  <1> PICK v : v = loc[t]
    OBVIOUS
  <1>1. /\ v \in Locals /\ PerTask /\ Changing(t) /\ \A u \in Tasks : u = t
        /\ v.first \in Starts /\ pc[t] # "idle"
    <2>1. \A u \in Tasks : u = t
      BY DEF OneTask
    <2>2. v \in Locals /\ PerTask /\ Changing(t)
      BY TaskFacts DEF PlaceTyped, InEntry
    <2> QED
      BY <2>1, <2>2, LocalsFields, ChangingFacts
  <1>2. SameChains /\ fat' = fat
    BY DEF SameChains, diskVars
  <1>3. Abandon(t)
    BY DEF GiveUp
  <1>4. pc[t] = "allocRead" => ~ InEntry(t) /\ ~ Claiming(t) /\ pc[t] # "freeRead"
    BY DEF InEntry, Claiming
  <1>5. CASE v.first = 0 /\ Return(t)
    <2>1. op'[t] = NoOp
      BY <1>1, <1>5, Returns
    <2>2. ASSUME spoiled' = 0 PROVE NothingLeaked'
      <3>1. ASSUME NEW c \in Clusters, fat'[1][c] # FAT_ENTRY_FREE, errors' = 0, kills' = 0
            PROVE Accounted(c)'
        <4>1. Accounted(c)
          BY <1>2, <2>2, <3>1, SoundFacts DEF NothingLeaked
        <4>2. ~ InProgress(t, c)
          <5>1. v.i = 0 /\ (disk[c][1] = op[t].version => disk[c][2] >= 1 /\ disk[c][2] <= v.i)
            BY <1>5, <2>2, AllocFacts
          <5>2. disk[c][1] # op[t].version
            BY <5>1, TablesTyped
          <5> QED
            BY <1>4, <3>1, <5>2 DEF InProgress
        <4>3. PICK n \in Names : Kept(n) /\ disk[c][1] = saved[n].version
          BY <1>1, <4>1, <4>2 DEF Accounted
        <4>4. Kept(n)' /\ disk'[c][1] = saved'[n].version
          BY <1>1, <1>2, <1>3, <2>1, <4>3, KeptAtReturn DEF SameChains
        <4> QED
          BY <4>4 DEF Accounted
      <3> QED
        BY <3>1 DEF NothingLeaked
    <2> QED
      BY <1>1, <1>3, <1>4, <1>5, <2>2, ReturnSound
  <1>6. CASE /\ v.first # 0 /\ Goto(t, "freeRead", [v EXCEPT !.cluster = v.first, !.ret = "fail"])
             /\ UNCHANGED <<op, sector>>
    <2> PICK w : w = FailingAt(v, v.first)
      OBVIOUS
    <2>1. Goto(t, "freeRead", w) /\ v.first \in Clusters /\ v.first \in Nat
      BY <1>1, <1>6, ClusterNumbers DEF FailingAt, Starts
    <2>2. pc'[t] = "freeRead" /\ loc'[t] = w /\ op'[t] = op[t]
      BY <1>1, <1>6, <2>1, Moves DEF Labels
    <2>3. /\ w.cluster = v.first /\ w.ret = "fail" /\ w.slot = v.slot /\ w.old = v.old
          /\ w.first = v.first /\ w.prev = v.prev /\ w.i = v.i /\ w.reach = v.reach
      BY <1>1, <2>1, FailingAtTyped DEF SameFile, SameChain
    <2>4. ~ InEntry(t)' /\ ~ HalfWritten(t)' /\ ~ Claiming(t)' /\ Changing(t)'
      BY <1>1, <2>2 DEF InEntry, HalfWritten, Claiming, Changing
    <2>5. SectorsFresh'
      BY <2>2, SectorsElsewhere
    <2>6. CopiesInv'
      BY <1>2, <1>4, <2>4, CopiesSame DEF FileInv
    <2>7. FreedVersion(t)' = op[t].version /\ FreedSize(t)' = Reach(v)
      BY <2>2, <2>3 DEF FreedVersion, FreedSize, Reach
    <2>8. \A n : Kept(n)' <=> Kept(n)
      BY <1>1, <1>3, <2>2, <2>3, KeptAtAbandon
    <2>9. ASSUME spoiled' = 0 PROVE TaskSound(t)' /\ NothingLeaked'
      <3>1. /\ op[t].version # 0 /\ Rest(fat[1], disk, op[t].version, 1, Reach(v), FAT_ENTRY_END)
            /\ disk[v.first] = <<op[t].version, 1>> /\ Reach(v) >= 1 /\ v.i > 0
            /\ \A c \in Clusters : disk[c][1] = op[t].version => disk[c][2] >= 1
        <4>1. v.i \in Nat /\ v.i # 0
          BY <1>6, <2>9, AllocFacts
        <4>2. v.i > 0
          BY <4>1
        <4> QED
          BY <2>9, <4>2, AllocFacts
      <3>2. disk[v.first][1] = op[t].version /\ disk[v.first][2] = 1
        BY <3>1
      <3>3. FreeingSound(t)'
        BY <1>2, <2>2, <2>3, <2>4, <2>7, <3>1, <3>2 DEF FreeingSound, SameChains
      <3>4. SlotFound(t)'
        <4>1. SlotFound(t) /\ pc[t] # "scan"
          BY <2>9, SoundFacts DEF InEntry
        <4> QED
          BY <1>1, <1>2, <2>2, <2>3, <4>1 DEF SlotFound, SameChains
      <3>5. BuildingSound(t)' /\ ClaimSound(t)' /\ ReadingSound(t)'
        BY <2>2, <2>3, <2>4 DEF BuildingSound, ClaimSound, ReadingSound
      <3>6. FailingSound(t)'
        <4>1. v.old # 0 => op[t].name \in stale'
          BY <1>1, <1>3 DEF Abandon, Changing
        <4> QED
          BY <2>2, <2>3, <2>4, <3>1, <4>1 DEF FailingSound
      <3>7. NothingLeaked'
        <4>1. CASE errors' = 0 /\ kills' = 0
          <5>1. ASSUME NEW c \in Clusters, InProgress(t, c) PROVE InProgress(t, c)'
            <6>1. disk[c][1] = op[t].version
              BY <1>4, <4>1, <5>1 DEF InProgress
            <6>2. disk'[c][1] = FreedVersion(t)' /\ disk'[c][2] >= disk'[loc'[t].cluster][2]
              BY <1>2, <2>2, <2>3, <2>7, <3>1, <3>2, <6>1 DEF SameChains
            <6> QED
              BY <2>2, <2>3, <2>4, <6>2 DEF InProgress
          <5>2. NothingLeaked
            BY <2>9, SoundFacts
          <5> QED
            BY <1>2, <2>8, <4>1, <5>1, <5>2, LeaksKept
        <4>2. CASE ~ (errors' = 0 /\ kills' = 0)
          BY <4>2 DEF NothingLeaked
        <4> QED
          BY <4>1, <4>2
      <3> QED
        BY <3>3, <3>4, <3>5, <3>6, <3>7 DEF TaskSound
    <2>10. pc[t] # "data"
      BY DEF InEntry
    <2> QED
      BY <1>1, <1>2, <2>2, <2>3, <2>5, <2>6, <2>8, <2>9, <2>10, QuietChange
  <1> QED
    BY <1>5, <1>6 DEF GiveUp

\* A free cluster is of no kept file and of no version that is being built.
LEMMA FreeClusterSound ==
    ASSUME TypeInv, FileInv, NEW t \in Tasks, spoiled = 0, pc[t] = "allocRead",
           NEW c \in Clusters, fat[1][c] = FAT_ENTRY_FREE
    PROVE disk[c][1] # op[t].version /\ \A n \in Names : Kept(n) => disk[c][1] # saved[n].version
  <1>1. disk[c][1] # op[t].version
    BY AllocFacts
  <1>2. \A n \in Names : Kept(n) => disk[c][1] # saved[n].version
    BY SoundFacts DEF FilesSound
  <1> QED
    BY <1>1, <1>2

LEMMA AllocReadSound ==
    ASSUME OneTask, TypeInv, FileInv, NEW t \in Tasks, AllocRead(t)
    PROVE FileInv'
  <1> PICK v : v = loc[t]
    OBVIOUS
  <1> PICK w : w = loc'[t]
    OBVIOUS
  <1>1. v \in Locals /\ PerTask /\ Changing(t) /\ pc[t] = "allocRead" /\ v.cluster \in Nat
    BY TaskFacts, LocalsFields DEF PlaceTyped, AllocRead
  <1>2. /\ SameChains /\ fat' = fat /\ ops' = ops /\ errors' = errors /\ kills' = kills
        /\ saved' = saved /\ spoiled' = spoiled /\ UNCHANGED diskVars
    BY DEF AllocRead, SameChains, diskVars
  <1>3. ~ InEntry(t) /\ ~ Claiming(t) /\ LastEntry(t) = FAT_ENTRY_END
    BY <1>1 DEF InEntry, Claiming, LastEntry, Linking
  <1>4. ASSUME stale' = stale, op'[t] = op[t], w.slot = v.slot, w.old = v.old,
               w.first = v.first, w.prev = v.prev, w.i = v.i, w.ret = v.ret, w.reach = v.reach,
               \/ pc'[t] = "allocRead"
               \/ /\ pc'[t] = "entryRead" /\ w.why = "claim" /\ w.copy = 1 /\ w.cluster \in Clusters
                  /\ fat[1][w.cluster] = FAT_ENTRY_FREE
        PROVE FileInv'
    <2>0. SameVolume /\ Reach(w) = Reach(v)
      BY <1>2, <1>4 DEF SameVolume, SameChains, Reach
    <2>1. /\ Changing(t)' /\ ~ HalfWritten(t)' /\ LastEntry(t)' = FAT_ENTRY_END
          /\ (Claiming(t)' => pc'[t] = "entryRead") /\ (InEntry(t)' => pc'[t] = "entryRead")
      BY <1>1, <1>4 DEF Changing, HalfWritten, LastEntry, Linking, Claiming, InEntry
    <2>2. SectorsFresh'
      BY <1>4, SectorsElsewhere
    <2>3. CopiesInv'
      BY <1>2, <1>3, <2>1, CopiesSame DEF FileInv
    <2>4. ASSUME spoiled' = 0 PROVE TaskSound(t)' /\ NothingLeaked'
      <3>1. spoiled = 0 /\ SlotFound(t) /\ BuildingSound(t) /\ FailingSound(t) /\ NothingLeaked
        BY <1>2, <2>4, SoundFacts
      <3>2. v.ret # "fail"
        BY <1>1, <3>1, AllocFacts
      <3>3. SlotFound(t)'
        BY <1>1, <1>4, <2>0, <3>1 DEF SlotFound, SameVolume
      <3>4. FreeingSound(t)' /\ ReadingSound(t)'
        BY <1>4, <2>1 DEF FreeingSound, ReadingSound
      <3>5. BuildingSound(t)'
        BY <1>1, <1>3, <1>4, <2>0, <2>1, <3>1, <3>2 DEF BuildingSound, SameVolume
      <3>6. FailingSound(t)'
        BY <1>4, <3>2 DEF FailingSound
      <3>7. ClaimSound(t)'
        <4>1. CASE pc'[t] = "allocRead"
          BY <2>1, <4>1 DEF ClaimSound
        <4>2. CASE pc'[t] = "entryRead"
          <5>1. w.why = "claim" /\ w.copy = 1 /\ w.cluster \in Clusters /\ fat[1][w.cluster] = FAT_ENTRY_FREE
            BY <1>4, <4>2
          <5>2. /\ disk[w.cluster][1] # op[t].version
                /\ \A n \in Names : Kept(n) => disk[w.cluster][1] # saved[n].version
            BY <1>1, <3>1, <5>1, FreeClusterSound
          <5>3. \A n \in Names : Kept(n)' => Kept(n)
            BY <1>2, <1>4, KeptSame
          <5> QED
            BY <1>4, <2>0, <4>2, <5>1, <5>2, <5>3 DEF ClaimSound, SameVolume
        <4> QED
          BY <1>4, <4>1, <4>2
      <3>8. \A c : InProgress(t, c) => InProgress(t, c)'
        BY <1>1, <1>3, <1>4, <2>0, <2>1 DEF InProgress, SameVolume
      <3>9. NothingLeaked'
        BY <1>2, <1>4, <2>0, <3>1, <3>8, LeaksSame
      <3> QED
        BY <3>3, <3>4, <3>5, <3>6, <3>7, <3>9 DEF TaskSound
    <2> QED
      BY <1>1, <1>2, <1>4, <2>0, <2>2, <2>3, <2>4, QuietStep
  <1>5. CASE /\ v.cluster \in DataClusters /\ Goto(t, "allocRead", [v EXCEPT !.cluster = @ + 1])
             /\ UNCHANGED <<op, sector, stale>>
    <2>1. Goto(t, "allocRead", At(v, v.cluster + 1)) /\ v.cluster + 1 \in Nat
      BY <1>1, <1>5 DEF At
    <2>2. pc'[t] = "allocRead" /\ op'[t] = op[t] /\ w = At(v, v.cluster + 1)
      BY <1>1, <1>5, <2>1, Moves DEF Labels
    <2>3. SameFile(v, w) /\ SameChain(v, w) /\ w.ret = v.ret
      BY <1>1, <2>1, <2>2, AtTyped
    <2> QED
      BY <1>4, <1>5, <2>2, <2>3 DEF SameFile, SameChain
  <1>6. CASE /\ v.cluster \in DataClusters /\ fat[1][v.cluster] = FAT_ENTRY_FREE
             /\ WriteEntry(t, v.cluster, FAT_ENTRY_END, "claim", v)
             /\ UNCHANGED <<op, sector, stale>>
    <2>1. v.cluster \in Starts /\ v.cluster \in Clusters /\ FAT_ENTRY_END \in Entries /\ "claim" \in Whys
      BY <1>6, ClusterNumbers DEF Starts, Whys
    <2>2. /\ pc'[t] = "entryRead" /\ op'[t] = op[t] /\ w.copy = 1 /\ w.why = "claim"
          /\ SameFile(v, w) /\ SameChain(v, w) /\ w.cluster = v.cluster /\ w.ret = v.ret
      BY <1>1, <1>6, <2>1, WriteEntryDoes
    <2> QED
      BY <1>4, <1>6, <2>1, <2>2 DEF SameFile, SameChain
  <1>7. CASE GiveUp(t, v)
    BY <1>1, <1>2, <1>7, GiveUpSound
  <1> QED
    BY <1>5, <1>6, <1>7 DEF AllocRead

\* A cluster's data is written.
LEMMA DataDoes ==
    ASSUME TypeInv, NEW t \in Tasks, Data(t), NEW v, v = loc[t], NEW w, w = loc'[t]
    PROVE /\ pc[t] = "data" /\ op'[t] = op[t] /\ Changing(t) /\ v.cluster \in Clusters /\ v.i \in Nat
          /\ disk' = With(disk, v.cluster, <<op[t].version, v.i + 1>>)
          /\ w.slot = v.slot /\ w.old = v.old /\ w.first = v.first /\ w.ret = v.ret
          /\ w.prev = v.cluster /\ w.i = v.i + 1 /\ w.reach = v.reach
          /\ \/ pc'[t] = "allocRead"
             \/ pc'[t] = "entryRead" /\ w.why = "end" /\ w.copy = 1 /\ w.i = op[t].size
  <1>1. /\ v \in Locals /\ pc[t] = "data" /\ Changing(t) /\ v.i < op[t].size /\ v.cluster \in Clusters
        /\ v.i \in Nat /\ op[t].size \in 0..MaxSize /\ op[t].size \in Nat
    BY TaskFacts, LocalsFields, Fat16Assumption DEF Data, PlaceTyped
  <1> PICK k : k = v.i + 1
    OBVIOUS
  <1>2. k \in 0..(MaxSize + 1)
    BY <1>1, Fat16Assumption
  <1> PICK u : u = Wrote(v, v.cluster, k)
    OBVIOUS
  <1>3. /\ u \in Locals /\ u.prev = v.cluster /\ u.i = k /\ SameFile(v, u) /\ u.first = v.first
        /\ u.ret = v.ret
    <2>1. v.cluster \in Starts /\ v \in Locals
      BY <1>1 DEF Starts
    <2> QED
      BY <1>2, <2>1, WroteTyped
  <1>4. /\ disk' = [disk EXCEPT ![u.prev] = <<op[t].version, u.i>>]
        /\ IF u.i < op[t].size THEN Goto(t, "allocRead", At(u, 2))
           ELSE WriteEntry(t, u.prev, FAT_ENTRY_END, "end", u)
        /\ UNCHANGED <<op, sector>>
    BY DEF Data, Wrote, At
  <1>5. disk' = With(disk, v.cluster, <<op[t].version, v.i + 1>>)
    BY <1>3, <1>4 DEF With
  <1>6. CASE u.i < op[t].size
    <2>1. Goto(t, "allocRead", At(u, 2)) /\ UNCHANGED <<op, sector>>
      BY <1>4, <1>6
    <2>2. PerTask /\ u \in Locals /\ 2 \in Nat /\ "allocRead" \in Labels
      BY <1>3, TaskFacts DEF Labels
    <2>3. /\ pc'[t] = "allocRead" /\ op'[t] = op[t] /\ w.slot = u.slot /\ w.old = u.old
          /\ w.first = u.first /\ w.prev = u.prev /\ w.i = u.i /\ w.ret = u.ret /\ w.reach = u.reach
      BY <2>1, <2>2, GoesAt
    <2> QED
      BY <1>1, <1>3, <1>5, <2>3 DEF SameFile
  <1>7. CASE ~ (u.i < op[t].size)
    <2>1. WriteEntry(t, u.prev, FAT_ENTRY_END, "end", u) /\ UNCHANGED <<op, sector>>
      BY <1>4, <1>7
    <2>2. u.prev \in Starts /\ FAT_ENTRY_END \in Entries /\ "end" \in Whys
      BY <1>1, <1>3, ClusterNumbers DEF Starts, Whys
    <2>3. /\ pc'[t] = "entryRead" /\ op'[t] = op[t] /\ w.copy = 1 /\ w.why = "end"
          /\ SameFile(u, w) /\ SameChain(u, w) /\ w.ret = u.ret
      BY <1>3, <2>1, <2>2, WriteEntryDoes
    <2>4. u.i = op[t].size
      BY <1>1, <1>3, <1>7
    <2> QED
      BY <1>1, <1>3, <1>5, <2>3, <2>4 DEF SameFile, SameChain
  <1> QED
    BY <1>6, <1>7

LEMMA DataVersions ==
    ASSUME OneTask, TypeInv, FileInv, NEW t \in Tasks, Data(t)
    PROVE VersionsFresh'
  <1> PICK v : v = loc[t]
    OBVIOUS
  <1> PICK c : c = v.cluster
    OBVIOUS
  <1> PICK k : k = v.i + 1
    OBVIOUS
  <1>1. /\ pc[t] = "data" /\ op'[t] = op[t] /\ Changing(t) /\ c \in Clusters /\ v.i \in Nat
        /\ disk' = With(disk, c, <<op[t].version, k>>) /\ loc'[t].i = k
        /\ pc'[t] # "idle"
    BY DataDoes
  <1>2. saved' = saved /\ ops' = ops /\ ops \in Nat
    BY Fat16Assumption DEF Data, ghosts, TypeInv, GhostsTyped
  <1>3. disk'[c] = <<op[t].version, k>> /\ \A a \in Clusters : a # c => disk'[a] = disk[a]
    BY <1>1, TablesTyped DEF Contents, With
  <1>4. /\ op[t].version \in 1..ops /\ \A n \in Names : saved[n].version # op[t].version
        /\ \A a \in Clusters : disk[a][1] = op[t].version => disk[a][2] <= v.i
    BY <1>1 DEF FileInv, VersionsFresh
  <1>5. ASSUME NEW a \in Clusters
        PROVE disk'[a][1] <= ops' /\ (disk'[a][1] # 0 => disk'[a][2] >= 1)
    <2>1. CASE a = c
      BY <1>1, <1>2, <1>3, <1>4, <2>1
    <2>2. CASE a # c
      BY <1>2, <1>3, <2>2 DEF FileInv, VersionsFresh
    <2> QED
      BY <2>1, <2>2
  <1>6. ASSUME NEW a \in Clusters, a # c PROVE disk'[a] # disk'[c]
    <2>1. disk[a][1] = op[t].version => disk[a][2] # k
      BY <1>1, <1>4
    <2> QED
      BY <1>3, <1>6, <2>1
  <1>7. ASSUME NEW a \in Clusters, NEW b \in Clusters, disk'[a] = disk'[b], disk'[a][1] # 0
        PROVE a = b
    <2>1. CASE a = c \/ b = c
      BY <1>6, <1>7, <2>1
    <2>2. CASE a # c /\ b # c
      BY <1>3, <1>7, <2>2 DEF FileInv, VersionsFresh
    <2> QED
      BY <2>1, <2>2
  <1>8. \A a \in Clusters : disk'[a][1] = op'[t].version => disk'[a][2] <= loc'[t].i
    <2>1. ASSUME NEW a \in Clusters, disk'[a][1] = op'[t].version PROVE disk'[a][2] <= k
      <3>1. CASE a = c
        BY <1>1, <1>3, <3>1
      <3>2. CASE a # c
        <4>1. disk[a][2] \in Nat /\ disk[a][2] <= v.i /\ disk'[a][2] = disk[a][2]
          BY <1>1, <1>3, <1>4, <2>1, <3>2, TablesTyped
        <4> QED
          BY <1>1, <4>1
      <3> QED
        BY <3>1, <3>2
    <2> QED
      BY <1>1, <2>1
  <1>9. \A n \in Names : saved'[n].version <= ops'
    BY <1>2 DEF FileInv, VersionsFresh
  <1>10. \A n, m \in Names : saved'[n].version = saved'[m].version /\ saved'[n].version # 0 => n = m
    BY <1>2 DEF FileInv, VersionsFresh
  <1>11. \A u \in Tasks : u = t
    BY DEF OneTask
  <1>12. op'[t].version \in 1..ops' /\ \A n \in Names : saved'[n].version # op'[t].version
    BY <1>1, <1>2, <1>4
  <1> QED
    BY <1>5, <1>7, <1>8, <1>9, <1>10, <1>11, <1>12 DEF VersionsFresh

\* The data goes to a cluster that is of no kept file.
LEMMA DataFiles ==
    ASSUME OneTask, TypeInv, FileInv, spoiled = 0, NEW t \in Tasks, Data(t)
    PROVE FilesSound' /\ \A n \in Names : Kept(n)' => Kept(n) /\ disk[loc[t].cluster][1] # saved[n].version
  <1> PICK c : c = loc[t].cluster
    OBVIOUS
  <1> PICK ver, k : ver = op[t].version /\ k = loc[t].i + 1
    OBVIOUS
  <1>1. /\ pc[t] = "data" /\ op'[t] = op[t] /\ Changing(t) /\ c \in Clusters
        /\ disk' = With(disk, c, <<ver, k>>) /\ loc'[t].old = loc[t].old
    BY DataDoes
  <1>2. saved' = saved /\ fat' = fat /\ root' = root /\ stale' = stale
    BY DEF Data, ghosts
  <1>3. \A n \in Names : Kept(n)' => Kept(n)
    BY <1>1, <1>2, KeptSame
  <1>4. \A n \in Names : Kept(n) => disk[c][1] # saved[n].version /\ ver # saved[n].version
    <2>1. ClaimSound(t) /\ Claiming(t)
      BY <1>1, SoundFacts DEF Claiming
    <2>2. \A n \in Names : saved[n].version # ver
      BY <1>1 DEF FileInv, VersionsFresh
    <2> QED
      BY <2>1, <2>2 DEF ClaimSound
  <1>5. \A a \in Clusters : a # c => disk'[a] = disk[a]
    BY <1>1, TablesTyped DEF Contents, With
  <1>6. ASSUME NEW n \in Names, Kept(n)
        PROVE /\ Rest(fat[1], disk', saved[n].version, 1, saved[n].reach, FAT_ENTRY_END)
              /\ \A a \in Clusters : disk'[a][1] = saved[n].version => fat[1][a] # FAT_ENTRY_FREE
              /\ \A x \in Slots : root[x].name = n /\ root[x].size > 0 =>
                    disk'[root[x].first] = <<saved[n].version, 1>>
    <2>1. /\ Rest(fat[1], disk, saved[n].version, 1, saved[n].reach, FAT_ENTRY_END)
          /\ \A a \in Clusters : disk[a][1] = saved[n].version => fat[1][a] # FAT_ENTRY_FREE
          /\ \A x \in Slots : root[x].name = n /\ root[x].size > 0 =>
                disk[root[x].first] = <<saved[n].version, 1>>
      BY <1>6, SoundFacts DEF FilesSound
    <2>2. disk[c][1] # saved[n].version /\ ver # saved[n].version
      BY <1>4, <1>6
    <2>3. Rest(fat[1], disk', saved[n].version, 1, saved[n].reach, FAT_ENTRY_END)
      <3>1. saved[n].reach \in Nat /\ k \in Nat
        BY <1>1, SavedTyped, DataDoes
      <3> QED
        BY <1>1, <2>1, <2>2, <3>1, TablesTyped, RestOtherData
    <2>5. \A a \in Clusters : disk'[a][1] = saved[n].version => fat[1][a] # FAT_ENTRY_FREE
      <3>1. disk'[c][1] = ver
        BY <1>1, TablesTyped DEF Contents, With
      <3> QED
        BY <1>5, <2>1, <2>2, <3>1
    <2>4. ASSUME NEW x \in Slots, root[x].name = n, root[x].size > 0
          PROVE disk'[root[x].first] = <<saved[n].version, 1>>
      <3>1. disk[root[x].first] = <<saved[n].version, 1>>
        BY <2>1, <2>4
      <3>2. root[x].first \in Clusters
        <4>1. root[x].first \in Starts /\ root[x].name # None
          BY <2>4, Fat16Assumption DEF TypeInv, DiskTyped, Dirents, Starts
        <4>2. root[x].first # 0
          BY <2>4, <4>1, SoundFacts DEF DirectorySound
        <4> QED
          BY <4>1, <4>2 DEF Starts
      <3>3. root[x].first # c
        BY <2>2, <3>1
      <3> QED
        BY <1>5, <3>1, <3>2, <3>3
    <2> QED
      BY <2>3, <2>4, <2>5
  <1> QED
    BY <1>2, <1>3, <1>4, <1>6 DEF FilesSound

LEMMA DataSound ==
    ASSUME OneTask, TypeInv, FileInv, NEW t \in Tasks, Data(t)
    PROVE FileInv'
  <1> PICK v : v = loc[t]
    OBVIOUS
  <1> PICK w : w = loc'[t]
    OBVIOUS
  <1> PICK c : c = v.cluster
    OBVIOUS
  <1> PICK ver, k : ver = op[t].version /\ k = v.i + 1
    OBVIOUS
  <1>1. /\ pc[t] = "data" /\ op'[t] = op[t] /\ Changing(t) /\ c \in Clusters /\ v.i \in Nat
        /\ disk' = With(disk, c, <<ver, k>>)
        /\ w.slot = v.slot /\ w.old = v.old /\ w.first = v.first /\ w.ret = v.ret
        /\ w.prev = c /\ w.i = k /\ w.reach = v.reach
        /\ \/ pc'[t] = "allocRead"
           \/ pc'[t] = "entryRead" /\ w.why = "end" /\ w.copy = 1 /\ w.i = op[t].size
    BY DataDoes
  <1>2. /\ fat' = fat /\ root' = root /\ saved' = saved /\ spoiled' = spoiled /\ errors' = errors
        /\ kills' = kills /\ stale' = stale
    BY DEF Data, ghosts
  <1>3. /\ Changing(t)' /\ ~ HalfWritten(t)' /\ ~ InEntry(t) /\ Claiming(t) /\ ~ Claiming(t)'
        /\ LastEntry(t) = (IF v.reach = 0 THEN c ELSE FAT_ENTRY_END) /\ LastEntry(t)' = FAT_ENTRY_END
        /\ (InEntry(t)' => w.why = "end" /\ w.i = op[t].size)
    BY <1>1 DEF Changing, HalfWritten, InEntry, Claiming, LastEntry, Linking
  <1>4. SectorsFresh'
    BY <1>1, SectorsElsewhere
  <1>5. CopiesInv'
    BY <1>2, <1>3, CopiesSame DEF FileInv
  <1>6. \A u \in Tasks : u = t
    BY DEF OneTask
  <1>7. ASSUME spoiled' = 0 PROVE ChainInv'
    <2>1. /\ spoiled = 0 /\ SlotFound(t) /\ BuildingSound(t) /\ FailingSound(t) /\ ClaimSound(t)
          /\ NothingLeaked /\ DirectorySound /\ ReachSound
      BY <1>2, <1>7, SoundFacts
    <2>2. v.ret # "fail"
      BY <1>1, <2>1 DEF FailingSound
    <2>3. FilesSound' /\ \A n \in Names : Kept(n)' => Kept(n) /\ disk[c][1] # saved[n].version
      BY <2>1, DataFiles
    <2>4. disk[c][1] # ver /\ fat[1][c] = FAT_ENTRY_END
      BY <1>1, <1>3, <2>1 DEF ClaimSound
    <2>5. disk'[c] = <<ver, k>> /\ \A a \in Clusters : a # c => disk'[a] = disk[a]
      BY <1>1, TablesTyped DEF Contents, With
    <2>6. Rest(fat[1], disk', ver, 1, Reach(w), FAT_ENTRY_END)
      <3>1. Rest(fat[1], disk, ver, 1, Reach(v), LastEntry(t)) /\ disk \in Contents
        BY <1>1, <2>1, <2>2, TablesTyped DEF BuildingSound
      <3>2. CASE v.reach = 0
        <4>1. LastEntry(t) = c /\ Reach(v) = v.i /\ Reach(w) = k
          BY <1>1, <1>3, <3>2 DEF Reach
        <4>2. \A a \in Clusters : disk[a][1] = ver => disk[a][2] <= v.i
          BY <1>1 DEF FileInv, VersionsFresh
        <4> QED
          BY <1>1, <2>4, <3>1, <4>1, <4>2, RestWritten
      <3>3. CASE v.reach # 0
        <4>1. LastEntry(t) = FAT_ENTRY_END /\ Reach(v) = v.reach /\ Reach(w) = v.reach
          BY <1>1, <1>3, <3>3 DEF Reach
        <4>2. v.reach \in Nat /\ v.reach <= v.i
          BY <1>1, <2>1, <3>3, TaskFacts, LocalsFields, Fat16Assumption DEF ReachSound, LinksSound
        <4>3. k \in Nat /\ k > v.reach
          BY <1>1, <4>2
        <4> QED
          BY <1>1, <2>4, <3>1, <4>1, <4>2, <4>3, RestOtherData
      <3> QED
        BY <3>2, <3>3
    <2>15. \A a \in Clusters : disk'[a][1] = ver => fat[1][a] # FAT_ENTRY_FREE
      <3>1. \A a \in Clusters : disk[a][1] = ver => fat[1][a] # FAT_ENTRY_FREE
        BY <1>1, <2>1, <2>2 DEF BuildingSound
      <3> QED
        BY <2>4, <2>5, <3>1, ClusterNumbers
    <2>16. ReachSound'
      <3>1. ASSUME NEW n \in Names, NEW a \in Clusters, disk'[a][1] = saved[n].version,
                   saved[n].version # 0
            PROVE disk'[a][2] <= saved[n].size
        <4>1. ver # saved[n].version
          BY <1>1 DEF FileInv, VersionsFresh
        <4>2. a # c
          BY <2>5, <3>1, <4>1
        <4> QED
          BY <2>1, <2>5, <3>1, <4>2 DEF ReachSound
      <3>2. LinksSound(t)'
        <4>1. LinksSound(t) /\ v.reach \in Nat
          BY <2>1, TaskFacts, LocalsFields, Fat16Assumption DEF ReachSound
        <4> QED
          BY <1>1, <1>2, <4>1 DEF LinksSound
      <3> QED
        BY <1>2, <1>6, <2>1, <3>1, <3>2 DEF ReachSound
    <2>7. w.first \in Clusters /\ disk'[w.first] = <<ver, 1>>
      <3>1. CASE v.i = 0
        BY <1>1, <2>1, <2>2, <2>5, <3>1 DEF BuildingSound
      <3>2. CASE v.i > 0
        <4>1. v.first \in Clusters /\ disk[v.first] = <<ver, 1>>
          BY <1>1, <2>1, <2>2, <3>2 DEF BuildingSound
        <4>2. v.first # c
          BY <2>4, <4>1
        <4> QED
          BY <1>1, <2>5, <4>1, <4>2
      <3> QED
        BY <1>1, <3>1, <3>2
    <2>8. BuildingSound(t)'
      <3>1. k > 0 /\ k # 0
        BY <1>1
      <3>2. pc'[t] \notin {"data", "dirRead", "dirWrite", "freeRead"}
        BY <1>1
      <3> QED
        BY <1>1, <1>2, <1>3, <2>5, <2>6, <2>7, <2>15, <3>1, <3>2 DEF BuildingSound
    <2>9. SlotFound(t)'
      BY <1>1, <1>2, <2>1 DEF SlotFound, Changing
    <2>10. FreeingSound(t)' /\ ReadingSound(t)'
      BY <1>1, <1>3 DEF FreeingSound, ReadingSound
    <2>11. FailingSound(t)' /\ ClaimSound(t)'
      BY <1>1, <1>3, <2>2 DEF FailingSound, ClaimSound
    <2>12. DirectorySound'
      BY <1>2, <2>1 DEF DirectorySound
    <2>13. NothingLeaked'
      <3>1. ASSUME NEW a \in Clusters, fat'[1][a] # FAT_ENTRY_FREE, errors' = 0, kills' = 0
            PROVE Accounted(a)'
        <4>1. Accounted(a)
          BY <1>2, <2>1, <3>1 DEF NothingLeaked
        <4>2. CASE InProgress(t, a)
          <5>1. a = c \/ disk[a][1] = ver
            BY <1>1, <1>3, <4>2 DEF InProgress
          <5>2. disk'[a][1] = ver
            BY <2>5, <5>1
          <5>3. InProgress(t, a)'
            BY <1>1, <1>3, <2>2, <5>2 DEF InProgress
          <5> QED
            BY <5>3 DEF Accounted
        <4>3. CASE ~ InProgress(t, a)
          <5>1. PICK n \in Names : Kept(n) /\ disk[a][1] = saved[n].version
            BY <1>6, <4>1, <4>3 DEF Accounted
          <5>2. Kept(n)'
            BY <1>1, <1>2, <5>1, KeptSame
          <5>3. a # c
            BY <2>3, <5>1, <5>2
          <5>4. disk'[a][1] = saved'[n].version
            BY <1>2, <2>5, <5>1, <5>3
          <5> QED
            BY <5>2, <5>4 DEF Accounted
        <4> QED
          BY <4>2, <4>3
      <3> QED
        BY <3>1 DEF NothingLeaked
    <2>14. TaskSound(t)'
      BY <2>8, <2>9, <2>10, <2>11 DEF TaskSound
    <2> QED
      BY <1>6, <2>3, <2>12, <2>13, <2>14, <2>16 DEF ChainInv
  <1> QED
    BY <1>4, <1>5, <1>7, DataVersions DEF FileInv

LEMMA DirReadSound ==
    ASSUME OneTask, TypeInv, FileInv, NEW t \in Tasks, DirRead(t)
    PROVE FileInv'
  <1>1. /\ pc[t] = "dirRead" /\ pc'[t] = "dirWrite" /\ loc'[t] = loc[t] /\ op'[t] = op[t]
        /\ sector'[t] = root
    <2>1. pc'[t] = "dirWrite" /\ loc'[t] = loc[t]
      BY GotoMoves, TaskFacts DEF DirRead, Labels
    <2>2. sector'[t] = root
      BY TaskFacts DEF DirRead, PerTask
    <2> QED
      BY <2>1, <2>2 DEF DirRead
  <1>2. SameVolume /\ fat' = fat /\ ops' = ops /\ spoiled' = spoiled /\ errors' = errors /\ kills' = kills
    BY DEF DirRead, SameVolume, diskVars, ghosts
  <1>3. \A u \in Tasks : u = t
    BY DEF OneTask
  <1>4. SectorsFresh'
    BY <1>1, <1>2, <1>3 DEF SectorsFresh, SameVolume
  <1>5. /\ ~ InEntry(t) /\ ~ InEntry(t)' /\ ~ HalfWritten(t)' /\ ~ Claiming(t) /\ ~ Claiming(t)'
        /\ LastEntry(t)' = LastEntry(t) /\ (Changing(t)' <=> Changing(t))
    BY <1>1 DEF InEntry, HalfWritten, Claiming, LastEntry, Linking, Changing
  <1>6. CopiesInv'
    BY <1>2, <1>5, CopiesSame DEF FileInv
  <1>7. ASSUME spoiled' = 0 PROVE TaskSound(t)' /\ NothingLeaked'
    <2>1. TaskSound(t) /\ NothingLeaked
      BY <1>2, <1>7, SoundFacts
    <2>2. SlotFound(t)'
      BY <1>1, <1>2, <1>5, <2>1 DEF TaskSound, SlotFound, SameVolume
    <2>3. FreeingSound(t)' /\ ClaimSound(t)' /\ ReadingSound(t)'
      BY <1>1, <1>5 DEF FreeingSound, ClaimSound, ReadingSound
    <2>4. BuildingSound(t)'
      BY <1>1, <1>2, <1>5, <2>1 DEF TaskSound, BuildingSound, SameVolume
    <2>5. FailingSound(t)'
      BY <1>1, <1>2, <1>5, <2>1 DEF TaskSound, FailingSound, SameVolume
    <2>6. \A c : InProgress(t, c) => InProgress(t, c)'
      BY <1>1, <1>2, <1>5 DEF InProgress, SameVolume
    <2> QED
      BY <1>1, <1>2, <2>1, <2>2, <2>3, <2>4, <2>5, <2>6, LeaksSame DEF TaskSound
  <1> QED
    BY <1>1, <1>2, <1>4, <1>6, <1>7, QuietStep

\* The directory sector is written, and the user is told that the file is saved.
DirWritten(t, slot, e, n, s) ==
    /\ pc[t] = "dirWrite" /\ Changing(t) /\ slot = loc[t].slot /\ slot \in Slots
    /\ n = op[t].name /\ n \in Names /\ n # None
    /\ root'[slot] = e /\ \A x \in Slots : x # slot => root'[x] = root[x]
    /\ saved'[n] = s /\ \A m \in Names : m # n => saved'[m] = saved[m]
    /\ \/ /\ op[t].kind = "write" /\ e.name = n /\ e.first = loc[t].first /\ e.size = op[t].size
          /\ s.version = op[t].version /\ s.size = op[t].size /\ s.reach = Reach(loc[t])
       \/ op[t].kind = "delete" /\ e = Deleted /\ s = NotSaved
    /\ stale' = stale \ {n}
    /\ e # NeverUsed /\ fat' = fat /\ disk' = disk /\ spoiled' = spoiled
    /\ errors' = errors /\ kills' = kills /\ ops' = ops
    /\ pc'[t] = "idle" /\ loc'[t] = NoLocals /\ op'[t] = NoOp

LEMMA DirWriteDoes ==
    ASSUME OneTask, TypeInv, FileInv, NEW t \in Tasks, DirWrite(t)
    PROVE \E slot, e, n, s : DirWritten(t, slot, e, n, s)
  <1> PICK slot, e, n : slot = loc[t].slot /\ e = NewEntry(t) /\ n = op[t].name
    OBVIOUS
  <1> PICK s : s = IF op[t].kind = "delete" THEN NotSaved
                   ELSE [version |-> op[t].version, size |-> op[t].size, reach |-> Reach(loc[t])]
    OBVIOUS
  <1>1. pc[t] = "dirWrite" /\ Changing(t) /\ slot \in Slots /\ n \in Names /\ n # None
    BY TaskFacts, ChangingFacts, Fat16Assumption DEF DirWrite, PlaceTyped
  <1>2. root'[slot] = e /\ \A x \in Slots : x # slot => root'[x] = root[x]
    <2>1. root' = [root EXCEPT ![slot] = e]
      BY <1>1 DEF DirWrite, FileInv, SectorsFresh
    <2> QED
      BY <1>1, <2>1 DEF TypeInv, DiskTyped
  <1>3. saved'[n] = s /\ \A m \in Names : m # n => saved'[m] = saved[m]
    BY <1>1 DEF DirWrite, TypeInv, GhostsTyped
  <1>4. \/ /\ op[t].kind = "write" /\ e.name = n /\ e.first = loc[t].first /\ e.size = op[t].size
           /\ s.version = op[t].version /\ s.size = op[t].size /\ s.reach = Reach(loc[t])
        \/ op[t].kind = "delete" /\ e = Deleted /\ s = NotSaved
    BY <1>1 DEF Changing, NewEntry, File
  <1>5. e # NeverUsed
    <2>1. Deleted # NeverUsed
      <3>1. Deleted.size = 1 /\ NeverUsed.size = 0
        BY DEF Deleted, NeverUsed
      <3> QED
        BY <3>1
    <2>2. NeverUsed.name = None
      BY DEF NeverUsed
    <2> QED
      BY <1>1, <1>4, <2>1, <2>2
  <1>6. /\ fat' = fat /\ disk' = disk /\ spoiled' = spoiled
        /\ errors' = errors /\ kills' = kills /\ ops' = ops /\ stale' = stale \ {n} /\ Return(t)
    BY DEF DirWrite
  <1>7. pc'[t] = "idle" /\ loc'[t] = NoLocals /\ op'[t] = NoOp
    BY <1>6, Returns, TaskFacts
  <1>8. DirWritten(t, slot, e, n, s)
    BY <1>1, <1>2, <1>3, <1>4, <1>5, <1>6, <1>7 DEF DirWritten
  <1> QED
    BY <1>8

LEMMA DirVersions ==
    ASSUME OneTask, TypeInv, FileInv, NEW t \in Tasks, NEW slot, NEW e, NEW n, NEW s,
           DirWritten(t, slot, e, n, s)
    PROVE VersionsFresh'
  <1>1. \A u \in Tasks : u = t
    BY DEF OneTask
  <1>2. /\ pc[t] # "idle" /\ pc'[t] = "idle" /\ disk' = disk /\ ops' = ops /\ ops \in Nat
        /\ n \in Names /\ s = saved'[n] /\ \A m \in Names : m # n => saved'[m] = saved[m]
    BY Fat16Assumption DEF DirWritten, TypeInv, GhostsTyped
  <1>3. /\ op[t].version \in 1..ops /\ \A m \in Names : saved[m].version # op[t].version
        /\ s.version \in {0, op[t].version}
    BY <1>2 DEF FileInv, VersionsFresh, DirWritten, NotSaved
  <1>4. \A m \in Names : saved'[m].version <= ops'
    <2>1. ASSUME NEW m \in Names PROVE saved'[m].version <= ops
      <3>1. CASE m = n
        BY <1>2, <1>3, <3>1
      <3>2. CASE m # n
        BY <1>2, <3>2 DEF FileInv, VersionsFresh
      <3> QED
        BY <3>1, <3>2
    <2> QED
      BY <1>2, <2>1
  <1>5. ASSUME NEW m \in Names, NEW l \in Names, saved'[m].version = saved'[l].version,
               saved'[m].version # 0
        PROVE m = l
    <2>1. CASE m = n \/ l = n
      BY <1>2, <1>3, <1>5, <2>1
    <2>2. CASE m # n /\ l # n
      BY <1>2, <1>5, <2>2 DEF FileInv, VersionsFresh
    <2> QED
      BY <2>1, <2>2
  <1>6. /\ \A c \in Clusters : disk'[c][1] <= ops' /\ (disk'[c][1] # 0 => disk'[c][2] >= 1)
        /\ \A c, d \in Clusters : disk'[c] = disk'[d] /\ disk'[c][1] # 0 => c = d
    BY <1>2 DEF FileInv, VersionsFresh
  <1> QED
    BY <1>1, <1>2, <1>4, <1>5, <1>6 DEF VersionsFresh

\* What the operation has built when it writes the directory.
LEMMA DirBuilt ==
    ASSUME TypeInv, FileInv, spoiled = 0, NEW t \in Tasks, NEW slot, NEW e, NEW n, NEW s,
           DirWritten(t, slot, e, n, s)
    PROVE /\ op[t].version # 0 /\ op[t].size \in Nat
          /\ Rest(fat[1], disk, op[t].version, 1, Reach(loc[t]), FAT_ENTRY_END)
          /\ loc[t].first = 0 <=> op[t].size = 0
          /\ op[t].size > 0 => disk[loc[t].first] = <<op[t].version, 1>>
          /\ op[t].kind = "delete" => op[t].size = 0
          /\ \A c \in Clusters : disk[c][1] = op[t].version =>
                fat[1][c] # FAT_ENTRY_FREE /\ disk[c][2] >= 1 /\ disk[c][2] <= op[t].size
          /\ Reach(loc[t]) \in Nat /\ Reach(loc[t]) <= op[t].size
          /\ op[t].size > 0 => Reach(loc[t]) > 0
          /\ errors = 0 => Reach(loc[t]) = op[t].size
  <1>1. /\ pc[t] = "dirWrite" /\ Changing(t) /\ op[t].size \in Nat
        /\ (op[t].kind = "delete" => op[t].size = 0)
    BY ChangingFacts DEF DirWritten
  <1>2. loc[t].ret # "fail" /\ BuildingSound(t) /\ LastEntry(t) = FAT_ENTRY_END
    BY <1>1, SoundFacts DEF FailingSound, LastEntry, Linking, InEntry
  <1>3. /\ Rest(fat[1], disk, op[t].version, 1, Reach(loc[t]), FAT_ENTRY_END) /\ loc[t].i = op[t].size
        /\ \A c \in Clusters : disk[c][1] = op[t].version => fat[1][c] # FAT_ENTRY_FREE
        /\ loc[t].i = 0 => loc[t].first = 0
        /\ loc[t].i > 0 => loc[t].first \in Clusters /\ disk[loc[t].first] = <<op[t].version, 1>>
    BY <1>1, <1>2 DEF BuildingSound
  <1>4. op[t].version # 0 /\ pc[t] # "idle"
    BY <1>1, TaskFacts DEF FileInv, VersionsFresh
  <1>5. \A c \in Clusters : disk[c][1] = op[t].version => disk[c][2] >= 1 /\ disk[c][2] <= op[t].size
    BY <1>1, <1>3, <1>4 DEF FileInv, VersionsFresh
  <1>6. loc[t].first = 0 <=> op[t].size = 0
    BY <1>1, <1>3, ClusterNumbers
  <1>7. /\ Reach(loc[t]) \in Nat /\ Reach(loc[t]) <= op[t].size
        /\ op[t].size > 0 => Reach(loc[t]) > 0
        /\ errors = 0 => Reach(loc[t]) = op[t].size
    <2>1. loc[t].reach \in Nat
      BY TaskFacts, LocalsFields, Fat16Assumption
    <2>2. /\ errors = 0 => loc[t].reach = 0
          /\ loc[t].reach # 0 => loc[t].reach < loc[t].i
      BY <1>1, SoundFacts DEF ReachSound, LinksSound
    <2> QED
      BY <1>1, <1>3, <2>1, <2>2 DEF Reach
  <1> QED
    BY <1>1, <1>3, <1>4, <1>5, <1>6, <1>7

\* The slot held the file itself, or was free and the file did not exist.
LEMMA DirSlot ==
    ASSUME TypeInv, FileInv, spoiled = 0, NEW t \in Tasks, NEW slot, NEW e, NEW n, NEW s,
           DirWritten(t, slot, e, n, s)
    PROVE /\ \A x \in Slots : x # slot => root[x].name # n
          /\ root[slot].name \in {n, None}
          /\ \A x \in Slots : root[x] = NeverUsed => ~ (x < slot)
          /\ \/ root[slot].name = n /\ saved[n].version # 0 /\ loc[t].old = root[slot].first
             \/ saved[n].version = 0 /\ loc[t].old = 0
  <1>1. /\ slot = loc[t].slot /\ slot \in Slots /\ n = op[t].name /\ n \in Names /\ n # None
        /\ Changing(t) /\ pc[t] # "scan" /\ DirectorySound
    BY SoundFacts DEF DirWritten
  <1>2. Slots \subseteq Int
    BY ClusterNumbers
  <1>3. CASE saved[n].version # 0 /\ root[slot].name = n /\ loc[t].old = root[slot].first
    <2>1. \A x \in Slots : x # slot => root[x].name # n
      BY <1>1, <1>3 DEF DirectorySound
    <2>2. ASSUME NEW x \in Slots, root[x] = NeverUsed, x < slot PROVE FALSE
      <3>1. root[slot] = NeverUsed
        BY <1>1, <1>2, <2>2 DEF DirectorySound
      <3> QED
        BY <1>1, <1>3, <3>1 DEF NeverUsed
    <2>3. \A x \in Slots : root[x] = NeverUsed => ~ (x < slot)
      BY <2>2
    <2>4. root[slot].name \in {n, None}
      BY <1>3
    <2> QED
      BY <1>3, <2>1, <2>3, <2>4
  <1>4. CASE saved[n].version = 0 /\ slot \in FreeSlots(root) /\ loc[t].old = 0
    <2>1. root[slot] \in {NeverUsed, Deleted} /\ ~ Ended(root, slot - 1)
      BY <1>4 DEF FreeSlots
    <2>2. root[slot].name = None
      BY <2>1 DEF NeverUsed, Deleted
    <2>3. \A x \in Slots : root[x].name # n
      BY <1>1, <1>4 DEF DirectorySound
    <2>4. ASSUME NEW x \in Slots, root[x] = NeverUsed, x < slot PROVE FALSE
      <3>1. x \in 1..(slot - 1)
        BY <1>1, <2>4, Fat16Assumption DEF Slots
      <3> QED
        BY <2>1, <2>4, <3>1 DEF Ended
    <2> QED
      BY <1>4, <2>2, <2>3, <2>4
  <1> QED
    <2>1. SlotFound(t)
      BY SoundFacts
    <2> QED
      BY <1>1, <1>3, <1>4, <2>1 DEF SlotFound

LEMMA DirDirectory ==
    ASSUME TypeInv, FileInv, spoiled = 0, NEW t \in Tasks, NEW slot, NEW e, NEW n, NEW s,
           DirWritten(t, slot, e, n, s)
    PROVE DirectorySound'
  <1>1. /\ DirectorySound /\ slot \in Slots /\ n \in Names /\ n # None /\ e # NeverUsed
        /\ root'[slot] = e /\ \A x \in Slots : x # slot => root'[x] = root[x]
        /\ saved'[n] = s /\ \A m \in Names : m # n => saved'[m] = saved[m]
    BY SoundFacts DEF DirWritten
  <1>2. /\ \A x \in Slots : x # slot => root[x].name # n
        /\ root[slot].name \in {n, None}
        /\ \A x \in Slots : root[x] = NeverUsed => ~ (x < slot)
    BY DirSlot
  <1>3. \/ /\ e.name = n /\ e.size = s.size /\ s.version # 0
           /\ e.first = 0 <=> e.size = 0
        \/ e = Deleted /\ e.name = None /\ s.version = 0
    BY DirBuilt DEF DirWritten, Deleted, NotSaved
  <1>4. \A x \in Slots : root[x].name \in Names \cup {None}
    BY DEF TypeInv, DiskTyped, Dirents
  <1>5. ASSUME NEW x \in Slots, NEW y \in Slots, root'[x] = NeverUsed, x <= y
        PROVE root'[y] = NeverUsed
    <2>1. x # slot /\ root[x] = NeverUsed
      BY <1>1, <1>5
    <2>2. root[y] = NeverUsed
      BY <1>1, <1>5, <2>1 DEF DirectorySound
    <2>3. y # slot
      BY <1>2, <1>5, <2>1, ClusterNumbers
    <2> QED
      BY <1>1, <2>2, <2>3
  <1>6. ASSUME NEW x \in Slots, NEW y \in Slots, root'[x].name = root'[y].name, root'[x].name # None
        PROVE x = y
    <2>1. CASE x = slot \/ y = slot
      BY <1>1, <1>2, <1>3, <1>6, <2>1
    <2>2. CASE x # slot /\ y # slot
      BY <1>1, <1>6, <2>2 DEF DirectorySound
    <2> QED
      BY <2>1, <2>2
  <1>7. ASSUME NEW x \in Slots, root'[x].name = None PROVE root'[x] \in {NeverUsed, Deleted}
    <2>1. CASE x = slot
      BY <1>1, <1>3, <1>7, <2>1
    <2>2. CASE x # slot
      BY <1>1, <1>7, <2>2 DEF DirectorySound
    <2> QED
      BY <2>1, <2>2
  <1>8. ASSUME NEW x \in Slots, root'[x].name # None
        PROVE /\ saved'[root'[x].name].version # 0
              /\ root'[x].size = saved'[root'[x].name].size
              /\ (root'[x].first = 0) <=> (root'[x].size = 0)
    <2>1. CASE x = slot
      BY <1>1, <1>3, <1>8, <2>1
    <2>2. CASE x # slot
      <3>1. root'[x] = root[x] /\ root[x].name \in Names /\ root[x].name # n
        BY <1>1, <1>2, <1>4, <1>8, <2>2
      <3>2. saved'[root[x].name] = saved[root[x].name]
        BY <1>1, <3>1
      <3> QED
        BY <1>1, <1>8, <3>1, <3>2 DEF DirectorySound
    <2> QED
      BY <2>1, <2>2
  <1>9. ASSUME NEW m \in Names, saved'[m].version # 0 PROVE \E x \in Slots : root'[x].name = m
    <2>1. CASE m = n
      BY <1>1, <1>3, <1>9, <2>1
    <2>2. CASE m # n
      <3>1. PICK x \in Slots : root[x].name = m
        BY <1>1, <1>9, <2>2 DEF DirectorySound
      <3>2. x # slot
        BY <1>2, <2>2, <3>1, Fat16Assumption
      <3> QED
        BY <1>1, <3>1, <3>2
    <2> QED
      BY <2>1, <2>2
  <1> QED
    BY <1>5, <1>6, <1>7, <1>8, <1>9 DEF DirectorySound

LEMMA DirWriteSound ==
    ASSUME OneTask, TypeInv, FileInv, NEW t \in Tasks, DirWrite(t)
    PROVE FileInv'
  <1> PICK slot, e, n, s : DirWritten(t, slot, e, n, s)
    BY DirWriteDoes
  <1>1. /\ pc[t] = "dirWrite" /\ Changing(t) /\ slot \in Slots /\ n = op[t].name /\ n \in Names
        /\ root'[slot] = e /\ (\A x \in Slots : x # slot => root'[x] = root[x])
        /\ saved'[n] = s /\ (\A m \in Names : m # n => saved'[m] = saved[m])
        /\ fat' = fat /\ disk' = disk /\ spoiled' = spoiled /\ errors' = errors /\ kills' = kills
        /\ pc'[t] = "idle" /\ loc'[t] = NoLocals /\ op'[t] = NoOp /\ stale' = stale \ {n}
    BY DEF DirWritten
  <1>2. \A u \in Tasks : u = t
    BY DEF OneTask
  <1>3. ~ InEntry(t) /\ ~ InEntry(t)' /\ ~ HalfWritten(t)' /\ ~ Claiming(t)
    BY <1>1 DEF InEntry, HalfWritten, Claiming
  <1>4. SectorsFresh'
    BY <1>1, SectorsElsewhere
  <1>5. CopiesInv'
    BY <1>1, <1>3, CopiesSame DEF FileInv
  <1>6. VersionsFresh'
    BY DirVersions
  <1>7. ASSUME spoiled' = 0 PROVE ChainInv'
    <2>1. spoiled = 0 /\ DirectorySound /\ FilesSound /\ NothingLeaked /\ ReachSound
      BY <1>1, <1>7, SoundFacts
    <2>2. DirectorySound'
      BY <2>1, DirDirectory
    <2>3. \A m \in Names : Kept(m)' <=> saved'[m].version # 0 /\ (m = n \/ m \notin stale)
      <3>1. ~ Changing(t)'
        BY <1>1 DEF Changing, NoOp
      <3> QED
        BY <1>1, <3>1, SuspendedByTaskNext DEF Kept
    <2>4. \A m \in Names : m # n => (Kept(m) <=> saved[m].version # 0 /\ m \notin stale)
      BY <1>1, SuspendedByTask DEF Kept
    <2>5. /\ op[t].version # 0 /\ op[t].size \in Nat
          /\ Rest(fat[1], disk, op[t].version, 1, Reach(loc[t]), FAT_ENTRY_END)
          /\ loc[t].first = 0 <=> op[t].size = 0
          /\ op[t].size > 0 => disk[loc[t].first] = <<op[t].version, 1>>
          /\ op[t].kind = "delete" => op[t].size = 0
          /\ \A c \in Clusters : disk[c][1] = op[t].version =>
                fat[1][c] # FAT_ENTRY_FREE /\ disk[c][2] >= 1 /\ disk[c][2] <= op[t].size
          /\ Reach(loc[t]) \in Nat /\ Reach(loc[t]) <= op[t].size
          /\ op[t].size > 0 => Reach(loc[t]) > 0
          /\ errors = 0 => Reach(loc[t]) = op[t].size
      BY <2>1, DirBuilt
    <2>6. /\ \A x \in Slots : x # slot => root[x].name # n
          /\ root[slot].name \in {n, None}
          /\ \/ root[slot].name = n /\ saved[n].version # 0 /\ loc[t].old = root[slot].first
             \/ saved[n].version = 0 /\ loc[t].old = 0
      BY <2>1, DirSlot
    <2>7. \/ /\ op[t].kind = "write" /\ e.name = n /\ e.first = loc[t].first /\ e.size = op[t].size
             /\ s.version = op[t].version /\ s.size = op[t].size /\ s.reach = Reach(loc[t])
          \/ op[t].kind = "delete" /\ e.name = None /\ s.version = 0 /\ s.size = 0 /\ s.reach = 0
      BY DEF DirWritten, Deleted, NotSaved
    <2>11. ReachSound'
      <3>1. ASSUME NEW m \in Names
            PROVE LET x == saved'[m] IN
                  /\ x.reach <= x.size /\ (x.size > 0 => x.reach > 0) /\ (errors' = 0 => x.reach = x.size)
                  /\ \A c \in Clusters : disk'[c][1] = x.version /\ x.version # 0 => disk'[c][2] <= x.size
        <4>1. CASE m = n
          BY <1>1, <2>5, <2>7, <4>1
        <4>2. CASE m # n
          BY <1>1, <2>1, <4>2 DEF ReachSound
        <4> QED
          BY <4>1, <4>2
      <3>2. LinksSound(t)'
        BY <1>1 DEF LinksSound, Changing, NoOp
      <3> QED
        BY <1>2, <3>1, <3>2 DEF ReachSound
    <2>8. FilesSound'
      <3>1. ASSUME NEW m \in Names, saved'[m].version # 0, m = n \/ m \notin stale
            PROVE /\ Rest(fat[1], disk, saved'[m].version, 1, saved'[m].reach, FAT_ENTRY_END)
                  /\ \A c \in Clusters : disk[c][1] = saved'[m].version => fat[1][c] # FAT_ENTRY_FREE
                  /\ \A x \in Slots : root'[x].name = m /\ root'[x].size > 0 =>
                        disk[root'[x].first] = <<saved'[m].version, 1>>
        <4>1. CASE m = n
          <5>1. /\ e.name = n /\ e.first = loc[t].first /\ e.size = op[t].size
                /\ s.version = op[t].version /\ s.size = op[t].size /\ s.reach = Reach(loc[t])
            BY <1>1, <2>7, <3>1, <4>1
          <5>2. ASSUME NEW x \in Slots, root'[x].name = m, root'[x].size > 0
                PROVE disk[root'[x].first] = <<saved'[m].version, 1>>
            <6>1. x = slot
              BY <1>1, <2>6, <4>1, <5>2
            <6> QED
              BY <1>1, <2>5, <4>1, <5>1, <5>2, <6>1
          <5> QED
            BY <1>1, <2>5, <4>1, <5>1, <5>2
        <4>2. CASE m # n
          <5>1. Kept(m) /\ saved'[m] = saved[m]
            BY <1>1, <2>4, <3>1, <4>2
          <5>2. ASSUME NEW x \in Slots, root'[x].name = m PROVE root'[x] = root[x]
            <6>1. x # slot
              BY <1>1, <2>7, <4>2, <5>2, Fat16Assumption
            <6> QED
              BY <1>1, <6>1
          <5> QED
            BY <2>1, <5>1, <5>2 DEF FilesSound
        <4> QED
          BY <4>1, <4>2
      <3> QED
        BY <1>1, <2>3, <3>1 DEF FilesSound
    <2>9. NothingLeaked'
      <3>1. ASSUME NEW c \in Clusters, fat[1][c] # FAT_ENTRY_FREE, errors = 0, kills = 0
            PROVE \E m \in Names : Kept(m)' /\ disk[c][1] = saved'[m].version
        <4>1. Accounted(c)
          BY <2>1, <3>1 DEF NothingLeaked
        <4>2. ASSUME NEW m \in Names, Kept(m), disk[c][1] = saved[m].version
              PROVE \E l \in Names : Kept(l)' /\ disk[c][1] = saved'[l].version
          <5>1. CASE m # n
            <6>1. saved'[m] = saved[m] /\ Kept(m)'
              BY <1>1, <2>3, <2>4, <4>2, <5>1
            <6> QED
              BY <4>2, <6>1
          <5>2. CASE m = n
            <6>1. saved[n].version # 0 /\ loc[t].old = 0
              BY <1>1, <4>2, <5>2, SuspendedByTask DEF Kept
            <6>2. root[slot].name = n /\ root[slot].first = 0 /\ n # None
              BY <2>6, <6>1, <1>1, Fat16Assumption
            <6>3. saved[n].size = 0
              BY <1>1, <2>1, <6>2 DEF DirectorySound
            <6>4. disk[c][2] <= 0 /\ disk[c][2] >= 1
              BY <1>1, <2>1, <4>2, <5>2, <6>1, <6>3 DEF ReachSound, FileInv, VersionsFresh
            <6> QED
              BY <6>4, TablesTyped
          <5> QED
            BY <5>1, <5>2
        <4>3. ASSUME InProgress(t, c)
              PROVE \E l \in Names : Kept(l)' /\ disk[c][1] = saved'[l].version
          <5>1. disk[c][1] = op[t].version
            BY <1>1, <1>3, <4>3 DEF InProgress
          <5>2. op[t].size # 0
            BY <2>5, <5>1, TablesTyped
          <5>3. op[t].kind = "write" /\ s.version = op[t].version
            BY <2>5, <2>7, <5>2
          <5> QED
            BY <1>1, <2>3, <2>5, <5>1, <5>3
        <4> QED
          BY <1>2, <4>1, <4>2, <4>3 DEF Accounted
      <3> QED
        BY <1>1, <3>1 DEF NothingLeaked, Accounted
    <2>10. TaskSound(t)'
      BY <1>1 DEF TaskSound, SlotFound, FreeingSound, BuildingSound, FailingSound, ClaimSound,
                  ReadingSound, Changing, Claiming, InEntry, NoOp
    <2> QED
      BY <1>2, <2>2, <2>8, <2>9, <2>10, <2>11 DEF ChainInv
  <1> QED
    BY <1>4, <1>5, <1>6, <1>7 DEF FileInv

\* find_file has found an entry to read, or a slot to change.
ReadFound(t, x) ==
    LET w == loc'[t] IN
    /\ x \in Matches(root, op[t].name) /\ x \in Slots /\ op[t].kind = "read" /\ op'[t] = op[t]
    /\ sector'[t] = sector[t] /\ w.cluster = root[x].first /\ w.i = root[x].size /\ w.got = <<>>
    /\ pc'[t] = IF root[x].first \in Clusters /\ root[x].size > 0 THEN "readData" ELSE "readDone"
    /\ spoiled' = spoiled

ChangeFound(t, x) ==
    LET w == loc'[t] IN
    /\ Changing(t) /\ x \in Slots /\ op'[t] = op[t]
    /\ w.slot = x /\ w.i = 0 /\ w.first = 0 /\ w.ret = AfterFree(t) /\ w.old \in Starts /\ w.reach = 0
    /\ \/ x \in Matches(root, op[t].name) /\ w.old = root[x].first
       \/ /\ Matches(root, op[t].name) = {} /\ op[t].kind = "write"
          /\ x \in FreeSlots(root) /\ w.old = 0
    /\ w.old \in Clusters => pc'[t] = "freeRead" /\ w.cluster = w.old
    /\ w.old \notin Clusters => pc'[t] = AfterFree(t)
    /\ spoiled' = IF op[t].name \in stale /\ w.old \in Clusters /\ fat[1][w.old] # FAT_ENTRY_FREE THEN 1
                  ELSE spoiled

LEMMA AfterFreeIs ==
    ASSUME TypeInv, NEW t \in Tasks, Changing(t)
    PROVE /\ AfterFree(t) \in {"allocRead", "dirRead"} /\ AfterFree(t) \in Labels
          /\ AfterFree(t) = "dirRead" => op[t].size = 0
  <1>1. op[t].size \in Nat /\ (op[t].kind = "delete" => op[t].size = 0)
    BY ChangingFacts
  <1> QED
    BY <1>1 DEF AfterFree, Labels, Changing

LEMMA ScanDoes ==
    ASSUME TypeInv, NEW t \in Tasks, Scan(t)
    PROVE (Return(t) /\ spoiled' = spoiled) \/ (\E x : ReadFound(t, x)) \/ (\E x : ChangeFound(t, x))
  <1> PICK n : n = op[t].name
    OBVIOUS
  <1> DEFINE existed == Matches(root, n) # {}
  <1> PICK s : s = SlotFor(root, n)
    OBVIOUS
  <1> PICK old : old = IF existed THEN root[s].first ELSE 0
    OBVIOUS
  <1> PICK found : found = FoundAt(s, old, AfterFree(t))
    OBVIOUS
  <1>1. /\ s \in {0} \cup Slots /\ (existed => s \in Matches(root, n) /\ s \in Slots)
        /\ (~ existed /\ s # 0 => s \in FreeSlots(root))
    BY SlotForFinds DEF Matches
  <1>2. old \in Starts /\ old \in Nat /\ (existed => root[s].size \in 0..(MaxSize + 1) /\ old = root[s].first)
    BY <1>1, ClusterNumbers DEF TypeInv, DiskTyped, Dirents, Starts
  <1>3. AfterFree(t) \in Labels
    BY DEF AfterFree, Labels
  <1>4. /\ found \in Locals /\ found.slot = s /\ found.old = old /\ found.ret = AfterFree(t)
        /\ found.got = <<>> /\ found.i = 0 /\ found.first = 0 /\ found.reach = 0
    <2>1. /\ found \in Locals /\ found.slot = s /\ found.old = old /\ found.ret = AfterFree(t)
          /\ found.got = <<>> /\ found.reach = 0 /\ SameChain(NoLocals, found)
      <3>1. s \in {0} \cup Slots /\ old \in Starts /\ AfterFree(t) \in Labels
        BY <1>1, <1>2, <1>3
      <3> QED
        BY <3>1, FoundAtTyped
    <2> QED
      BY <2>1 DEF SameChain, NoLocals
  <1>5. CASE /\ op[t].kind = "read" /\ existed
             /\ Goto(t, IF InChain(old) /\ root[s].size > 0 THEN "readData" ELSE "readDone",
                     [found EXCEPT !.cluster = old, !.i = root[s].size])
             /\ UNCHANGED <<op, sector, spoiled>>
    <2> PICK l : l = IF InChain(old) /\ root[s].size > 0 THEN "readData" ELSE "readDone"
      OBVIOUS
    <2> PICK k \in 0..(MaxSize + 1) : k = root[s].size
      BY <1>2, <1>5
    <2>1. l \in Labels /\ PerTask /\ found \in Locals /\ old \in Nat
      BY <1>2, <1>4, TaskFacts DEF Labels
    <2>2. Goto(t, l, Reading(found, old, k)) /\ UNCHANGED <<op, sector>>
      BY <1>5 DEF Reading
    <2>3. /\ pc'[t] = l /\ op'[t] = op[t] /\ sector'[t] = sector[t]
          /\ loc'[t].cluster = old /\ loc'[t].i = k /\ loc'[t].got = found.got
      BY <2>1, <2>2, GoesReading
    <2>4. ReadFound(t, s)
      BY <1>1, <1>2, <1>4, <1>5, <2>3 DEF ReadFound, InChain
    <2> QED
      BY <2>4
  <1>6. CASE /\ (op[t].kind = "write" /\ s # 0) \/ (op[t].kind = "delete" /\ existed)
             /\ IF InChain(old) THEN Goto(t, "freeRead", [found EXCEPT !.cluster = old])
                ELSE Goto(t, AfterFree(t), [found EXCEPT !.cluster = 2])
             /\ spoiled' = IF n \in stale /\ InChain(old) /\ fat[1][old] # FAT_ENTRY_FREE THEN 1
                           ELSE spoiled
             /\ UNCHANGED <<op, sector>>
    <2>1. Changing(t) /\ s \in Slots
      BY <1>1, <1>6 DEF Changing
    <2> PICK l, c : /\ l = IF InChain(old) THEN "freeRead" ELSE AfterFree(t)
                    /\ c = IF InChain(old) THEN old ELSE 2
      OBVIOUS
    <2>2. l \in Labels /\ c \in Nat /\ Goto(t, l, At(found, c))
      BY <1>2, <1>3, <1>6, ClusterNumbers DEF At, Labels
    <2>3. /\ pc'[t] = l /\ op'[t] = op[t] /\ loc'[t].cluster = c /\ loc'[t].slot = found.slot
          /\ loc'[t].old = found.old /\ loc'[t].i = found.i /\ loc'[t].first = found.first
          /\ loc'[t].ret = found.ret /\ loc'[t].reach = found.reach
      <3>1. PerTask /\ found \in Locals /\ c \in Nat /\ l \in Labels
        BY <1>4, <2>2, TaskFacts
      <3>2. Goto(t, l, At(found, c)) /\ UNCHANGED <<op, sector>>
        BY <1>6, <2>2
      <3>3. pc'[t] = l /\ op'[t] = op[t]
        BY <3>1, <3>2, GoesAt
      <3>4. LET w == loc'[t] IN
            /\ w.cluster = c /\ w.slot = found.slot /\ w.old = found.old
            /\ w.i = found.i /\ w.first = found.first /\ w.ret = found.ret /\ w.reach = found.reach
        BY <3>1, <3>2, GoesAt
      <3> QED
        BY <3>3, <3>4
    <2>4. /\ loc'[t].cluster = c /\ loc'[t].slot = s /\ loc'[t].old = old /\ loc'[t].i = 0
          /\ loc'[t].first = 0 /\ loc'[t].ret = AfterFree(t) /\ loc'[t].reach = 0
      BY <1>4, <2>3
    <2>5. ~ existed => Matches(root, n) = {} /\ op[t].kind = "write" /\ s \in FreeSlots(root) /\ old = 0
      BY <1>1, <1>6
    <2>6. ChangeFound(t, s)
      BY <1>1, <1>2, <1>6, <2>1, <2>3, <2>4, <2>5 DEF ChangeFound, InChain
    <2> QED
      BY <2>6
  <1> QED
    BY <1>5, <1>6 DEF Scan, FoundAt

\* The directory's first matching entry is the one entry of the file.
LEMMA MatchesAre ==
    ASSUME DirectorySound, NEW n \in Names
    PROVE /\ \A x \in Slots : x \in Matches(root, n) <=> root[x].name = n
          /\ Matches(root, n) \subseteq Slots
          /\ Matches(root, n) = {} <=> saved[n].version = 0
  <1>1. ASSUME NEW x \in Slots, root[x].name = n PROVE ~ Ended(root, x)
    <2>1. SUFFICES ASSUME NEW y \in 1..x, root[y] = NeverUsed PROVE FALSE
      BY DEF Ended
    <2>2. y \in Slots /\ y <= x
      BY Fat16Assumption DEF Slots
    <2>3. root[x] = NeverUsed
      BY <2>1, <2>2 DEF DirectorySound
    <2> QED
      BY <1>1, <2>3, Fat16Assumption DEF NeverUsed
  <1>2. \A x \in Slots : x \in Matches(root, n) <=> root[x].name = n
    BY <1>1 DEF Matches
  <1>3. Matches(root, n) \subseteq Slots
    BY DEF Matches
  <1>4. Matches(root, n) = {} <=> saved[n].version = 0
    <2>1. saved[n].version # 0 => \E x \in Slots : root[x].name = n
      BY DEF DirectorySound
    <2>2. \A x \in Slots : root[x].name = n => saved[n].version # 0
      BY Fat16Assumption DEF DirectorySound
    <2> QED
      BY <1>2, <1>3, <2>1, <2>2
  <1> QED
    BY <1>2, <1>3, <1>4

\* Before find_file has looked, the operation has no cluster and no file is suspended.
LEMMA ScanFacts ==
    ASSUME OneTask, TypeInv, FileInv, NEW t \in Tasks, pc[t] = "scan", NEW n, n = op[t].name
    PROVE /\ loc[t] = NoLocals /\ sector[t] = <<>> /\ n \in Names /\ ~ InEntry(t) /\ ~ Claiming(t)
          /\ Changing(t) => \A c \in Clusters : disk[c][1] # op[t].version
          /\ \A m : Kept(m) <=> saved[m].version # 0 /\ m \notin stale
          /\ \A c : ~ InProgress(t, c) \/ c \notin Clusters
          /\ op[t].version # 0
  <1>1. loc[t] = NoLocals /\ sector[t] = <<>> /\ n \in Names
    BY TaskFacts DEF PlaceTyped, SectorTyped
  <1>2. ~ InEntry(t) /\ ~ Claiming(t) /\ loc[t].i = 0 /\ loc[t].old = 0
    BY <1>1 DEF InEntry, Claiming, NoLocals
  <1>3. op[t].version # 0
    BY DEF FileInv, VersionsFresh
  <1>4. ASSUME Changing(t), NEW c \in Clusters, disk[c][1] = op[t].version PROVE FALSE
    <2>1. disk[c][2] >= 1
      BY <1>3, <1>4 DEF FileInv, VersionsFresh
    <2>2. disk[c][2] <= 0
      BY <1>2, <1>4 DEF FileInv, VersionsFresh
    <2>3. disk[c][2] \in Nat
      BY TablesTyped
    <2> QED
      BY <2>1, <2>2, <2>3
  <1>5. \A m : Kept(m) <=> saved[m].version # 0 /\ m \notin stale
    BY <1>2, SuspendedByTask DEF Kept
  <1>6. \A c : ~ InProgress(t, c) \/ c \notin Clusters
    BY <1>2, <1>4 DEF InProgress
  <1> QED
    BY <1>1, <1>2, <1>3, <1>4, <1>5, <1>6

\* An access of the directory for a read.
LEMMA ScanReads ==
    ASSUME OneTask, TypeInv, FileInv, NEW t \in Tasks, Scan(t), NEW x, ReadFound(t, x)
    PROVE FileInv'
  <1> PICK w, n : w = loc'[t] /\ n = op[t].name
    OBVIOUS
  <1>1. /\ pc[t] = "scan" /\ UNCHANGED <<diskVars, saved, ops, errors, kills, stale>>
    BY DEF Scan
  <1>2. /\ x \in Matches(root, n) /\ x \in Slots /\ op[t].kind = "read" /\ op'[t] = op[t]
        /\ sector'[t] = sector[t] /\ w.cluster = root[x].first /\ w.i = root[x].size /\ w.got = <<>>
        /\ pc'[t] = IF root[x].first \in Clusters /\ root[x].size > 0 THEN "readData" ELSE "readDone"
        /\ spoiled' = spoiled
    BY DEF ReadFound
  <1>3. /\ sector[t] = <<>> /\ n \in Names /\ ~ InEntry(t)
        /\ \A m : Kept(m) <=> saved[m].version # 0 /\ m \notin stale
        /\ \A c : ~ InProgress(t, c) \/ c \notin Clusters
    BY <1>1, ScanFacts
  <1>4. SameVolume /\ fat' = fat /\ ops' = ops /\ spoiled' = spoiled /\ errors' = errors /\ kills' = kills
    BY <1>1, <1>2 DEF SameVolume, diskVars
  <1>5. \A u \in Tasks : u = t
    BY DEF OneTask
  <1>6. ~ Changing(t) /\ ~ Changing(t)' /\ ~ InEntry(t)' /\ ~ HalfWritten(t)'
        /\ pc'[t] \in {"readData", "readDone"}
    BY <1>2 DEF Changing, InEntry, HalfWritten
  <1>7. SectorsFresh'
    BY <1>2, <1>3, <1>5, <1>6 DEF SectorsFresh
  <1>8. CopiesInv'
    BY <1>3, <1>4, <1>6, CopiesSame DEF FileInv
  <1>9. VersionsFresh'
    BY <1>1, <1>2, <1>4, <1>6, VersionsSame DEF FileInv, SameVolume
  <1>10. ASSUME spoiled' = 0 PROVE ChainInv'
    <2>1. DirectorySound /\ FilesSound /\ NothingLeaked /\ ReachSound
      BY <1>4, <1>10, SoundFacts
    <2>2. \A m : Kept(m)' <=> Kept(m)
      BY <1>3, <1>4, <1>6, SuspendedByTaskNext DEF Kept, SameVolume
    <2>3. DirectorySound' /\ FilesSound'
      BY <1>4, <2>1, <2>2, FilesSame, DirectorySame DEF SameVolume, SameChains
    <2>4. ReadingSound(t)'
      <3>1. root[x].name = n /\ n # None
        BY <1>2, Fat16Assumption, <1>3 DEF Matches
      <3>2. /\ saved[n].version # 0 /\ root[x].size = saved[n].size
            /\ (root[x].first = 0 <=> root[x].size = 0)
        BY <1>2, <2>1, <3>1 DEF DirectorySound
      <3>3. root[x].first \in Starts /\ root[x].size \in Nat
        BY <1>2, Fat16Assumption DEF TypeInv, DiskTyped, Dirents, Starts
      <3>4. n \notin stale /\ root[x].size > 0 => disk[root[x].first] = <<saved[n].version, 1>>
        BY <1>2, <1>3, <2>1, <3>1, <3>2 DEF FilesSound
      <3>5. Len(w.got) = 0 /\ w.got = [i \in 1..0 |-> <<saved[n].version, i>>]
        BY <1>2
      <3>6. /\ saved[n].reach \in Nat /\ saved[n].reach <= saved[n].size /\ op[t].size \in Nat
            /\ saved[n].size > 0 => saved[n].reach > 0
        BY <1>3, <2>1, SavedTyped, TaskFacts, Fat16Assumption DEF ReachSound, Operations
      <3>7. pc'[t] = "readDone" => saved[n].reach = 0
        BY <1>2, <3>2, <3>3, <3>6 DEF Starts
      <3>8. pc'[t] = "readData" /\ n \notin stale =>
               /\ disk[w.cluster][1] = saved[n].version /\ disk[w.cluster][2] = 1
               /\ 1 <= saved[n].reach
        BY <1>2, <3>2, <3>4, <3>6
      <3>9. Least(0, op[t].size) = 0 /\ 1 - 1 = 0
        BY <3>6 DEF Least
      <3>10. n \notin stale => ReadingSound(t)'
        <4>1. CASE pc'[t] = "readData"
          BY <1>2, <1>4, <3>2, <3>5, <3>8, <3>9, <4>1 DEF ReadingSound, SameVolume
        <4>2. CASE pc'[t] = "readDone"
          BY <1>2, <1>4, <3>2, <3>5, <3>7, <3>9, <4>2 DEF ReadingSound, SameVolume
        <4> QED
          BY <1>6, <4>1, <4>2
      <3>11. n \in stale => ReadingSound(t)'
        BY <1>2, <1>4 DEF ReadingSound, SameVolume
      <3> QED
        BY <3>10, <3>11
    <2>5. TaskSound(t)'
      BY <1>6, <2>4 DEF TaskSound, SlotFound, FreeingSound, BuildingSound, FailingSound, ClaimSound,
                        Claiming
    <2>6. NothingLeaked'
      <3>1. ASSUME NEW c \in Clusters, fat[1][c] # FAT_ENTRY_FREE, errors = 0, kills = 0
            PROVE \E m \in Names : Kept(m)' /\ disk[c][1] = saved[m].version
        BY <1>3, <1>5, <2>1, <2>2, <3>1 DEF NothingLeaked, Accounted
      <3> QED
        BY <1>4, <3>1 DEF NothingLeaked, Accounted, SameVolume
    <2>7. ReachSound'
      BY <1>4, <1>6, <2>1, ReachSame DEF SameVolume, LinksSound
    <2> QED
      BY <1>5, <2>3, <2>5, <2>6, <2>7 DEF ChainInv
  <1> QED
    BY <1>7, <1>8, <1>9, <1>10 DEF FileInv

\* The entry of a file to be written or deleted, or a free slot.
LEMMA ScanChanges ==
    ASSUME OneTask, TypeInv, FileInv, NEW t \in Tasks, Scan(t), NEW x, ChangeFound(t, x)
    PROVE FileInv'
  <1> PICK w, n, ver : w = loc'[t] /\ n = op[t].name /\ ver = op[t].version
    OBVIOUS
  <1>1. /\ pc[t] = "scan" /\ UNCHANGED <<diskVars, saved, ops, errors, kills, stale>>
    BY DEF Scan
  <1>2. /\ Changing(t) /\ x \in Slots /\ op'[t] = op[t]
        /\ w.slot = x /\ w.i = 0 /\ w.first = 0 /\ w.ret = AfterFree(t) /\ w.old \in Starts /\ w.reach = 0
        /\ \/ x \in Matches(root, n) /\ w.old = root[x].first
           \/ /\ Matches(root, n) = {} /\ op[t].kind = "write"
              /\ x \in FreeSlots(root) /\ w.old = 0
        /\ w.old \in Clusters => pc'[t] = "freeRead" /\ w.cluster = w.old
        /\ w.old \notin Clusters => pc'[t] = AfterFree(t)
        /\ spoiled' = IF n \in stale /\ w.old \in Clusters /\ fat[1][w.old] # FAT_ENTRY_FREE THEN 1
                      ELSE spoiled
    BY DEF ChangeFound
  <1>3. /\ loc[t] = NoLocals /\ n \in Names /\ ~ InEntry(t)
        /\ \A c \in Clusters : disk[c][1] # ver
        /\ \A m : Kept(m) <=> saved[m].version # 0 /\ m \notin stale
        /\ \A c : ~ InProgress(t, c) \/ c \notin Clusters
        /\ ver # 0
    BY <1>1, <1>2, ScanFacts
  <1>4. SameVolume /\ fat' = fat /\ ops' = ops /\ errors' = errors /\ kills' = kills
    BY <1>1 DEF SameVolume, diskVars
  <1>5. \A u \in Tasks : u = t
    BY DEF OneTask
  <1>6. /\ AfterFree(t) \in {"allocRead", "dirRead"} /\ w.ret # "fail"
        /\ (AfterFree(t) = "dirRead" => op[t].size = 0)
    BY <1>2, AfterFreeIs
  <1>7. /\ Changing(t)' /\ ~ InEntry(t)' /\ ~ HalfWritten(t)' /\ ~ Claiming(t)'
        /\ LastEntry(t)' = FAT_ENTRY_END
        /\ pc'[t] \in {"freeRead", "allocRead", "dirRead"}
        /\ (pc'[t] = "freeRead" <=> w.old \in Clusters)
    BY <1>2, <1>6 DEF Changing, InEntry, HalfWritten, Claiming, LastEntry, Linking
  <1>8. SectorsFresh'
    BY <1>7, SectorsElsewhere
  <1>9. CopiesInv'
    BY <1>3, <1>4, <1>7, CopiesSame DEF FileInv
  <1>10. VersionsFresh'
    <2>1. loc[t].i = 0
      BY <1>3 DEF NoLocals
    <2> QED
      BY <1>1, <1>2, <1>4, <2>1, VersionsSame DEF FileInv, SameVolume
  <1>11. ASSUME spoiled' = 0 PROVE ChainInv'
    <2>0. spoiled = 0 /\ ~ (n \in stale /\ w.old \in Clusters /\ fat[1][w.old] # FAT_ENTRY_FREE)
      BY <1>2, <1>11
    <2>1. DirectorySound /\ FilesSound /\ NothingLeaked /\ ReachSound
      BY <2>0, SoundFacts
    <2>2. \A m : Kept(m)' => Kept(m)
      BY <1>3, <1>4 DEF Kept, SameVolume
    <2>3. \A m : Kept(m) /\ (m # n \/ w.old = 0) => Kept(m)'
      BY <1>2, <1>3, <1>4, SuspendedByTaskNext DEF Kept, SameVolume
    <2>4. DirectorySound' /\ FilesSound'
      BY <1>4, <2>1, <2>2, FilesSame, DirectorySame DEF SameVolume, SameChains
    <2>5. \/ saved[n].version # 0 /\ root[x].name = n /\ w.old = root[x].first
          \/ saved[n].version = 0 /\ op[t].kind = "write" /\ x \in FreeSlots(root) /\ w.old = 0
      BY <1>2, <1>3, <2>1, MatchesAre
    <2>6. SlotFound(t)'
      BY <1>2, <1>4, <2>5 DEF SlotFound, SameVolume
    <2>7. pc'[t] = "freeRead" /\ n \notin stale =>
             /\ disk[w.old] = <<saved[n].version, 1>> /\ w.old # 0 /\ saved[n].version # 0
             /\ 1 <= saved[n].reach
             /\ Rest(fat[1], disk, saved[n].version, 1, saved[n].reach, FAT_ENTRY_END)
      <3>1. SUFFICES ASSUME w.old \in Clusters, n \notin stale
                     PROVE /\ disk[w.old] = <<saved[n].version, 1>> /\ w.old # 0
                           /\ saved[n].version # 0 /\ 1 <= saved[n].reach
                           /\ Rest(fat[1], disk, saved[n].version, 1, saved[n].reach, FAT_ENTRY_END)
        BY <1>7
      <3>2. w.old # 0 /\ saved[n].version # 0 /\ root[x].name = n /\ w.old = root[x].first
        BY <2>5, <3>1, ClusterNumbers
      <3>3. root[x].size > 0
        <4>1. root[x].size # 0
          BY <1>2, <1>3, <2>1, <3>2, Fat16Assumption DEF DirectorySound
        <4>2. root[x].size \in Nat
          BY <1>2, Fat16Assumption DEF TypeInv, DiskTyped, Dirents
        <4> QED
          BY <4>1, <4>2
      <3>4. Kept(n)
        BY <1>3, <3>1, <3>2
      <3>5. 1 <= saved[n].reach
        <4>1. saved[n].size = root[x].size /\ saved[n].reach \in Nat
          BY <1>2, <1>3, <2>1, <3>2, SavedTyped, Fat16Assumption DEF DirectorySound
        <4> QED
          BY <1>3, <2>1, <3>3, <4>1 DEF ReachSound
      <3> QED
        BY <1>2, <1>3, <2>1, <3>2, <3>3, <3>4, <3>5 DEF FilesSound
    <2>8. FreedVersion(t)' = saved[n].version /\ FreedSize(t)' = saved[n].reach
      BY <1>2, <1>4, <1>6 DEF FreedVersion, FreedSize, SameVolume
    <2>9. FreeingSound(t)'
      <3>1. CASE pc'[t] = "freeRead" /\ n \in stale
        <4>1. w.old \in Clusters /\ w.cluster = w.old /\ fat[1][w.old] = FAT_ENTRY_FREE /\ w.old # 0
          BY <1>2, <1>7, <2>0, <3>1, ClusterNumbers
        <4>2. Emptied(t)'
          BY <1>2, <1>4, <1>6, <3>1, <4>1 DEF Emptied, SameVolume
        <4> QED
          BY <1>7, <4>2 DEF FreeingSound
      <3>2. CASE pc'[t] = "freeRead" /\ n \notin stale
        BY <1>2, <1>4, <1>7, <2>7, <2>8, <3>2 DEF FreeingSound, SameVolume
      <3>3. CASE pc'[t] # "freeRead"
        BY <1>7, <3>3 DEF FreeingSound
      <3> QED
        BY <3>1, <3>2, <3>3
    <2>10. BuildingSound(t)'
      <3>1. Rest(fat[1], disk, ver, 1, 0, FAT_ENTRY_END) /\ Reach(w) = 0
        BY <1>2, RestEmpty, TablesTyped DEF Reach
      <3> QED
        BY <1>2, <1>3, <1>4, <1>6, <1>7, <3>1 DEF BuildingSound, SameVolume
    <2>11. FailingSound(t)' /\ ClaimSound(t)' /\ ReadingSound(t)'
      BY <1>2, <1>6, <1>7 DEF FailingSound, ClaimSound, ReadingSound
    <2>12. NothingLeaked'
      <3>1. ASSUME NEW c \in Clusters, fat'[1][c] # FAT_ENTRY_FREE, errors' = 0, kills' = 0
            PROVE Accounted(c)'
        <4>1. PICK m \in Names : Kept(m) /\ disk[c][1] = saved[m].version
          BY <1>3, <1>4, <1>5, <2>1, <3>1 DEF NothingLeaked, Accounted
        <4>2. CASE m # n \/ w.old = 0
          <5>1. Kept(m)' /\ disk'[c][1] = saved'[m].version
            BY <1>4, <2>3, <4>1, <4>2 DEF SameVolume
          <5> QED
            BY <5>1 DEF Accounted
        <4>3. CASE m = n /\ w.old # 0
          <5>1. w.old \in Clusters /\ pc'[t] = "freeRead" /\ w.cluster = w.old
            BY <1>2, <4>3 DEF Starts
          <5>2. disk[w.cluster][2] = 1
            BY <2>7, <4>1, <4>3, <5>1 DEF Kept
          <5>3. disk[c][2] >= 1
            BY <4>1 DEF FileInv, VersionsFresh, Kept
          <5>4. disk'[c][1] = FreedVersion(t)' /\ disk'[c][2] >= disk'[w.cluster][2]
            BY <1>4, <2>8, <4>1, <4>3, <5>2, <5>3 DEF SameVolume
          <5>5. InProgress(t, c)'
            <6>1. op'[t].name \notin stale'
              BY <1>2, <1>4, <4>1, <4>3 DEF SameVolume, Kept
            <6> QED
              BY <1>7, <5>1, <5>4, <6>1 DEF InProgress
          <5> QED
            BY <5>5 DEF Accounted
        <4> QED
          BY <4>2, <4>3
      <3> QED
        BY <3>1 DEF NothingLeaked
    <2>13. TaskSound(t)'
      BY <2>6, <2>9, <2>10, <2>11 DEF TaskSound
    <2>14. ReachSound'
      <3>1. w.reach = 0
        BY <1>2
      <3> QED
        BY <1>4, <2>1, <3>1, ReachSame DEF SameVolume, LinksSound
    <2> QED
      BY <1>5, <2>4, <2>12, <2>13, <2>14 DEF ChainInv
  <1> QED
    BY <1>8, <1>9, <1>10, <1>11 DEF FileInv

LEMMA ScanSound ==
    ASSUME OneTask, TypeInv, FileInv, NEW t \in Tasks, Scan(t)
    PROVE FileInv'
  <1>1. CASE Return(t) /\ spoiled' = spoiled
    <2>1. /\ pc[t] = "scan" /\ UNCHANGED diskVars /\ saved' = saved /\ ops' = ops
          /\ errors' = errors /\ kills' = kills /\ stale' = stale
      BY DEF Scan
    <2>2. loc[t].old = 0 /\ ~ InEntry(t) /\ \A c : ~ InProgress(t, c) \/ c \notin Clusters
      BY <2>1, ScanFacts DEF NoLocals
    <2>3. op'[t] = NoOp /\ \A u \in Tasks : u = t
      BY <1>1, Returns, TaskFacts DEF OneTask
    <2>4. Abandon(t)
      BY <2>1, <2>2 DEF Abandon
    <2>5. \A m : Kept(m)' <=> Kept(m)
      BY <2>1, <2>3, <2>4, KeptAtReturn
    <2>6. ASSUME spoiled' = 0 PROVE NothingLeaked'
      <3>1. NothingLeaked
        BY <1>1, <2>6, SoundFacts
      <3>2. ASSUME NEW c \in Clusters, fat[1][c] # FAT_ENTRY_FREE, errors = 0, kills = 0
            PROVE \E m \in Names : Kept(m)' /\ disk[c][1] = saved[m].version
        BY <2>2, <2>3, <2>5, <3>1, <3>2 DEF NothingLeaked, Accounted
      <3> QED
        BY <2>1, <3>2 DEF NothingLeaked, Accounted, diskVars
    <2> QED
      BY <1>1, <2>1, <2>2, <2>4, <2>6, ReturnSound
  <1> QED
    BY <1>1, ScanDoes, ScanReads, ScanChanges

\* The cleanup is done, or the read.
LEMMA FailSound ==
    ASSUME OneTask, TypeInv, FileInv, NEW t \in Tasks, Fail(t) \/ ReadDone(t)
    PROVE FileInv'
  <1>1. /\ pc[t] \in {"fail", "readDone"} /\ Return(t) /\ UNCHANGED diskVars /\ fat' = fat
        /\ SameVolume /\ saved' = saved /\ ops' = ops /\ stale' = stale
        /\ spoiled' = spoiled /\ errors' = errors /\ kills' = kills
    BY DEF Fail, ReadDone, ghosts, diskVars, SameVolume
  <1>2. ~ InEntry(t) /\ ~ Claiming(t) /\ (pc[t] = "readDone" => ~ Changing(t))
    BY <1>1, TaskFacts DEF InEntry, Claiming, PlaceTyped, Changing
  <1>3. op'[t] = NoOp /\ \A u \in Tasks : u = t
    BY <1>1, Returns, TaskFacts DEF OneTask
  <1>4. ASSUME spoiled' = 0 PROVE (Changing(t) => Abandon(t)) /\ NothingLeaked'
    <2>1. FailingSound(t) /\ NothingLeaked
      BY <1>1, <1>4, SoundFacts
    <2>2. Changing(t) => loc[t].ret = "fail" /\ (loc[t].old # 0 => op[t].name \in stale)
      BY <1>1, <1>2, <2>1 DEF FailingSound
    <2>3. Changing(t) => Abandon(t)
      BY <1>1, <2>2 DEF Abandon
    <2>4. \A m : Kept(m)' <=> Kept(m)
      BY <1>1, <1>3, <2>3, KeptAtReturn
    <2>5. \A c : ~ InProgress(t, c)
      BY <1>1, <1>2, <2>2 DEF InProgress
    <2>6. ASSUME NEW c \in Clusters, fat[1][c] # FAT_ENTRY_FREE, errors = 0, kills = 0
          PROVE \E m \in Names : Kept(m)' /\ disk[c][1] = saved[m].version
      BY <1>3, <2>1, <2>4, <2>5, <2>6 DEF NothingLeaked, Accounted
    <2>7. NothingLeaked'
      BY <1>1, <2>6 DEF NothingLeaked, Accounted, SameVolume
    <2> QED
      BY <2>3, <2>7
  <1> QED
    BY <1>1, <1>2, <1>4, ReturnSound

\* A step of a read disturbs nothing but the read.
LEMMA ReadStepSound ==
    ASSUME OneTask, TypeInv, FileInv, NEW t \in Tasks,
           pc[t] \in {"readData", "readFat", "readNext"},
           pc'[t] \in {"readData", "readFat", "readNext", "readDone"}, op'[t] = op[t],
           loc'[t].old = loc[t].old, loc'[t].reach = loc[t].reach, UNCHANGED <<diskVars, ghosts>>,
           pc'[t] = "readNext" => sector'[t] = fat[1],
           pc'[t] = "readData" => sector'[t] \in {<<>>, fat[1]},
           spoiled = 0 => ReadingSound(t)'
    PROVE FileInv'
  <1>1. SameVolume /\ fat' = fat /\ ops' = ops /\ spoiled' = spoiled /\ errors' = errors /\ kills' = kills
    BY DEF SameVolume, diskVars, ghosts
  <1>2. op[t].kind = "read"
    BY TaskFacts DEF PlaceTyped
  <1>3. ~ Changing(t) /\ ~ Changing(t)' /\ ~ InEntry(t) /\ ~ InEntry(t)' /\ ~ HalfWritten(t)'
        /\ ~ Claiming(t)' /\ pc'[t] # "entryWrite" /\ pc'[t] # "dirWrite" /\ pc[t] # "idle"
    BY <1>2 DEF Changing, InEntry, HalfWritten, Claiming
  <1>4. \A u \in Tasks : u = t
    BY DEF OneTask
  <1>5. SectorsFresh'
    BY <1>1, <1>3, <1>4 DEF SectorsFresh
  <1>6. CopiesInv'
    BY <1>1, <1>3, CopiesSame DEF FileInv
  <1>7. ASSUME spoiled' = 0 PROVE TaskSound(t)' /\ NothingLeaked'
    <2>1. NothingLeaked
      BY <1>1, <1>7, SoundFacts
    <2>2. \A c : ~ InProgress(t, c)
      BY <1>3 DEF InProgress
    <2>3. NothingLeaked'
      BY <1>1, <2>1, <2>2, LeaksSame
    <2>4. FreeingSound(t)'
      BY <1>3 DEF FreeingSound
    <2>5. SlotFound(t)' /\ BuildingSound(t)' /\ FailingSound(t)' /\ ClaimSound(t)'
      BY <1>3 DEF SlotFound, BuildingSound, FailingSound, ClaimSound
    <2> QED
      BY <1>1, <1>7, <2>3, <2>4, <2>5 DEF TaskSound
  <1> QED
    BY <1>1, <1>3, <1>5, <1>6, <1>7, QuietStep

\* What has been read, k clusters of the file saved as version x.
ReadUpTo(x, k) == [i \in 1..k |-> <<x, i>>]

LEMMA ReadMore ==
    ASSUME NEW k \in Nat, NEW x
    PROVE Len(ReadUpTo(x, k)) = k /\ Append(ReadUpTo(x, k), <<x, k + 1>>) = ReadUpTo(x, k + 1)
  <1>1. DOMAIN ReadUpTo(x, k) = 1..k /\ \A i \in 1..k : ReadUpTo(x, k)[i] = <<x, i>>
    BY DEF ReadUpTo
  <1>2. ReadUpTo(x, k) \in Seq({<<x, i>> : i \in 1..k})
    BY DEF ReadUpTo
  <1>3. Len(ReadUpTo(x, k)) = k
    BY <1>1, <1>2
  <1> PICK a : a = Append(ReadUpTo(x, k), <<x, k + 1>>)
    OBVIOUS
  <1>4. /\ a \in Seq({<<x, i>> : i \in 1..(k + 1)}) /\ Len(a) = k + 1
        /\ \A i \in 1..k : a[i] = <<x, i>>
        /\ a[k + 1] = <<x, k + 1>>
    <2>1. ReadUpTo(x, k) \in Seq({<<x, i>> : i \in 1..(k + 1)})
      BY DEF ReadUpTo
    <2>2. <<x, k + 1>> \in {<<x, i>> : i \in 1..(k + 1)}
      OBVIOUS
    <2> QED
      BY <1>1, <1>3, <2>1, <2>2
  <1>5. DOMAIN a = 1..(k + 1) /\ \A i \in 1..(k + 1) : a[i] = <<x, i>>
    BY <1>4
  <1>6. a = [i \in 1..(k + 1) |-> a[i]]
    BY <1>4
  <1> QED
    BY <1>3, <1>5, <1>6 DEF ReadUpTo

\* What the invariant says of a read.
LEMMA ReadFacts ==
    ASSUME OneTask, TypeInv, FileInv, spoiled = 0, NEW t \in Tasks, op[t].name \notin stale,
           pc[t] \in {"readData", "readFat", "readNext"}
    PROVE LET v == loc[t]
              s == saved[op[t].name]
              k == disk[v.cluster][2]
              n == Len(v.got)
          IN
          /\ v.cluster \in Clusters /\ s.version # 0 /\ v.i = s.size
          /\ s.size \in Nat /\ s.reach \in Nat /\ s.reach <= s.size /\ op[t].size \in Nat
          /\ k \in Nat /\ 1 <= k /\ k <= s.reach /\ disk[v.cluster] = <<s.version, k>>
          /\ n \in Nat /\ v.got = ReadUpTo(s.version, n)
          /\ n = Least(IF pc[t] = "readData" THEN k - 1 ELSE k, op[t].size)
          /\ Rest(fat[1], disk, s.version, 1, s.reach, FAT_ENTRY_END)
  <1> PICK v, s : v = loc[t] /\ s = saved[op[t].name]
    OBVIOUS
  <1>1. v \in Locals /\ v.cluster \in Clusters /\ op[t].kind = "read" /\ op[t].name \in Names
        /\ op[t].size \in Nat
    BY TaskFacts, Fat16Assumption DEF PlaceTyped
  <1>2. v.got \in Seq(Tags) /\ Len(v.got) \in Nat
    BY <1>1, LocalsFields
  <1>3. /\ s.version # 0 /\ v.i = s.size /\ v.got = ReadUpTo(s.version, Len(v.got))
        /\ disk[v.cluster][1] = s.version /\ 1 <= disk[v.cluster][2] /\ disk[v.cluster][2] <= s.reach
        /\ pc[t] = "readData" => Len(v.got) = Least(disk[v.cluster][2] - 1, op[t].size)
        /\ pc[t] # "readData" => Len(v.got) = Least(disk[v.cluster][2], op[t].size)
    <2>1. ReadingSound(t)
      BY SoundFacts
    <2> QED
      BY <2>1 DEF ReadingSound, ReadUpTo
  <1>4. Kept(op[t].name)
    <2>1. ~ Changing(t)
      BY <1>1 DEF Changing
    <2> QED
      BY <1>3, <2>1, SuspendedByTask DEF Kept
  <1>5. Rest(fat[1], disk, s.version, 1, s.reach, FAT_ENTRY_END)
    BY <1>1, <1>4, SoundFacts DEF FilesSound
  <1>6. s.size \in Nat /\ s.reach \in Nat /\ s.reach <= s.size
    BY <1>1, SavedTyped, SoundFacts DEF ReachSound
  <1>7. disk[v.cluster][2] \in Nat /\ disk[v.cluster] = <<s.version, disk[v.cluster][2]>>
    BY <1>1, <1>3, TablesTyped
  <1>8. Len(v.got) = Least(IF pc[t] = "readData" THEN disk[v.cluster][2] - 1 ELSE disk[v.cluster][2],
                           op[t].size)
    BY <1>3
  <1> QED
    BY <1>1, <1>2, <1>3, <1>5, <1>6, <1>7, <1>8

\* The buffer takes one more cluster, or is full.
Taken(got, x, k, b) == IF Len(got) < b THEN Append(got, <<x, k>>) ELSE got

LEMMA BufferTakes ==
    ASSUME NEW k \in Nat, 1 <= k, NEW b \in Nat, NEW x
    PROVE Taken(ReadUpTo(x, Least(k - 1, b)), x, k, b) = ReadUpTo(x, Least(k, b))
          /\ Least(k, b) \in Nat
  <1>1. CASE k - 1 < b
    <2>1. Least(k - 1, b) = k - 1 /\ k - 1 \in Nat /\ k - 1 + 1 = k /\ Least(k, b) = k
      BY <1>1 DEF Least
    <2>2. Len(ReadUpTo(x, k - 1)) = k - 1
          /\ Append(ReadUpTo(x, k - 1), <<x, k - 1 + 1>>) = ReadUpTo(x, k - 1 + 1)
      BY <2>1, ReadMore
    <2> QED
      BY <1>1, <2>1, <2>2, Zenon DEF Taken
  <1>2. CASE ~ (k - 1 < b)
    <2>1. Least(k - 1, b) = b /\ Least(k, b) = b /\ Len(ReadUpTo(x, b)) = b /\ ~ (b < b)
      BY <1>2, ReadMore DEF Least
    <2> QED
      BY <2>1, Zenon DEF Taken
  <1> QED
    BY <1>1, <1>2 DEF Least

LEMMA ReadDataSound ==
    ASSUME OneTask, TypeInv, FileInv, NEW t \in Tasks, ReadData(t)
    PROVE FileInv'
  <1> PICK v, s : v = loc[t] /\ s = saved[op[t].name]
    OBVIOUS
  <1>1. v \in Locals /\ v.cluster \in Clusters /\ v.got \in Seq(Tags) /\ pc[t] = "readData"
    BY TaskFacts, LocalsFields DEF ReadData, PlaceTyped
  <1>2. UNCHANGED <<diskVars, op, sector, ghosts>> /\ sector[t] \in {<<>>, fat[1]}
    BY <1>1 DEF ReadData, FileInv, SectorsFresh
  <1> PICK g : g = IF Len(v.got) < op[t].size THEN Append(v.got, disk[v.cluster]) ELSE v.got
    OBVIOUS
  <1>3. g \in Seq(Tags)
    BY <1>1, TablesTyped
  <1> PICK w : w = WithData(v, g)
    OBVIOUS
  <1> PICK l : l = IF sector[t] = <<>> THEN "readFat" ELSE "readNext"
    OBVIOUS
  <1>4. w.got = g /\ w.old = v.old /\ w.reach = v.reach /\ w.i = v.i /\ w.cluster = v.cluster
    <2>1. v \in Locals
      BY <1>1
    <2>2. w.got = g /\ SameFile(v, w) /\ SameChain(v, w) /\ w.cluster = v.cluster
      BY <1>3, <2>1, WithDataTyped
    <2> QED
      BY <2>2 DEF SameFile, SameChain
  <1>5. Goto(t, l, w) /\ l \in Labels
    BY DEF ReadData, WithData, Labels
  <1>6. pc'[t] = l /\ loc'[t] = w /\ op'[t] = op[t] /\ sector'[t] = sector[t]
    BY <1>2, <1>5, Moves, TaskFacts
  <1>7. ASSUME spoiled = 0 PROVE ReadingSound(t)'
    <2> PICK k, n, b, x : k = disk[v.cluster][2] /\ n = Len(v.got) /\ b = op[t].size /\ x = s.version
      OBVIOUS
    <2>1. saved'[op'[t].name] = s /\ disk' = disk /\ loc'[t] = w /\ pc'[t] \in {"readFat", "readNext"}
          /\ op'[t] = op[t] /\ stale' = stale
      BY <1>2, <1>6 DEF diskVars, ghosts
    <2>2. ASSUME op[t].name \notin stale
          PROVE /\ x # 0 /\ w.i = s.size /\ disk[v.cluster] = <<x, k>> /\ 1 <= k /\ k <= s.reach
                /\ Len(g) = Least(k, b) /\ g = [i \in 1..Len(g) |-> <<x, i>>]
      <3>1. /\ x # 0 /\ v.i = s.size /\ disk[v.cluster] = <<x, k>> /\ 1 <= k /\ k <= s.reach
            /\ k \in Nat /\ b \in Nat /\ n \in Nat /\ n = Least(k - 1, b) /\ v.got = ReadUpTo(x, n)
        BY <1>1, <1>7, <2>2, ReadFacts
      <3>2. g = Taken(ReadUpTo(x, Least(k - 1, b)), x, k, b)
        BY <3>1, Zenon DEF Taken
      <3>3. k \in Nat /\ 1 <= k /\ b \in Nat
        BY <3>1
      <3>4. PICK m : m = Least(k, b)
        OBVIOUS
      <3>5. g = ReadUpTo(x, m) /\ m \in Nat
        <4>1. Taken(ReadUpTo(x, Least(k - 1, b)), x, k, b) = ReadUpTo(x, Least(k, b))
              /\ Least(k, b) \in Nat
          BY <3>3, BufferTakes
        <4> QED
          BY <3>2, <3>4, <4>1, Zenon
      <3>6. Len(g) = m
        BY <3>5, ReadMore
      <3>7. g = [i \in 1..Len(g) |-> <<x, i>>]
        BY <3>5, <3>6, Zenon DEF ReadUpTo
      <3> QED
        BY <1>4, <3>1, <3>4, <3>6, <3>7
    <2> PICK m : m = Least(k, b)
      OBVIOUS
    <2>3. ASSUME op[t].name \notin stale
          PROVE /\ s.version # 0 /\ w.i = s.size /\ w.got = [i \in 1..Len(w.got) |-> <<s.version, i>>]
                /\ Len(w.got) = m
                /\ disk[w.cluster][1] = s.version /\ disk[w.cluster][2] = k /\ 1 <= k /\ k <= s.reach
      <3>1. disk[w.cluster][1] = x /\ disk[w.cluster][2] = k
        BY <1>4, <2>2, <2>3
      <3> QED
        BY <1>4, <2>2, <2>3, <3>1, Zenon
    <2>4. l \in {"readFat", "readNext"} /\ op'[t].size = b
      BY <2>1, <1>6
    <2>5. op'[t].name \notin stale' =>
             /\ s.version # 0 /\ w.i = s.size /\ w.got = [i \in 1..Len(w.got) |-> <<s.version, i>>]
             /\ disk[w.cluster][1] = s.version /\ 1 <= disk[w.cluster][2]
             /\ disk[w.cluster][2] <= s.reach
             /\ Len(w.got) = Least(disk[w.cluster][2], b)
      BY <2>1, <2>3
    <2> QED
      BY <1>6, <2>1, <2>4, <2>5 DEF ReadingSound
  <1> QED
    BY <1>1, <1>2, <1>4, <1>6, <1>7, ReadStepSound

LEMMA ReadFatSound ==
    ASSUME OneTask, TypeInv, FileInv, NEW t \in Tasks, ReadFat(t)
    PROVE FileInv'
  <1>1. /\ pc[t] = "readFat" /\ pc'[t] = "readNext" /\ loc'[t] = loc[t] /\ op'[t] = op[t]
        /\ sector'[t] = fat[1] /\ UNCHANGED <<diskVars, ghosts>>
    <2>1. pc'[t] = "readNext" /\ loc'[t] = loc[t]
      BY GotoMoves, TaskFacts DEF ReadFat, Labels
    <2>2. sector'[t] = fat[1]
      BY TaskFacts DEF ReadFat, PerTask
    <2> QED
      BY <2>1, <2>2 DEF ReadFat
  <1>2. ASSUME spoiled = 0 PROVE ReadingSound(t)'
    <2>1. ReadingSound(t)
      BY <1>2, SoundFacts
    <2> QED
      BY <1>1, <2>1 DEF ReadingSound, diskVars, ghosts
  <1> QED
    BY <1>1, <1>2, ReadStepSound

LEMMA ReadNextSound ==
    ASSUME OneTask, TypeInv, FileInv, NEW t \in Tasks, ReadNext(t)
    PROVE FileInv'
  <1> PICK v, s : v = loc[t] /\ s = saved[op[t].name]
    OBVIOUS
  <1> PICK c : c = fat[1][v.cluster]
    OBVIOUS
  <1>1. v \in Locals /\ v.cluster \in Clusters /\ pc[t] = "readNext" /\ sector[t] = fat[1]
        /\ UNCHANGED <<diskVars, op, sector, ghosts>>
    BY TaskFacts DEF ReadNext, PlaceTyped, FileInv, SectorsFresh
  <1>2. c \in Nat /\ sector[t][v.cluster] = c
    BY <1>1, ClusterNumbers, TablesTyped
  <1> PICK w : w = At(v, c)
    OBVIOUS
  <1>3. w.cluster = c /\ w.got = v.got /\ w.old = v.old /\ w.reach = v.reach /\ w.i = v.i
    <2>1. v \in Locals
      BY <1>1
    <2>2. w.cluster = c /\ w.got = v.got /\ SameFile(v, w) /\ SameChain(v, w)
      BY <1>2, <2>1, AtTyped
    <2> QED
      BY <2>2 DEF SameFile, SameChain
  <1> PICK l : l = IF c \in Clusters /\ Len(v.got) < v.i THEN "readData" ELSE "readDone"
    OBVIOUS
  <1>4. Goto(t, l, w) /\ l \in Labels
    BY <1>2 DEF ReadNext, At, InChain, Labels
  <1>5. pc'[t] = l /\ loc'[t] = w /\ op'[t] = op[t] /\ sector'[t] = sector[t]
    BY <1>1, <1>4, Moves, TaskFacts
  <1>6. ASSUME spoiled = 0 PROVE ReadingSound(t)'
    <2> PICK k, n, b, x, y, z : /\ k = disk[v.cluster][2] /\ n = Len(v.got) /\ b = op[t].size
                                /\ x = s.version /\ y = s.reach /\ z = s.size
      OBVIOUS
    <2>1. saved'[op'[t].name] = s /\ disk' = disk /\ loc'[t] = w /\ pc'[t] = l
          /\ op'[t] = op[t] /\ stale' = stale
      BY <1>1, <1>5 DEF diskVars, ghosts
    <2>2. ASSUME op[t].name \notin stale
          PROVE /\ x # 0 /\ w.i = z /\ w.got = [i \in 1..Len(w.got) |-> <<x, i>>] /\ Len(w.got) = n
                /\ l = "readData" => /\ disk[c] = <<x, k + 1>> /\ 1 <= k + 1 /\ k + 1 <= y
                                     /\ n = Least(k, b) /\ k \in Nat
                /\ l # "readData" => n = Least(y, b)
      <3>1. /\ x # 0 /\ v.i = z /\ disk[v.cluster] = <<x, k>> /\ 1 <= k /\ k <= y
            /\ k \in Nat /\ b \in Nat /\ n \in Nat /\ y \in Nat /\ z \in Nat /\ y <= z
            /\ n = Least(k, b) /\ v.got = ReadUpTo(x, n)
            /\ Rest(fat[1], disk, x, 1, y, FAT_ENTRY_END)
        BY <1>1, <1>6, <2>2, ReadFacts
      <3>2. /\ k < y => c \in Clusters /\ disk[c] = <<x, k + 1>>
            /\ k = y => c \notin Clusters
        <4>0. PICK f, d, a : f = fat[1] /\ d = disk /\ a = v.cluster
          OBVIOUS
        <4>1. d[a] = <<x, k>> /\ Rest(f, d, x, 1, y, FAT_ENTRY_END) /\ a \in Clusters
              /\ k \in Nat /\ y \in Nat /\ 1 <= k /\ k <= y
          BY <1>1, <3>1, <4>0
        <4>2. d[a][1] = x /\ d[a][2] = k
          BY <4>1
        <4>3. Rest(f, d, x, 1, y, FAT_ENTRY_END) /\ a \in Clusters /\ d[a][1] = x
              /\ d[a][2] >= 1 /\ d[a][2] <= y
          BY <4>1, <4>2
        <4>4. /\ d[a][2] < y => f[a] \in Clusters /\ d[f[a]] = <<x, d[a][2] + 1>>
              /\ d[a][2] = y => f[a] = FAT_ENTRY_END
          BY <4>3, RestAt
        <4> QED
          BY <4>0, <4>2, <4>4, ClusterNumbers
      <3>3. l = "readData" <=> c \in Clusters /\ n < z
        BY <3>1
      <3>4. w.got = [i \in 1..Len(w.got) |-> <<x, i>>] /\ Len(w.got) = n
        BY <1>3, <3>1 DEF ReadUpTo
      <3>5. k < y => n < z
        BY <3>1 DEF Least
      <3>6. /\ l = "readData" => disk[c] = <<x, k + 1>> /\ 1 <= k + 1 /\ k + 1 <= y
            /\ l # "readData" => n = Least(y, b)
        BY <3>1, <3>2, <3>3, <3>5
      <3> QED
        BY <1>3, <3>1, <3>4, <3>6
    <2>3. l \in {"readData", "readDone"} /\ op'[t].size = b
      BY <2>1
    <2>4. ASSUME op[t].name \notin stale, l = "readData"
          PROVE /\ disk[w.cluster][1] = x /\ disk[w.cluster][2] = k + 1
                /\ 1 <= disk[w.cluster][2] /\ disk[w.cluster][2] <= y
                /\ Len(w.got) = Least(disk[w.cluster][2] - 1, b)
      <3>1. disk[w.cluster][1] = x /\ disk[w.cluster][2] = k + 1
        BY <1>3, <2>2, <2>4
      <3>2. 1 <= k + 1 /\ k + 1 <= y /\ Len(w.got) = Least(k, b) /\ k \in Nat
        BY <2>2, <2>4
      <3>3. disk[w.cluster][2] - 1 = k
        BY <3>1, <3>2
      <3> QED
        BY <3>1, <3>2, <3>3
    <2>5. op'[t].name \notin stale' =>
             /\ s.version # 0 /\ w.i = s.size /\ w.got = [i \in 1..Len(w.got) |-> <<s.version, i>>]
             /\ l = "readData" => /\ disk[w.cluster][1] = s.version /\ 1 <= disk[w.cluster][2]
                                  /\ disk[w.cluster][2] <= s.reach
                                  /\ Len(w.got) = Least(disk[w.cluster][2] - 1, b)
             /\ l # "readData" => Len(w.got) = Least(s.reach, b)
      BY <2>1, <2>2, <2>4
    <2> QED
      BY <2>1, <2>3, <2>5 DEF ReadingSound
  <1> QED
    BY <1>1, <1>3, <1>5, <1>6, ReadStepSound

\* An operation starts, as a version that nothing on the disk has.
LEMMA StartDoes ==
    ASSUME TypeInv, NEW t \in Tasks, NEW n, NEW kind, NEW size, Start(t, kind, n, size)
    PROVE /\ pc[t] = "idle" /\ op[t] = NoOp /\ pc'[t] = "scan" /\ loc'[t] = NoLocals
          /\ op'[t].version = ops + 1 /\ ops \in Nat /\ ops' = ops + 1
          /\ UNCHANGED <<diskVars, saved, errors, kills, stale, spoiled>>
  <1>1. pc[t] = "idle" /\ op[t] = NoOp
    BY TaskFacts DEF Start, PlaceTyped
  <1>2. pc'[t] = "scan" /\ loc'[t] = NoLocals
    BY GotoMoves, TaskFacts DEF Start, Labels
  <1>3. ops \in Nat /\ ops' = ops + 1
    BY Fat16Assumption DEF Start, TypeInv, GhostsTyped
  <1>4. op'[t].version = ops'
    BY TaskFacts DEF Start, PerTask
  <1> QED
    BY <1>1, <1>2, <1>3, <1>4 DEF Start

LEMMA StartSound ==
    ASSUME OneTask, TypeInv, FileInv, NEW t \in Tasks, NEW n, NEW kind, NEW size,
           Start(t, kind, n, size)
    PROVE FileInv'
  <1>1. /\ pc[t] = "idle" /\ op[t] = NoOp /\ pc'[t] = "scan" /\ loc'[t] = NoLocals
        /\ op'[t].version = ops + 1 /\ ops \in Nat /\ ops' = ops + 1
        /\ UNCHANGED <<diskVars, saved, errors, kills, stale, spoiled>>
    BY StartDoes
  <1>2. /\ SameVolume /\ SameChains /\ fat' = fat /\ disk' = disk /\ saved' = saved
        /\ stale' = stale /\ spoiled' = spoiled
    BY <1>1 DEF SameVolume, SameChains, diskVars
  <1>3. ~ Changing(t) /\ ~ InEntry(t) /\ ~ InEntry(t)' /\ ~ HalfWritten(t)' /\ ~ Claiming(t)'
        /\ LastEntry(t)' = FAT_ENTRY_END /\ \A u \in Tasks : u = t
    BY <1>1 DEF Changing, InEntry, HalfWritten, Claiming, LastEntry, Linking, NoOp, OneTask
  <1>4. SectorsFresh' /\ CopiesInv'
    BY <1>1, <1>2, <1>3, SectorsElsewhere, CopiesSame DEF FileInv
  <1>5. \A c \in Clusters : disk[c][1] <= ops /\ disk[c][1] \in Nat /\ disk[c][1] # ops + 1
    BY <1>1, TablesTyped DEF FileInv, VersionsFresh
  <1>6. VersionsFresh'
    <2>1. /\ \A c \in Clusters : disk'[c][1] <= ops' /\ (disk'[c][1] # 0 => disk'[c][2] >= 1)
          /\ \A c, d \in Clusters : disk'[c] = disk'[d] /\ disk'[c][1] # 0 => c = d
      BY <1>1, <1>2, <1>5 DEF FileInv, VersionsFresh
    <2>2. /\ \A m \in Names : saved'[m].version <= ops' /\ saved'[m].version # op'[t].version
          /\ \A a, m \in Names : saved'[a].version = saved'[m].version /\ saved'[a].version # 0 => a = m
      <3>1. \A m \in Names : saved[m].version <= ops /\ saved[m].version \in Nat
        BY SavedTyped DEF FileInv, VersionsFresh
      <3> QED
        BY <1>1, <1>2, <3>1 DEF FileInv, VersionsFresh
    <2>3. op'[t].version \in 1..ops' /\ \A c \in Clusters : disk'[c][1] # op'[t].version
      BY <1>1, <1>2, <1>5
    <2> QED
      BY <1>3, <2>1, <2>2, <2>3 DEF VersionsFresh
  <1>7. ASSUME spoiled' = 0 PROVE ChainInv'
    <2>1. DirectorySound /\ FilesSound /\ ReachSound /\ NothingLeaked
      BY <1>2, <1>7, SoundFacts
    <2>2. \A m : Kept(m)' <=> Kept(m)
      <3>1. loc'[t].old = 0
        BY <1>1 DEF NoLocals
      <3> QED
        BY <1>2, <1>3, <3>1, SuspendedByTask, SuspendedByTaskNext DEF Kept
    <2>3. DirectorySound' /\ FilesSound'
      BY <1>2, <2>1, <2>2, FilesSame, DirectorySame
    <2>4. NothingLeaked'
      <3>1. \A c : ~ InProgress(t, c)
        BY <1>3 DEF InProgress
      <3>2. ASSUME NEW c \in Clusters, fat[1][c] # FAT_ENTRY_FREE, errors = 0, kills = 0
            PROVE \E m \in Names : Kept(m)' /\ disk[c][1] = saved[m].version
        BY <1>3, <2>1, <2>2, <3>1, <3>2 DEF NothingLeaked, Accounted
      <3> QED
        BY <1>1, <1>2, <3>2 DEF NothingLeaked, Accounted
    <2>5. BuildingSound(t)'
      <3>1. loc'[t].i = 0 /\ loc'[t].first = 0 /\ Reach(loc'[t]) = 0
        BY <1>1 DEF NoLocals, Reach
      <3>2. Rest(fat'[1], disk', op'[t].version, 1, 0, FAT_ENTRY_END)
        BY <1>2, RestEmpty, TablesTyped
      <3>3. \A c \in Clusters : disk'[c][1] # op'[t].version
        BY <1>1, <1>2, <1>5
      <3> QED
        BY <1>1, <1>3, <3>1, <3>2, <3>3 DEF BuildingSound
    <2>6. SlotFound(t)' /\ FreeingSound(t)' /\ ClaimSound(t)' /\ ReadingSound(t)'
      BY <1>1, <1>3 DEF SlotFound, FreeingSound, ClaimSound, ReadingSound
    <2>7. FailingSound(t)'
      BY <1>1 DEF FailingSound, NoLocals
    <2>8. ReachSound'
      <3>1. loc'[t].reach = 0
        BY <1>1 DEF NoLocals
      <3> QED
        BY <1>1, <1>2, <2>1, <3>1, ReachSame DEF LinksSound
    <2> QED
      BY <1>3, <2>3, <2>4, <2>5, <2>6, <2>7, <2>8 DEF ChainInv, TaskSound
  <1> QED
    BY <1>4, <1>6, <1>7 DEF FileInv

\* An operation that returns early, by a failed access or because its task is
\* killed, leaves a sound volume: an entry whose old chain it had begun to free
\* counts as stale.
LEMMA AbandonSound ==
    ASSUME OneTask, TypeInv, FileInv, NEW t \in Tasks, Return(t), Abandon(t), UNCHANGED diskVars,
           saved' = saved, ops' = ops, spoiled' = spoiled, errors' = 0 => errors = 0,
           ~ (errors' = 0 /\ kills' = 0), pc[t] # "idle"
    PROVE FileInv'
  <1>1. Changing(t) \/ stale' = stale
    <2>1. op[t].kind \in Kinds /\ op[t].kind # "none"
      BY TaskFacts DEF PlaceTyped
    <2> QED
      BY <2>1 DEF Kinds, Changing, Abandon
  <1>2. NothingLeaked'
    BY DEF NothingLeaked
  <1> QED
    BY <1>1, <1>2, ReturnSound

LEMMA KillSound ==
    ASSUME OneTask, TypeInv, FileInv, NEW t \in Tasks, Kill(t)
    PROVE FileInv'
  <1>1. /\ Return(t) /\ Abandon(t) /\ UNCHANGED diskVars /\ saved' = saved /\ ops' = ops
        /\ spoiled' = spoiled /\ errors' = errors /\ kills' = kills + 1 /\ pc[t] # "idle"
    BY DEF Kill
  <1>2. kills' # 0
    BY <1>1 DEF TypeInv, GhostsTyped
  <1> QED
    BY <1>1, <1>2, AbandonSound

\* A link that is not written ends the chain, in the first table, before it.
LEMMA LostLinkSound ==
    ASSUME OneTask, TypeInv, FileInv, NEW t \in Tasks, NEW v \in Locals, v = loc[t], InEntry(t),
           v.why = "link", Goto(t, "data", LostLink(v)), UNCHANGED <<op, sector>>, SameVolume,
           spoiled = 0, errors' # 0
    PROVE TaskSound(t)' /\ LinksSound(t)'
  <1> PICK w : w = LostLink(v)
    OBVIOUS
  <1> PICK ver : ver = op[t].version
    OBVIOUS
  <1>1. op'[t] = op[t] /\ loc'[t] = w /\ pc'[t] = "data"
    BY Moves, TaskFacts DEF Labels
  <1>2. Changing(t) /\ Changing(t)' /\ ~ InEntry(t)' /\ Claiming(t) /\ Claiming(t)' /\ pc[t] # "data"
        /\ pc[t] # "scan"
    BY <1>1, TaskFacts DEF PlaceTyped, InEntry, Changing, Claiming
  <1>3. /\ w.slot = v.slot /\ w.old = v.old /\ w.cluster = v.cluster /\ w.ret = v.ret
        /\ w.first = v.first /\ w.prev = v.prev /\ w.i = v.i
        /\ w.reach = IF v.copy = 1 /\ v.reach = 0 THEN v.i ELSE v.reach
    BY DEF LostLink, Locals
  <1>4. /\ SlotFound(t) /\ BuildingSound(t) /\ FailingSound(t) /\ ClaimSound(t) /\ LinksSound(t)
    BY SoundFacts DEF ReachSound
  <1>5. v.ret # "fail"
    BY <1>2, <1>4 DEF FailingSound
  <1>6. v.i \in Nat /\ v.reach \in Nat /\ v.first # 0 /\ v.copy \in {1, 2}
    BY TaskFacts, LocalsFields, Fat16Assumption DEF CallTyped
  <1>7. /\ Rest(fat[1], disk, ver, 1, Reach(v), LastEntry(t))
        /\ \A c \in Clusters : disk[c][1] = ver => fat[1][c] # FAT_ENTRY_FREE
        /\ v.i > 0 /\ v.first \in Clusters /\ v.prev \in Clusters
        /\ disk[v.first] = <<ver, 1>> /\ disk[v.prev] = <<ver, v.i>>
    BY <1>2, <1>4, <1>5, <1>6 DEF BuildingSound
  <1>8. Reach(w) = Reach(v) /\ LastEntry(t)' = LastEntry(t)
    <2>1. LastEntry(t) = IF v.copy = 2 /\ v.reach = 0 THEN v.cluster ELSE FAT_ENTRY_END
      BY <1>2 DEF LastEntry, Linking
    <2>2. LastEntry(t)' = IF w.reach = 0 THEN w.cluster ELSE FAT_ENTRY_END
      BY <1>1 DEF LastEntry, Linking
    <2> QED
      BY <1>3, <1>6, <1>7, <2>1, <2>2 DEF Reach
  <1>9. BuildingSound(t)'
    BY <1>1, <1>2, <1>3, <1>6, <1>7, <1>8 DEF BuildingSound, SameVolume
  <1>10. SlotFound(t)' /\ FailingSound(t)'
    BY <1>1, <1>2, <1>3, <1>4, <1>5 DEF SlotFound, FailingSound, SameVolume
  <1>11. FreeingSound(t)' /\ ReadingSound(t)'
    BY <1>1, <1>2 DEF FreeingSound, ReadingSound
  <1>12. ClaimSound(t)'
    <2>1. \A n \in Names : Kept(n)' => Kept(n)
      BY <1>1, <1>3, KeptSame DEF SameVolume
    <2> QED
      BY <1>1, <1>2, <1>3, <1>4, <2>1 DEF ClaimSound, SameVolume
  <1>13. LinksSound(t)'
    <2>1. v.reach # 0 => v.reach <= v.i
      BY <1>2, <1>4 DEF LinksSound
    <2>2. w.reach # 0 => w.reach <= v.i
      BY <1>3, <1>6, <2>1
    <2> QED
      BY <1>1, <1>3, <2>2 DEF LinksSound
  <1> QED
    BY <1>9, <1>10, <1>11, <1>12, <1>13 DEF TaskSound

LEMMA AtaErrorSound ==
    ASSUME OneTask, TypeInv, FileInv, NEW t \in Tasks, AtaError(t)
    PROVE FileInv'
  <1> PICK v : v = loc[t]
    OBVIOUS
  <1>1. /\ UNCHANGED diskVars /\ saved' = saved /\ ops' = ops /\ spoiled' = spoiled
        /\ errors' # 0 /\ SameChains /\ v \in Locals /\ PerTask /\ pc[t] # "idle"
        /\ (stale' = stale => SameVolume)
    <2>1. /\ UNCHANGED diskVars /\ saved' = saved /\ ops' = ops /\ spoiled' = spoiled
          /\ errors' = (IF errors < MaxErrors THEN errors + 1 ELSE errors)
          /\ errors < MaxErrors \/ FailingDrive
      BY DEF AtaError
    <2>2. errors' # 0
      BY <2>1, Fat16Assumption DEF TypeInv, GhostsTyped
    <2>3. pc[t] # "idle"
      BY DEF AtaError, InAccess
    <2> QED
      BY <2>1, <2>2, <2>3, TaskFacts DEF SameVolume, SameChains, diskVars
  <1>2. CopiesInv' /\ NothingLeaked'
    BY <1>1 DEF CopiesInv, NothingLeaked
  <1>3. ASSUME op'[t] = op[t], loc'[t].old = v.old, loc'[t].i = v.i, loc'[t].reach = v.reach,
               pc[t] # "data", stale' = stale,
               pc'[t] \in {"freeRead", "allocRead", "dirRead", "fail", "data"},
               spoiled = 0 => TaskSound(t)'
        PROVE FileInv'
    <2>1. SectorsFresh'
      BY <1>3, SectorsElsewhere
    <2> QED
      BY <1>1, <1>2, <1>3, <2>1, QuietStep
  <1>4. CASE /\ pc[t] = "freeRead" /\ Goto(t, v.ret, [v EXCEPT !.cluster = 2])
             /\ UNCHANGED <<op, sector, stale>>
    <2>1. Changing(t) /\ v.ret \in {"allocRead", "dirRead", "fail"} /\ v.ret \in Labels
      BY <1>4, TaskFacts DEF PlaceTyped, AfterFree, Labels
    <2>2. Goto(t, v.ret, At(v, 2))
      BY <1>4 DEF At
    <2>3. pc'[t] = v.ret /\ loc'[t] = At(v, 2) /\ op'[t] = op[t]
      BY <1>1, <1>4, <2>1, <2>2, Moves
    <2>4. SameFile(v, loc'[t]) /\ SameChain(v, loc'[t]) /\ loc'[t].ret = v.ret
      BY <1>1, <2>3, AtTyped
    <2>5. ASSUME spoiled = 0 PROVE TaskSound(t)'
      <3>1. TaskSound(t)
        BY <2>5, SoundFacts
      <3> QED
        BY <1>1, <1>4, <2>1, <2>3, <2>4, <3>1, FreeDoneSound
    <2> QED
      BY <1>3, <1>4, <2>1, <2>3, <2>4, <2>5 DEF SameFile, SameChain
  <1>5. CASE /\ InEntry(t) /\ v.why # "claim" /\ Continue(t, LostLink(v))
             /\ UNCHANGED <<op, sector, stale>>
    <2>1. pc[t] # "data" /\ (spoiled = 0 => TaskSound(t)) /\ SameVolume
      BY <1>1, <1>5, SoundFacts DEF InEntry
    <2>2. CASE v.why = "free" /\ FreeNext(t, v)
      <3>1. v.ret \in {"allocRead", "dirRead", "fail"}
        BY <1>5, <2>2, TaskFacts DEF PlaceTyped, AfterFree
      <3>2. /\ pc'[t] \in {"freeRead", "allocRead", "dirRead", "fail"} /\ op'[t] = op[t]
            /\ loc'[t].old = v.old /\ loc'[t].i = v.i /\ loc'[t].reach = v.reach
        BY <1>1, <1>5, <2>2, <3>1, FreeNextDoes DEF SameFile, SameChain
      <3>3. ASSUME spoiled = 0 PROVE TaskSound(t)'
        BY <1>1, <1>5, <2>1, <2>2, <3>3, FreeNextSound
      <3> QED
        BY <1>3, <1>5, <2>1, <3>2, <3>3
    <2>3. CASE v.why = "end" /\ Goto(t, "dirRead", v)
      <3>1. pc'[t] = "dirRead" /\ loc'[t] = v /\ op'[t] = op[t]
        BY <1>1, <1>5, <2>3, Moves DEF Labels
      <3>2. ASSUME spoiled = 0 PROVE TaskSound(t)'
        BY <1>1, <1>5, <2>1, <2>3, <3>2, LinkedSound
      <3> QED
        BY <1>3, <1>5, <2>1, <3>1, <3>2
    <2>4. CASE v.why = "link" /\ Goto(t, "data", LostLink(v))
      <3>1. pc'[t] = "data" /\ loc'[t] = LostLink(v) /\ op'[t] = op[t]
        BY <1>1, <1>5, <2>4, Moves DEF Labels
      <3>2. loc'[t].old = v.old /\ loc'[t].i = v.i
        BY <1>1, <3>1 DEF LostLink, Locals
      <3>3. SectorsFresh'
        BY <3>1, SectorsElsewhere
      <3>4. VersionsFresh'
        BY <1>1, <3>1, <3>2, VersionsSame DEF FileInv, SameChains
      <3>5. ASSUME spoiled' = 0 PROVE ChainInv'
        <4>1. TaskSound(t)' /\ LinksSound(t)'
          BY <1>1, <1>5, <2>1, <2>4, <3>5, LostLinkSound
        <4>2. \A n \in Names : Kept(n)' => Kept(n)
          BY <1>1, <1>5, <3>1, <3>2, KeptSame
        <4>3. DirectorySound /\ FilesSound /\ ReachSound
          BY <1>1, <3>5, SoundFacts
        <4>4. DirectorySound' /\ FilesSound'
          BY <1>1, <4>2, <4>3, FilesSame, DirectorySame
        <4>5. ReachSound'
          BY <1>1, <4>1, <4>3, ReachSame DEF SameChains
        <4>6. \A u \in Tasks : TaskSound(u)'
          BY <4>1 DEF OneTask
        <4> QED
          BY <1>2, <4>4, <4>5, <4>6 DEF ChainInv
      <3> QED
        BY <1>2, <3>3, <3>4, <3>5 DEF FileInv
    <2>5. v.why # "link" => LostLink(v) = v
      BY DEF LostLink
    <2> QED
      BY <1>5, <2>2, <2>3, <2>4, <2>5 DEF Continue, LostLink
  <1>6. CASE /\ (InEntry(t) /\ v.why = "claim") \/ pc[t] = "allocRead"
             /\ GiveUp(t, v)
    BY <1>1, <1>6, GiveUpSound
  <1>7. CASE Return(t) /\ Abandon(t)
    BY <1>1, <1>7, AbandonSound
  <1> QED
    BY <1>4, <1>5, <1>6, <1>7 DEF AtaError, InEntry

\* No operation has begun.  What a used volume holds is not known to be sound,
\* except that the copies of its table agree.
LEMMA InitSound ==
    ASSUME Init
    PROVE FileInv
  <1>1. /\ fat[2] = fat[1]
        /\ spoiled = 0 => /\ fat[1] = [c \in Clusters |-> FAT_ENTRY_FREE]
                          /\ \A s \in Slots : root[s] = NeverUsed
    <2>1. PICK v \in Volumes : /\ fat = [k \in 1..2 |-> v.table]
                               /\ root = [s \in Slots |-> IF s = 1 THEN v.entry ELSE NeverUsed]
      BY DEF Init
    <2>2. fat[1] = v.table /\ fat[2] = v.table
      BY <2>1
    <2>3. ASSUME spoiled = 0
          PROVE v.table = [c \in Clusters |-> FAT_ENTRY_FREE] /\ v.entry = NeverUsed
      <3>1. DirtyDisk = FALSE
        BY <2>3, Fat16Assumption DEF Init
      <3> QED
        BY <2>1, <3>1 DEF Volumes
    <2> QED
      BY <2>1, <2>2, <2>3
  <1>2. /\ \A c \in Clusters : disk[c] = <<0, 0>>
        /\ \A t \in Tasks : pc[t] = "idle" /\ op[t] = NoOp /\ loc[t] = NoLocals
        /\ \A n \in Names : saved[n].version = 0 /\ saved[n].size = 0 /\ saved[n].reach = 0
        /\ ops = 0
    BY DEF Init, NotSaved
  <1>3. NeverUsed.name = None
    BY DEF NeverUsed
  <1>4. SectorsFresh /\ CopiesInv
    BY <1>1, <1>2 DEF SectorsFresh, CopiesInv, HalfWritten, InEntry
  <1>5. VersionsFresh
    <2>1. \A c \in Clusters : disk[c][1] = 0
      BY <1>2
    <2> QED
      BY <1>2, <2>1 DEF VersionsFresh
  <1>6. spoiled = 0 => DirectorySound
    BY <1>1, <1>2, <1>3 DEF DirectorySound
  <1>7. FilesSound
    BY <1>2 DEF FilesSound, Kept
  <1>8. \A t \in Tasks : TaskSound(t)
    BY <1>2, IdleSound
  <1>9. spoiled = 0 => NothingLeaked
    BY <1>1 DEF NothingLeaked
  <1>10. ReachSound
    <2>1. \A t \in Tasks : ~ Changing(t)
      BY <1>2 DEF Changing, NoOp
    <2> QED
      BY <1>2, <2>1 DEF ReachSound, LinksSound
  <1> QED
    BY <1>4, <1>5, <1>6, <1>7, <1>8, <1>9, <1>10 DEF FileInv, ChainInv

LEMMA StutterSound ==
    ASSUME FileInv, UNCHANGED vars
    PROVE FileInv'
  <1>1. /\ fat' = fat /\ root' = root /\ disk' = disk /\ pc' = pc /\ op' = op /\ loc' = loc
        /\ sector' = sector /\ saved' = saved /\ ops' = ops /\ errors' = errors
        /\ kills' = kills /\ stale' = stale /\ spoiled' = spoiled
    BY DEF vars
  <1>2. \A t : /\ (InEntry(t)' <=> InEntry(t)) /\ (Changing(t)' <=> Changing(t))
               /\ (HalfWritten(t)' <=> HalfWritten(t)) /\ (Claiming(t)' <=> Claiming(t))
               /\ LastEntry(t)' = LastEntry(t)
               /\ FreedVersion(t)' = FreedVersion(t) /\ FreedSize(t)' = FreedSize(t)
               /\ (Emptied(t)' <=> Emptied(t))
    BY <1>1
    DEF InEntry, Changing, HalfWritten, Claiming, LastEntry, Linking, FreedVersion, FreedSize, Reach,
        Emptied
  <1>3. \A n : Kept(n)' <=> Kept(n)
    BY <1>1, <1>2 DEF Kept, Suspended
  <1>4. SectorsFresh'
    BY <1>1 DEF FileInv, SectorsFresh
  <1>5. CopiesInv'
    BY <1>1, <1>2 DEF FileInv, CopiesInv
  <1>6. VersionsFresh'
    BY <1>1, <1>2 DEF FileInv, VersionsFresh
  <1>7. ASSUME spoiled = 0 PROVE ChainInv'
    <2>1. DirectorySound /\ FilesSound /\ ReachSound /\ NothingLeaked
      BY <1>7 DEF FileInv, ChainInv
    <2>2. SameChains
      BY <1>1 DEF SameChains
    <2>3. DirectorySound' /\ FilesSound'
      BY <1>3, <2>1, <2>2, FilesSame, DirectorySame
    <2>4. NothingLeaked'
      <3>1. \A t, c : InProgress(t, c)' <=> InProgress(t, c)
        BY <1>1, <1>2 DEF InProgress
      <3>2. \A c : Accounted(c)' <=> Accounted(c)
        BY <1>1, <1>3, <3>1 DEF Accounted
      <3> QED
        BY <1>1, <2>1, <3>2 DEF NothingLeaked
    <2>5. ASSUME NEW t \in Tasks PROVE TaskSound(t)'
      <3>1. /\ SlotFound(t) /\ FreeingSound(t) /\ BuildingSound(t) /\ FailingSound(t)
            /\ ClaimSound(t) /\ ReadingSound(t)
        BY <1>7, SoundFacts
      <3>2. SlotFound(t)' /\ FailingSound(t)' /\ ReadingSound(t)'
        BY <1>1, <1>2, <3>1 DEF SlotFound, FailingSound, ReadingSound
      <3>3. FreeingSound(t)'
        BY <1>1, <1>2, <3>1 DEF FreeingSound
      <3>4. BuildingSound(t)'
        BY <1>1, <1>2, <3>1 DEF BuildingSound
      <3>5. ClaimSound(t)'
        BY <1>1, <1>2, <1>3, <3>1 DEF ClaimSound
      <3> QED
        BY <3>2, <3>3, <3>4, <3>5 DEF TaskSound
    <2>6. ReachSound'
      <3>1. \A t \in Tasks : LinksSound(t)'
        BY <1>1, <1>2, <2>1 DEF ReachSound, LinksSound
      <3> QED
        BY <1>1, <2>1, <3>1 DEF ReachSound
    <2> QED
      BY <2>3, <2>4, <2>5, <2>6 DEF ChainInv
  <1> QED
    BY <1>1, <1>4, <1>5, <1>6, <1>7 DEF FileInv

LEMMA NextSound ==
    ASSUME OneTask, TypeInv, FileInv, [Next]_vars
    PROVE FileInv'
  <1>1. ASSUME NEW t \in Tasks, EditorSave(t) \/ EditorLoad(t) \/ CatOrRemove(t) PROVE FileInv'
    BY <1>1, StartSound DEF EditorSave, EditorLoad, CatOrRemove
  <1>2. ASSUME NEW t \in Tasks, Step(t) PROVE FileInv'
    BY <1>2, ScanSound, EntryReadSound, EntryWriteSound, FreeReadSound, AllocReadSound, DataSound,
       DirReadSound, DirWriteSound, FailSound, ReadDataSound, ReadFatSound, ReadNextSound DEF Step
  <1> QED
    BY <1>1, <1>2, AtaErrorSound, KillSound, StutterSound DEF Next

\* The invariant of one task.
LEMMA FilesInvariant ==
    ASSUME OneTask
    PROVE Spec => [](TypeInv /\ FileInv)
  <1>1. Init => TypeInv /\ FileInv
    BY InitTypes, InitSound
  <1>2. TypeInv /\ FileInv /\ [Next]_vars => (TypeInv /\ FileInv)'
    BY NextTypes, NextSound
  <1> QED
    BY <1>1, <1>2, PTL DEF Spec

----------------------------------------------------------------------------
(* What the invariant says of the files                                    *)

\* ReadReturnsSaved: as long as no operation has begun to free, for an entry
\* left with a chain given up, clusters in use again, and but for such an entry
\* itself: fat16_read_file returns the clusters of the file in order, as many as
\* its chain reaches (all of them, unless the write of a link failed) and the
\* caller's buffer takes, although it looks up every cluster in a copy of the
\* table that it has read once, at the first cluster.
THEOREM ReadsAreWhole ==
    ASSUME OneTask
    PROVE Spec => []ReadReturnsSaved
  <1>1. ASSUME TypeInv, FileInv PROVE ReadReturnsSaved
    <2>1. ASSUME NEW t \in Tasks, spoiled = 0, pc[t] = "readDone", op[t].name \notin stale,
                 NEW s, s = saved[op[t].name]
          PROVE loc[t].got = [i \in 1..Min({s.reach, op[t].size}) |-> <<s.version, i>>]
      <3>1. /\ loc[t].got = [i \in 1..Len(loc[t].got) |-> <<s.version, i>>]
            /\ Len(loc[t].got) = Least(s.reach, op[t].size)
        BY <1>1, <2>1, SoundFacts DEF ReadingSound
      <3>2. op[t].name \in Names /\ op[t].size \in Nat
        BY <1>1, <2>1, TaskFacts, Fat16Assumption DEF PlaceTyped
      <3>3. PICK a, b : a = s.reach /\ b = op[t].size
        OBVIOUS
      <3>4. a \in Nat /\ b \in Nat
        BY <1>1, <2>1, <3>2, <3>3, SavedTyped
      <3>5. Min({a, b}) = Least(a, b)
        <4>1. {a, b} \in SUBSET Nat /\ {a, b} # {}
          BY <3>4
        <4>2. Min({a, b}) \in {a, b} /\ \A k \in {a, b} : Min({a, b}) <= k
          BY <4>1, MinIsLeast
        <4> QED
          BY <3>4, <4>2 DEF Least
      <3> QED
        BY <3>1, <3>3, <3>5, Zenon
    <2> QED
      BY <2>1 DEF ReadReturnsSaved
  <1> QED
    BY <1>1, FilesInvariant, PTL

\* The i-th cluster of version v is on cluster c, and no cluster is there twice.
IsPart(d, c, v, i) == c \in Clusters /\ d[c] = <<v, i>>
PartsOnce(d) == \A a, b \in Clusters : d[a] = d[b] /\ d[a][1] # 0 => a = b

\* A version that has a first cluster has every cluster up to its size.
LEMMA ChainReaches ==
    ASSUME NEW f, NEW d, NEW v, NEW s \in Nat, NEW e, Rest(f, d, v, 1, s, e),
           NEW c, IsPart(d, c, v, 1)
    PROVE \A i \in 1..s : \E a : IsPart(d, a, v, i)
  <1> DEFINE Bad == {i \in 1..s : ~ \E a : IsPart(d, a, v, i)}
  <1> SUFFICES ASSUME Bad # {} PROVE FALSE
    OBVIOUS
  <1>1. PICK m \in Bad : \A k \in Bad : m <= k
    <2>1. Bad \in SUBSET Nat
      OBVIOUS
    <2> HIDE DEF Bad
    <2> QED
      BY <2>1, MinIsLeast
  <1>2. m \in 1..s /\ ~ \E a : IsPart(d, a, v, m)
    BY <1>1
  <1>3. m # 1
    BY <1>2
  <1>4. m - 1 \in 1..s /\ m - 1 \notin Bad
    <2>1. m - 1 \in 1..s /\ ~ (m <= m - 1)
      BY <1>2, <1>3
    <2> HIDE DEF Bad
    <2> QED
      BY <1>1, <2>1
  <1>5. PICK a : IsPart(d, a, v, m - 1)
    BY <1>4
  <1>6. a \in Clusters /\ d[a][1] = v /\ d[a][2] = m - 1 /\ m - 1 >= 1 /\ m - 1 < s
    BY <1>2, <1>4, <1>5 DEF IsPart
  <1>7. f[a] \in Clusters /\ d[f[a]] = <<v, m - 1 + 1>>
    <2>1. a \in Clusters /\ d[a][1] = v /\ d[a][2] >= 1 /\ d[a][2] < s /\ d[a][2] <= s
      BY <1>6
    <2>2. f[a] \in Clusters /\ d[f[a]] = <<v, d[a][2] + 1>>
      BY <2>1, RestAt
    <2> QED
      BY <1>6, <2>2
  <1>8. m - 1 + 1 = m
    BY <1>2
  <1> QED
    BY <1>2, <1>7, <1>8 DEF IsPart

\* w is what following table f from cluster c gives.
Walked(f, c, n, w) ==
    w = [i \in 1..n |-> IF i = 1 THEN c ELSE IF InChain(w[i - 1]) THEN f[w[i - 1]] ELSE 0]

\* The clusters of a version in their order are such a walk.
LEMMA WalkExists ==
    ASSUME NEW f, NEW d, NEW v, NEW s \in Nat, NEW e, Rest(f, d, v, 1, s, e),
           NEW c, IsPart(d, c, v, 1), PartsOnce(d), v # 0
    PROVE \E w : Walked(f, c, s, w)
  <1>0. \A i \in 1..s : \E a : IsPart(d, a, v, i)
    BY ChainReaches
  <1> DEFINE w == [i \in 1..s |-> CHOOSE a : IsPart(d, a, v, i)]
  <1>1. ASSUME NEW i \in 1..s PROVE IsPart(d, w[i], v, i)
    BY <1>0
  <1>2. DOMAIN w = 1..s /\ w = [i \in 1..s |-> w[i]]
    OBVIOUS
  <1> HIDE DEF w
  <1>3. ASSUME NEW i \in 1..s
        PROVE w[i] = IF i = 1 THEN c ELSE IF InChain(w[i - 1]) THEN f[w[i - 1]] ELSE 0
    <2>0. w[i] \in Clusters /\ d[w[i]] = <<v, i>> /\ d[w[i]][1] # 0
      BY <1>1 DEF IsPart
    <2>1. CASE i = 1
      <3>1. c \in Clusters /\ d[c] = d[w[i]]
        BY <2>0, <2>1 DEF IsPart
      <3> QED
        BY <2>0, <2>1, <3>1 DEF PartsOnce
    <2>2. CASE i # 1
      <3>1. i - 1 \in 1..s /\ i - 1 < s /\ i - 1 >= 1 /\ i - 1 + 1 = i
        BY <2>2
      <3>2. PICK a : a = w[i - 1]
        OBVIOUS
      <3>3. a \in Clusters /\ d[a] = <<v, i - 1>>
        BY <1>1, <3>1, <3>2 DEF IsPart
      <3>4. d[a][1] = v /\ d[a][2] = i - 1
        BY <3>3
      <3>5. d[a][1] = v /\ d[a][2] >= 1 /\ d[a][2] < s
        BY <3>1, <3>4
      <3>6. f[a] \in Clusters /\ d[f[a]] = <<v, d[a][2] + 1>>
        BY <3>3, <3>5, RestAt
      <3>7. d[f[a]] = <<v, i>>
        BY <3>1, <3>4, <3>6
      <3>8. f[a] = w[i]
        BY <2>0, <3>6, <3>7 DEF PartsOnce
      <3> QED
        BY <2>2, <3>2, <3>3, <3>8 DEF InChain
    <2> QED
      BY <2>1, <2>2
  <1>4. [i \in 1..s |-> w[i]]
          = [i \in 1..s |-> IF i = 1 THEN c ELSE IF InChain(w[i - 1]) THEN f[w[i - 1]] ELSE 0]
    BY <1>3
  <1> QED
    BY <1>2, <1>4, Zenon DEF Walked

\* Following the table from the first cluster of a version finds all of it.
LEMMA WalkIsChain ==
    ASSUME NEW d, NEW v, NEW s \in Nat, NEW e, Rest(fat[1], d, v, 1, s, e),
           NEW c, IsPart(d, c, v, 1), PartsOnce(d), v # 0
    PROVE \A i \in 1..s : IsPart(d, Walk(c, s)[i], v, i)
  <1>1. \E w : Walked(fat[1], c, s, w)
    BY WalkExists
  <1>2. Walk(c, s) = CHOOSE w : Walked(fat[1], c, s, w)
    BY DEF Walk, Walked
  <1>3. Walked(fat[1], c, s, Walk(c, s))
    BY <1>1, <1>2
  <1>4. PICK f, w : f = fat[1] /\ w = Walk(c, s)
    OBVIOUS
  <1>5. /\ s >= 1 => w[1] = c
        /\ \A i \in 1..s : i # 1 => w[i] = IF InChain(w[i - 1]) THEN f[w[i - 1]] ELSE 0
    <2>1. w = [i \in 1..s |-> IF i = 1 THEN c ELSE IF InChain(w[i - 1]) THEN f[w[i - 1]] ELSE 0]
      BY <1>3, <1>4 DEF Walked
    <2> QED
      BY <2>1
  <1> DEFINE Bad == {i \in 1..s : ~ IsPart(d, w[i], v, i)}
  <1>6. ASSUME Bad # {} PROVE FALSE
    <2>1. PICK m \in Bad : \A k \in Bad : m <= k
      <3>1. Bad \in SUBSET Nat
        OBVIOUS
      <3> HIDE DEF Bad
      <3> QED
        BY <1>6, <3>1, MinIsLeast
    <2>2. m \in 1..s /\ ~ IsPart(d, w[m], v, m)
      BY <2>1
    <2>3. m # 1
      BY <1>5, <2>2
    <2>4. m - 1 \in 1..s /\ m - 1 \notin Bad
      <3>1. m - 1 \in 1..s /\ ~ (m <= m - 1)
        BY <2>2, <2>3
      <3> HIDE DEF Bad
      <3> QED
        BY <2>1, <3>1
    <2>5. PICK a : a = w[m - 1]
      OBVIOUS
    <2>6. a \in Clusters /\ d[a] = <<v, m - 1>>
      BY <2>4, <2>5 DEF IsPart
    <2>7. d[a][1] = v /\ d[a][2] = m - 1 /\ m - 1 >= 1 /\ m - 1 < s /\ m - 1 + 1 = m
      BY <2>2, <2>4, <2>6
    <2>8. d[a][1] = v /\ d[a][2] >= 1 /\ d[a][2] < s
      BY <2>7
    <2>9. f[a] \in Clusters /\ d[f[a]] = <<v, d[a][2] + 1>>
      BY <1>4, <2>6, <2>8, RestAt
    <2>10. w[m] = f[a]
      BY <1>5, <2>2, <2>3, <2>5, <2>6 DEF InChain
    <2> QED
      BY <2>2, <2>7, <2>9, <2>10 DEF IsPart
  <1> QED
    BY <1>4, <1>6

\* A kept file is what its directory entry leads to, as far as its chain reaches.
LEMMA FileIsChain ==
    ASSUME TypeInv, FileInv, spoiled = 0, NEW n \in Names, Kept(n),
           NEW x \in Slots, root[x].name = n, NEW s, s = saved[n], NEW c, c = root[x].first
    PROVE /\ root[x].size = s.size /\ s.size \in Nat /\ s.reach \in Nat /\ (c = 0 <=> s.size = 0)
          /\ \A i \in 1..s.reach : IsPart(disk, Walk(c, s.reach)[i], s.version, i)
          /\ Rest(fat[1], disk, s.version, 1, s.reach, FAT_ENTRY_END)
          /\ \A a \in Clusters : disk[a][1] = s.version => fat[1][a] # FAT_ENTRY_FREE
          /\ s.reach <= s.size /\ (errors = 0 => s.reach = s.size)
  <1>1. /\ root[x].size = s.size /\ s.size \in Nat /\ (c = 0 <=> s.size = 0) /\ n # None
        /\ c \in Starts /\ s.version # 0 /\ s.reach \in Nat
        /\ s.reach <= s.size /\ (errors = 0 => s.reach = s.size)
    <2>1. n # None /\ s.size \in Nat /\ s.reach \in Nat
      BY Fat16Assumption, SavedTyped
    <2>2. c \in Starts
      BY DEF TypeInv, DiskTyped, Dirents, Starts
    <2>3. DirectorySound /\ ReachSound
      BY DEF FileInv, ChainInv
    <2>4. s.reach <= s.size /\ (errors = 0 => s.reach = s.size)
      BY <2>3 DEF ReachSound
    <2> QED
      BY <2>1, <2>2, <2>3, <2>4 DEF DirectorySound
  <1>2. /\ Rest(fat[1], disk, s.version, 1, s.reach, FAT_ENTRY_END)
        /\ \A a \in Clusters : disk[a][1] = s.version => fat[1][a] # FAT_ENTRY_FREE
    BY DEF FileInv, ChainInv, FilesSound
  <1>3. CASE s.reach = 0
    BY <1>1, <1>2, <1>3
  <1>4. CASE s.reach # 0
    <2>0. s.size # 0 /\ s.size > 0
      BY <1>1, <1>4
    <2>1. c \in Clusters /\ disk[c] = <<s.version, 1>>
      <3>1. c \in Clusters
        BY <1>1, <2>0 DEF Starts
      <3>2. disk[c] = <<s.version, 1>>
        BY <1>1, <2>0 DEF FileInv, ChainInv, FilesSound
      <3> QED
        BY <3>1, <3>2
    <2>2. PartsOnce(disk)
      BY DEF FileInv, VersionsFresh, PartsOnce
    <2> PICK v, k : v = s.version /\ k = s.reach
      OBVIOUS
    <2>3. v # 0 /\ k \in Nat /\ IsPart(disk, c, v, 1) /\ Rest(fat[1], disk, v, 1, k, FAT_ENTRY_END)
      BY <1>1, <1>2, <2>1 DEF IsPart
    <2>4. \A i \in 1..k : IsPart(disk, Walk(c, k)[i], v, i)
      BY <2>2, <2>3, WalkIsChain
    <2> QED
      BY <1>1, <1>2, <2>4
  <1> QED
    BY <1>3, <1>4

\* SavedFilesIntact: a file that nobody is writing or deleting, and whose entry
\* no operation has left with a chain given up, is on the disk as it was last
\* saved, in order and as far as its chain reaches: to its end, unless the write
\* of a link failed.  That holds whatever fat16.c has done to other files since,
\* finished or not (allocated from what was freed, given up on a full disk, been
\* cut short by a failed access or a kill), until an operation begins to free,
\* for an entry left so, clusters in use again.
THEOREM FilesStayIntact ==
    ASSUME OneTask
    PROVE Spec => []SavedFilesIntact
  <1>1. ASSUME TypeInv, FileInv PROVE SavedFilesIntact
    <2>1. ASSUME spoiled = 0, NEW n \in Names, ~ Busy(n), saved[n].version = 0
          PROVE Matches(root, n) = {}
      BY <1>1, <2>1, MatchesAre DEF FileInv, ChainInv
    <2>2. ASSUME spoiled = 0, NEW n \in Names, n \notin stale, ~ Busy(n), saved[n].version # 0
          PROVE Holds(n, saved[n])
      <3>1. PICK x \in Slots : x \in Matches(root, n) /\ root[x].name = n
        <4>1. DirectorySound
          BY <1>1, <2>2 DEF FileInv, ChainInv
        <4>2. PICK x \in Slots : root[x].name = n
          BY <2>2, <4>1 DEF DirectorySound
        <4> QED
          BY <4>1, <4>2, MatchesAre
      <3>2. Kept(n)
        BY <2>2 DEF Kept, Suspended, Busy, Changing
      <3> PICK s, c : s = saved[n] /\ c = root[x].first
        OBVIOUS
      <3>3. /\ root[x].size = s.size /\ s.reach \in Nat
            /\ \A i \in 1..s.reach : IsPart(disk, Walk(c, s.reach)[i], s.version, i)
            /\ Rest(fat[1], disk, s.version, 1, s.reach, FAT_ENTRY_END)
        BY <1>1, <2>2, <3>1, <3>2, FileIsChain
      <3> PICK w, v, k : w = Walk(c, s.reach) /\ v = s.version /\ k = s.reach
        OBVIOUS
      <3>4. ASSUME NEW i \in 1..k
            PROVE /\ InChain(w[i]) /\ disk[w[i]] = <<v, i>>
                  /\ i = k => fat[1][w[i]] = FAT_ENTRY_END
        <4> PICK a, f : a = w[i] /\ f = fat[1]
          OBVIOUS
        <4>1. a \in Clusters /\ disk[a] = <<v, i>> /\ Rest(f, disk, v, 1, k, FAT_ENTRY_END)
          BY <3>3, <3>4 DEF IsPart
        <4>2. disk[a][1] = v /\ disk[a][2] = i /\ disk[a][2] >= 1 /\ disk[a][2] <= k
          BY <3>3, <4>1
        <4>3. disk[a][2] = k => f[a] = FAT_ENTRY_END
          BY <4>1, <4>2, RestAt
        <4> QED
          BY <4>1, <4>2, <4>3 DEF InChain
      <3> QED
        BY <3>1, <3>3, <3>4 DEF Holds
    <2> QED
      BY <2>1, <2>2 DEF SavedFilesIntact
  <1> QED
    BY <1>1, FilesInvariant, PTL

\* With nothing in progress, no file's old chain is being freed.
LEMMA RestFacts ==
    ASSUME TypeInv, AtRest
    PROVE \A t \in Tasks : ~ Changing(t) /\ ~ InEntry(t) /\ \A c : ~ InProgress(t, c)
  <1>1. ASSUME NEW t \in Tasks PROVE op[t] = NoOp /\ pc[t] = "idle"
    BY TaskFacts DEF AtRest, PlaceTyped
  <1> QED
    BY <1>1 DEF Changing, InEntry, InProgress, NoOp

\* The clusters that the directory entry x leads to.
LEMMA OwnedAre ==
    ASSUME NEW c
    PROVE c \in Owned <=> \E x \in Slots : /\ root[x].first # 0 /\ root[x].name \notin stale
                                           /\ \E i \in 1..root[x].size :
                                                 c = Walk(root[x].first, root[x].size)[i]
  BY DEF Owned

LEMMA LeaksNothing ==
    ASSUME TypeInv, FileInv, AtRest, spoiled = 0, errors = 0, kills = 0
    PROVE {c \in Clusters : fat[1][c] # FAT_ENTRY_FREE} = Owned
  <1>1. DirectorySound /\ NothingLeaked /\ \A n \in Names : n # None
    BY Fat16Assumption DEF FileInv, ChainInv
  <1>2. \A n \in Names : saved[n].version # 0 /\ n \notin stale => Kept(n)
    BY RestFacts DEF Kept, Suspended
  <1>3. ASSUME NEW c \in Clusters, fat[1][c] # FAT_ENTRY_FREE PROVE c \in Owned
    <2>1. PICK n \in Names : Kept(n) /\ disk[c][1] = saved[n].version
      BY <1>1, <1>3, RestFacts DEF NothingLeaked, Accounted
    <2>2. PICK x \in Slots : root[x].name = n
      BY <1>1, <2>1 DEF DirectorySound, Kept
    <2> PICK s, a, v, k : s = saved[n] /\ a = root[x].first /\ v = s.version /\ k = s.size
      OBVIOUS
    <2>3. /\ root[x].size = k /\ k \in Nat /\ (a = 0 <=> k = 0)
          /\ \A i \in 1..k : IsPart(disk, Walk(a, k)[i], v, i)
      <3>1. s.reach = k
        BY <2>1, <2>2, FileIsChain
      <3> QED
        BY <2>1, <2>2, <3>1, FileIsChain
    <2>4. v # 0 /\ disk[c][1] = v /\ disk[c][2] \in Nat /\ disk[c] = <<v, disk[c][2]>> /\ n \notin stale
      BY <2>1, TablesTyped DEF Kept
    <2>5. disk[c][2] >= 1
      BY <2>4 DEF FileInv, VersionsFresh
    <2>6. disk[c][2] <= k
      BY <2>4 DEF FileInv, ChainInv, ReachSound
    <2> PICK j : j = disk[c][2]
      OBVIOUS
    <2>7. j \in 1..k /\ a # 0
      BY <2>3, <2>4, <2>5, <2>6
    <2>8. Walk(a, k)[j] \in Clusters /\ disk[Walk(a, k)[j]] = disk[c]
      BY <2>3, <2>4, <2>7 DEF IsPart
    <2>9. Walk(a, k)[j] = c
      BY <2>4, <2>8 DEF FileInv, VersionsFresh
    <2> QED
      BY <2>2, <2>3, <2>4, <2>7, <2>9, OwnedAre
  <1>4. ASSUME NEW c \in Owned PROVE c \in Clusters /\ fat[1][c] # FAT_ENTRY_FREE
    <2>0. PICK x \in Slots : /\ root[x].first # 0 /\ root[x].name \notin stale
                             /\ \E i \in 1..root[x].size : c = Walk(root[x].first, root[x].size)[i]
      BY <1>4, OwnedAre
    <2>1. PICK i \in 1..root[x].size :
             root[x].first # 0 /\ root[x].name \notin stale /\ c = Walk(root[x].first, root[x].size)[i]
      BY <2>0
    <2> PICK n : n = root[x].name
      OBVIOUS
    <2>2. n \in Names /\ saved[n].version # 0 /\ n \notin stale
      <3>1. root[x] \in Dirents
        BY DEF TypeInv, DiskTyped
      <3>2. n # None
        BY <1>1, <2>1 DEF DirectorySound, NeverUsed, Deleted
      <3> QED
        BY <1>1, <2>1, <3>1, <3>2 DEF DirectorySound, Dirents
    <2> PICK s, a, v, k : s = saved[n] /\ a = root[x].first /\ v = s.version /\ k = s.size
      OBVIOUS
    <2>3. /\ root[x].size = k /\ k \in Nat
          /\ \A b \in 1..k : IsPart(disk, Walk(a, k)[b], v, b)
          /\ \A b \in Clusters : disk[b][1] = v => fat[1][b] # FAT_ENTRY_FREE
      <3>1. s.reach = k
        BY <1>2, <2>2, FileIsChain
      <3> QED
        BY <1>2, <2>2, <3>1, FileIsChain
    <2>4. IsPart(disk, c, v, i)
      BY <2>1, <2>3
    <2>5. c \in Clusters /\ disk[c][1] = v
      BY <2>4 DEF IsPart
    <2>6. fat[1][c] # FAT_ENTRY_FREE
      BY <2>3, <2>5
    <2> QED
      BY <2>5, <2>6
  <1> QED
    BY <1>3, <1>4

\* TablesAreSound: between operations, without failed accesses and kills, the
\* two copies of the table are the same, and the clusters in use are those of
\* the files in the directory: fat_free_chain and the cleanup of a write that
\* found the disk or the directory full have given back all the others.
THEOREM TablesStaySound ==
    ASSUME OneTask
    PROVE Spec => []TablesAreSound
  <1>1. ASSUME TypeInv, FileInv PROVE TablesAreSound
    <2>1. TypeOK
      BY <1>1, TypesSuffice
    <2>2. NoClusterLeaks
      BY <1>1, LeaksNothing DEF NoClusterLeaks
    <2>3. CopiesAgree
      BY <1>1, RestFacts DEF CopiesAgree, FileInv, CopiesInv, HalfWritten
    <2> QED
      BY <2>1, <2>2, <2>3 DEF TablesAreSound
  <1> QED
    BY <1>1, FilesInvariant, PTL

=============================================================================
