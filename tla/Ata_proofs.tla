----------------------------- MODULE Ata_proofs -----------------------------
(***************************************************************************)
(* Theorems about the disk driver, for every number of tasks, every width  *)
(* of the registers and every set of requests inside the partition.        *)
(***************************************************************************)
EXTENDS Ata, TLAPS

----------------------------------------------------------------------------
(* Arithmetic                                                              *)

\* A remainder is a digit.
LEMMA RemainderIsDigit ==
    ASSUME NEW a \in Nat, NEW m \in Nat \ {0}
    PROVE a % m \in 0..(m - 1)
  OBVIOUS

\* What \div means.
LEMMA QuotientBounds ==
    ASSUME NEW a \in Nat, NEW m \in Nat \ {0}
    PROVE a \div m \in Nat /\ m * (a \div m) <= a /\ a < m * (a \div m) + m
  OBVIOUS

LEMMA ProductIsMonotone ==
    ASSUME NEW a \in Nat, NEW b \in Nat, NEW m \in Nat, a <= b
    PROVE m * a <= m * b
  OBVIOUS

\* A multiple that fits into a number is no larger than its quotient.
LEMMA QuotientAtLeast ==
    ASSUME NEW a \in Nat, NEW m \in Nat \ {0}, NEW k \in Nat, k * m <= a
    PROVE k <= a \div m
  <1>1. a \div m \in Nat /\ a < m * (a \div m) + m
    BY QuotientBounds
  <1>2. ASSUME k > a \div m PROVE FALSE
    <2>1. m * ((a \div m) + 1) <= m * k
      BY <1>1, <1>2, ProductIsMonotone
    <2> QED
      BY <1>1, <2>1
  <1> QED
    BY <1>1, <1>2

\* The quotient of a number of two digits is a digit.
LEMMA QuotientIsDigit ==
    ASSUME NEW a \in Nat, NEW m \in Nat \ {0}, a < m * m
    PROVE a \div m \in 0..(m - 1)
  <1>1. a \div m \in Nat /\ m * (a \div m) <= a
    BY QuotientBounds
  <1>2. ASSUME a \div m >= m PROVE FALSE
    <2>1. m * m <= m * (a \div m)
      BY <1>1, <1>2, ProductIsMonotone
    <2> QED
      BY <1>1, <2>1
  <1> QED
    BY <1>1, <1>2

----------------------------------------------------------------------------
(* Addresses                                                               *)

LEMMA ConstantTypes ==
    /\ Radix \in Nat \ {0} /\ NSectors \in Nat \ {0} /\ Words \in Nat \ {0} /\ MaxPolls \in Nat \ {0}
    /\ Offset \in Nat \ {0} /\ Offset + NSectors <= Radix * Radix
  <1>1. PICK k \in 1..(Radix - 1) : Offset = k * Radix
    BY AtaAssumption
  <1>2. Offset \in Nat \ {0}
    BY <1>1, AtaAssumption
  <1> QED
    BY <1>2, AtaAssumption

\* The partition begins at a multiple of Radix.
LEMMA OffsetIsRound == Mid(Offset) \in Nat /\ Radix * Mid(Offset) = Offset
  <1>1. PICK k \in 1..(Radix - 1) : Offset = k * Radix
    BY AtaAssumption
  <1>2. Mid(Offset) \in Nat /\ Radix * Mid(Offset) <= Offset
    BY ConstantTypes, QuotientBounds DEF Mid
  <1>3. k <= Mid(Offset)
    BY <1>1, ConstantTypes, QuotientAtLeast DEF Mid
  <1>4. Radix * k <= Radix * Mid(Offset)
    BY <1>2, <1>3, ConstantTypes, ProductIsMonotone
  <1> QED
    BY <1>1, <1>2, <1>4, ConstantTypes

\* The digits of a sector of the partition; the second is at least Offset's.
LEMMA Digits ==
    ASSUME NEW lba \in Sectors, lba >= Offset
    PROVE /\ Low(lba) \in 0..(Radix - 1)
          /\ Mid(lba) \in 0..(Radix - 1) /\ Mid(lba) >= Mid(Offset)
  <1>1. lba \in Nat /\ lba < Radix * Radix
    BY ConstantTypes DEF Sectors
  <1>2. Low(lba) \in 0..(Radix - 1)
    BY <1>1, ConstantTypes, RemainderIsDigit DEF Low
  <1>3. Mid(lba) \in 0..(Radix - 1)
    BY <1>1, ConstantTypes, QuotientIsDigit DEF Mid
  <1>4. Mid(Offset) * Radix <= lba
    BY <1>1, OffsetIsRound, ConstantTypes
  <1>5. Mid(Offset) <= lba \div Radix
    BY <1>1, <1>4, OffsetIsRound, ConstantTypes, QuotientAtLeast
  <1> QED
    BY <1>2, <1>3, <1>5, OffsetIsRound DEF Mid

\* Any such second digit, with any first one, is an address of the partition.
LEMMA MixedDigitsStayBehind ==
    ASSUME NEW l \in 0..(Radix - 1), NEW m \in 0..(Radix - 1), m >= Mid(Offset)
    PROVE l + Radix * m \in Nat /\ l + Radix * m >= Offset
  <1>1. Radix * Mid(Offset) <= Radix * m
    BY OffsetIsRound, ConstantTypes, ProductIsMonotone
  <1> QED
    BY <1>1, OffsetIsRound, ConstantTypes

----------------------------------------------------------------------------
(* The invariant                                                           *)

\* A task that is in an access wants sectors of the partition, at least one.
RequestsAreInside ==
    \A t \in Tasks : pc[t] # "idle" =>
        /\ access[t].op \in {"read", "write"}
        /\ access[t].lba >= Offset /\ access[t].n > 0

\* The registers never hold the address of a sector in front of the partition.
RegistersPointBehind == mid >= Mid(Offset) /\ count > 0

\* Neither does the drive, and while it works it has sectors left to do.
DriveIsBehind == target >= Offset /\ (Occupied => left > 0)

AtaInv == TypeOK /\ RequestsAreInside /\ RegistersPointBehind /\ DriveIsBehind

\* The driver starts after a read of the partition's first sector.
LEMMA InitEstablishes == Init => AtaInv
  <1> SUFFICES ASSUME Init PROVE AtaInv
    OBVIOUS
  <1>1. Offset \in Sectors /\ 0 \in Sectors
    BY ConstantTypes, AtaAssumption DEF Sectors
  <1>2. Offset >= Offset
    BY ConstantTypes
  <1>3. Low(Offset) \in 0..(Radix - 1) /\ Mid(Offset) \in 0..(Radix - 1)
    BY <1>1, <1>2, Digits
  <1>4. NoAccess \in [op : {"none", "read", "write"}, lba : Sectors, n : Nat, done : Nat,
                      word : 0..(Words - 1)]
    BY <1>1, ConstantTypes DEF NoAccess
  <1>5. TypeOK
    <2> DEFINE Accesses == [op : {"none", "read", "write"}, lba : Sectors, n : Nat, done : Nat,
                           word : 0..(Words - 1)]
    <2>1. access \in [Tasks -> Accesses]
      <3>1. NoAccess \in Accesses
        BY <1>4
      <3> HIDE DEF Accesses
      <3> QED
        BY <3>1 DEF Init
    <2>2. asked \in [lba : Nat, n : Nat]
      BY DEF Init, NotAsked
    <2>3. /\ pc \in [Tasks -> InAccess \cup {"idle", "first"}]
          /\ polls \in [Tasks -> 0..(MaxPolls - 1)] /\ exact \in [Tasks -> BOOLEAN]
      BY ConstantTypes DEF Init
    <2>4. moved \in 0..(Words - 1) /\ target \in Nat
      BY ConstantTypes DEF Init
    <2> QED
      BY <1>3, <2>1, <2>2, <2>3, <2>4 DEF Init, TypeOK
  <1> QED
    BY <1>3, <1>5, ConstantTypes
    DEF Init, AtaInv, RequestsAreInside, RegistersPointBehind, DriveIsBehind, Occupied

\* What the drive does on its own.
LEMMA DrivePreserves == AtaInv /\ Drive => AtaInv'
  <1> SUFFICES ASSUME AtaInv, Drive PROVE AtaInv'
    OBVIOUS
  <1> USE DEF AtaInv, TypeOK, RequestsAreInside, RegistersPointBehind, DriveIsBehind, Occupied
  <1>1. CASE DriveFails
    BY <1>1 DEF DriveFails, taskVars, registers
  <1>2. CASE DriveHasData
    BY <1>2, ConstantTypes DEF DriveHasData, taskVars, registers
  <1>3. CASE DriveCommits
    BY <1>3, ConstantTypes DEF DriveCommits, SectorDone, taskVars, registers
  <1> QED
    BY <1>1, <1>2, <1>3 DEF Drive

\* An access is asked for.
LEMMA BeginPreserves ==
    ASSUME NEW t \in Tasks, AtaInv, Begin(t)
    PROVE AtaInv'
  <1> DEFINE Accesses == [op : {"none", "read", "write"}, lba : Sectors, n : Nat, done : Nat,
                         word : 0..(Words - 1)]
  <1>1. PICK o \in {"read", "write"}, r \in Requests :
           access' = [access EXCEPT ![t] =
               [op |-> o, lba |-> r.first + Offset, n |-> r.count, done |-> 0, word |-> 0]]
    BY DEF Begin
  <1> DEFINE a == [op |-> o, lba |-> r.first + Offset, n |-> r.count, done |-> 0, word |-> 0]
  <1>2. r.first \in Nat /\ r.count \in Nat \ {0} /\ r.first + r.count <= NSectors
    BY AtaAssumption
  <1>3. r.first + Offset \in Sectors /\ r.first + Offset >= Offset
    BY <1>2, ConstantTypes DEF Sectors
  <1>4. a \in Accesses /\ a.op \in {"read", "write"} /\ a.lba >= Offset /\ a.n > 0
    BY <1>2, <1>3, ConstantTypes
  <1>5. access' \in [Tasks -> Accesses] /\ access'[t] = a /\ \A u \in Tasks \ {t} : access'[u] = access[u]
    <2>1. access \in [Tasks -> Accesses]
      BY DEF AtaInv, TypeOK
    <2> HIDE DEF Accesses
    <2> QED
      BY <1>1, <1>4, <2>1
  <1>6. pc' \in [Tasks -> InAccess \cup {"idle", "first"}] /\ \A u \in Tasks \ {t} : pc'[u] = pc[u]
    BY DEF AtaInv, TypeOK, Begin, Goto
  <1>7. TypeOK'
    BY <1>5, <1>6 DEF AtaInv, TypeOK, Begin, registers, driveVars
  <1>8. RequestsAreInside'
    BY <1>4, <1>5, <1>6 DEF AtaInv, RequestsAreInside
  <1> QED
    BY <1>7, <1>8 DEF AtaInv, RegistersPointBehind, DriveIsBehind, Occupied, Begin, registers, driveVars

\* The polling loops, which leave the drive alone and may give the access up.
LEMMA PollPreserves ==
    ASSUME NEW t \in Tasks, NEW seen \in BOOLEAN, NEW next \in InAccess,
           AtaInv, Poll(t, seen, next), pc[t] # "idle"
    PROVE AtaInv'
  <1>1. polls' \in [Tasks -> 0..(MaxPolls - 1)]
    <2>1. polls[t] + 1 \in Nat
      BY DEF AtaInv, TypeOK
    <2>2. (polls[t] + 1) % MaxPolls \in 0..(MaxPolls - 1)
      BY <2>1, ConstantTypes, RemainderIsDigit
    <2> QED
      BY <2>2, ConstantTypes DEF AtaInv, TypeOK, Poll
  <1>2. NoAccess \in [op : {"none", "read", "write"}, lba : Sectors, n : Nat, done : Nat,
                      word : 0..(Words - 1)]
    BY ConstantTypes DEF NoAccess, Sectors
  <1>3. /\ access' \in [Tasks -> [op : {"none", "read", "write"}, lba : Sectors, n : Nat, done : Nat,
                                  word : 0..(Words - 1)]]
        /\ pc' \in [Tasks -> InAccess \cup {"idle", "first"}]
        /\ disturbed' \in BOOLEAN
    <2> DEFINE Accesses == [op : {"none", "read", "write"}, lba : Sectors, n : Nat, done : Nat,
                           word : 0..(Words - 1)]
    <2>1. access \in [Tasks -> Accesses] /\ NoAccess \in Accesses
      BY <1>2 DEF AtaInv, TypeOK
    <2>2. access' \in [Tasks -> Accesses]
      <3> HIDE DEF Accesses
      <3> QED
        BY <2>1 DEF Poll, Return
    <2>3. pc' \in [Tasks -> InAccess \cup {"idle", "first"}]
      <3>1. pc \in [Tasks -> InAccess \cup {"idle", "first"}]
        BY DEF AtaInv, TypeOK
      <3> QED
        BY <3>1 DEF Poll, Goto, Return
    <2>4. disturbed' \in BOOLEAN
      <3>1. disturbed \in BOOLEAN
        BY DEF AtaInv, TypeOK
      <3> QED
        BY <3>1, Zenon DEF Poll
    <2> QED
      BY <2>2, <2>3, <2>4
  <1>4. TypeOK'
    BY <1>1, <1>3 DEF AtaInv, TypeOK, Poll, registers, driveVars
  <1>5. RequestsAreInside'
    BY DEF AtaInv, TypeOK, RequestsAreInside, Poll, Goto, Return
  <1> QED
    BY <1>4, <1>5 DEF AtaInv, RegistersPointBehind, DriveIsBehind, Occupied, Poll, registers, driveVars

\* The registers and the command.
LEMMA RegistersPreserve ==
    ASSUME NEW t \in Tasks, AtaInv,
           WriteCount(t) \/ WriteLow(t) \/ WriteMid(t) \/ WriteCommand(t)
    PROVE AtaInv'
  <1> USE DEF AtaInv, TypeOK
  <1>1. /\ Low(access[t].lba) \in 0..(Radix - 1) /\ Mid(access[t].lba) \in 0..(Radix - 1)
        /\ Mid(access[t].lba) >= Mid(Offset) /\ access[t].n > 0
    <2>1. access[t].lba \in Sectors /\ access[t].lba >= Offset /\ access[t].n > 0
      BY DEF RequestsAreInside, WriteCount, WriteLow, WriteMid, WriteCommand
    <2> QED
      BY <2>1, Digits
  <1>2. /\ pc' \in [Tasks -> InAccess \cup {"idle", "first"}] /\ disturbed' \in BOOLEAN
        /\ RequestsAreInside'
    BY DEF RequestsAreInside, WriteCount, WriteLow, WriteMid, WriteCommand, Goto, Touches, Others, InAccess
  <1>3. CASE WriteCount(t)
    BY <1>1, <1>2, <1>3
    DEF WriteCount, Stored, RegistersPointBehind, DriveIsBehind, Occupied, driveVars
  <1>4. CASE WriteLow(t)
    BY <1>1, <1>2, <1>4
    DEF WriteLow, Stored, RegistersPointBehind, DriveIsBehind, Occupied, driveVars
  <1>5. CASE WriteMid(t)
    BY <1>1, <1>2, <1>5
    DEF WriteMid, Stored, RegistersPointBehind, DriveIsBehind, Occupied, driveVars
  <1>6. CASE WriteCommand(t)
    <2>1. low + Radix * mid \in Nat /\ low + Radix * mid >= Offset
      BY MixedDigitsStayBehind DEF RegistersPointBehind
    <2>2. asked' \in [lba : Nat, n : Nat]
      BY <1>6, ConstantTypes DEF WriteCommand, NotAsked, Sectors
    <2>3. access[t].op \in {"read", "write"}
      BY <1>6 DEF RequestsAreInside, WriteCommand
    <2> QED
      BY <1>2, <1>6, <2>1, <2>2, <2>3
      DEF WriteCommand, RegistersPointBehind, DriveIsBehind, Occupied, registers
  <1> QED
    BY <1>3, <1>4, <1>5, <1>6

\* The loop variables: a word further, a sector further, or the end.
LEMMA NextWordPreserves ==
    ASSUME NEW t \in Tasks, TypeOK, RequestsAreInside, pc[t] = "words", NextWord(t)
    PROVE /\ access' \in [Tasks -> [op : {"none", "read", "write"}, lba : Sectors, n : Nat, done : Nat,
                                    word : 0..(Words - 1)]]
          /\ pc' \in [Tasks -> InAccess \cup {"idle", "first"}]
          /\ RequestsAreInside'
  <1> DEFINE Accesses == [op : {"none", "read", "write"}, lba : Sectors, n : Nat, done : Nat,
                         word : 0..(Words - 1)]
             Next1 == [access[t] EXCEPT !.word = @ + 1]
             Next2 == [access[t] EXCEPT !.word = 0, !.done = @ + 1]
  <1>1. /\ access \in [Tasks -> Accesses] /\ access[t] \in Accesses
        /\ pc \in [Tasks -> InAccess \cup {"idle", "first"}]
    BY DEF TypeOK
  <1>2. NoAccess \in Accesses
    BY ConstantTypes DEF NoAccess, Sectors
  <1>3. /\ access[t].word + 1 < Words => Next1 \in Accesses
        /\ Next2 \in Accesses
        /\ Next1.op = access[t].op /\ Next1.lba = access[t].lba /\ Next1.n = access[t].n
        /\ Next2.op = access[t].op /\ Next2.lba = access[t].lba /\ Next2.n = access[t].n
    <2>1. ASSUME access[t].word + 1 < Words PROVE Next1 \in Accesses
      <3>1. access[t].word + 1 \in 0..(Words - 1)
        BY <1>1, <2>1, ConstantTypes
      <3> QED
        BY <1>1, <3>1
    <2>2. Next2 \in Accesses
      <3>1. 0 \in 0..(Words - 1) /\ access[t].done + 1 \in Nat
        BY <1>1, ConstantTypes
      <3> QED
        BY <1>1, <3>1
    <2>3. Next1.op = access[t].op /\ Next1.lba = access[t].lba /\ Next1.n = access[t].n
      BY <1>1
    <2>4. Next2.op = access[t].op /\ Next2.lba = access[t].lba /\ Next2.n = access[t].n
      BY <1>1
    <2> QED
      BY <2>1, <2>2, <2>3, <2>4
  <1>4. \/ /\ access[t].word + 1 < Words
           /\ access' = [access EXCEPT ![t] = Next1] /\ pc' = pc
        \/ access' = [access EXCEPT ![t] = Next2] /\ pc' = [pc EXCEPT ![t] = "ready"]
        \/ access' = [access EXCEPT ![t] = NoAccess] /\ pc' = [pc EXCEPT ![t] = "idle"]
    BY <1>1 DEF NextWord, Goto, Return
  <1>5. access' \in [Tasks -> Accesses]
    <2> HIDE DEF Accesses, Next1, Next2
    <2> QED
      BY <1>1, <1>2, <1>3, <1>4
  <1>6. pc' \in [Tasks -> InAccess \cup {"idle", "first"}]
    BY <1>1, <1>4 DEF InAccess
  <1>7. RequestsAreInside'
    <2> HIDE DEF Next1, Next2, Accesses
    <2> QED
      BY <1>1, <1>3, <1>4 DEF RequestsAreInside
  <1> QED
    BY <1>5, <1>6, <1>7

\* The words.
LEMMA WordsPreserve ==
    ASSUME NEW t \in Tasks, AtaInv, ReadWord(t) \/ WriteWord(t)
    PROVE AtaInv'
  <1>1. /\ access' \in [Tasks -> [op : {"none", "read", "write"}, lba : Sectors, n : Nat, done : Nat,
                                  word : 0..(Words - 1)]]
        /\ pc' \in [Tasks -> InAccess \cup {"idle", "first"}]
        /\ RequestsAreInside'
    BY NextWordPreserves DEF AtaInv, ReadWord, WriteWord
  <1>2. disturbed' \in BOOLEAN /\ exact' \in [Tasks -> BOOLEAN]
    <2>1. disturbed' \in BOOLEAN
      BY DEF AtaInv, TypeOK, ReadWord, WriteWord, Touches, Others
    <2> QED
      BY <2>1 DEF AtaInv, TypeOK, ReadWord, WriteWord
  <1>3. moved' \in 0..(Words - 1)
    <2>1. CASE ReadWord(t)
      BY <2>1, ConstantTypes DEF AtaInv, TypeOK, ReadWord
    <2>2. CASE WriteWord(t)
      <3>1. moved + 1 \in Nat
        BY DEF AtaInv, TypeOK
      <3>2. (moved + 1) % Words \in 0..(Words - 1)
        BY <3>1, ConstantTypes, RemainderIsDigit
      <3> QED
        BY <2>2, <3>2 DEF AtaInv, TypeOK, WriteWord
    <2> QED
      BY <2>1, <2>2
  <1>4. /\ drive' \in {"idle", "busy", "drq", "commit", "err"}
        /\ target' \in Nat /\ left' \in Nat /\ DriveIsBehind'
    <2>1. CASE ReadWord(t)
      BY <2>1, ConstantTypes DEF AtaInv, TypeOK, DriveIsBehind, Occupied, ReadWord, SectorDone
    <2>2. CASE WriteWord(t)
      BY <2>2 DEF AtaInv, TypeOK, DriveIsBehind, Occupied, WriteWord
    <2> QED
      BY <2>1, <2>2
  <1>5. UNCHANGED <<registers, command, asked, polls>>
    BY DEF ReadWord, WriteWord
  <1>6. TypeOK'
    BY <1>1, <1>2, <1>3, <1>4, <1>5 DEF AtaInv, TypeOK, registers
  <1> QED
    BY <1>1, <1>4, <1>5, <1>6 DEF AtaInv, RegistersPointBehind, registers

\* Every step of an access.
LEMMA StepPreserves ==
    ASSUME NEW t \in Tasks, AtaInv, Step(t)
    PROVE AtaInv'
  <1>1. CASE WaitFirst(t)
    BY <1>1, PollPreserves DEF WaitFirst, Ready, InAccess
  <1>2. CASE WaitReady(t)
    BY <1>2, PollPreserves DEF WaitReady, Ready, InAccess
  <1>3. CASE WaitDrq(t)
    <2>1. CASE Poll(t, drive = "drq", "words")
      BY <1>3, <2>1, PollPreserves DEF WaitDrq, InAccess
    <2>2. CASE /\ Return(t) /\ polls' = [polls EXCEPT ![t] = 0]
               /\ UNCHANGED <<registers, driveVars, exact, disturbed>>
      <3> DEFINE Accesses == [op : {"none", "read", "write"}, lba : Sectors, n : Nat, done : Nat,
                             word : 0..(Words - 1)]
      <3>1. NoAccess \in Accesses /\ access \in [Tasks -> Accesses]
        BY ConstantTypes DEF NoAccess, Sectors, AtaInv, TypeOK
      <3>2. access' \in [Tasks -> Accesses]
        <4> HIDE DEF Accesses
        <4> QED
          BY <2>2, <3>1 DEF Return
      <3>3. /\ pc' \in [Tasks -> InAccess \cup {"idle", "first"}]
            /\ polls' \in [Tasks -> 0..(MaxPolls - 1)]
        BY <2>2, ConstantTypes DEF AtaInv, TypeOK, Return, Goto
      <3>4. RequestsAreInside'
        BY <2>2 DEF AtaInv, TypeOK, RequestsAreInside, Return, Goto
      <3> QED
        BY <2>2, <3>2, <3>3, <3>4
        DEF AtaInv, TypeOK, RegistersPointBehind, DriveIsBehind, Occupied, registers, driveVars
    <2> QED
      BY <1>3, <2>1, <2>2 DEF WaitDrq
  <1>4. CASE WriteCount(t) \/ WriteLow(t) \/ WriteMid(t) \/ WriteCommand(t)
    BY <1>4, RegistersPreserve
  <1>5. CASE ReadWord(t) \/ WriteWord(t)
    BY <1>5, WordsPreserve
  <1> QED
    BY <1>1, <1>2, <1>3, <1>4, <1>5 DEF Step

LEMMA NextPreserves == AtaInv /\ [Next]_vars => AtaInv'
  <1> SUFFICES ASSUME AtaInv, [Next]_vars PROVE AtaInv'
    OBVIOUS
  <1>1. CASE Drive
    BY <1>1, DrivePreserves
  <1>2. CASE \E t \in Tasks : Begin(t) \/ Step(t)
    BY <1>2, BeginPreserves, StepPreserves
  <1>3. CASE UNCHANGED vars
    BY <1>3
    DEF vars, registers, driveVars, taskVars, AtaInv, TypeOK, RequestsAreInside, RegistersPointBehind,
        DriveIsBehind, Occupied
  <1> QED
    BY <1>1, <1>2, <1>3 DEF Next

----------------------------------------------------------------------------
(* The theorems                                                            *)

\* The type invariant of the driver and the drive.
THEOREM AtaTypeCorrect == Spec => []TypeOK
  <1>1. AtaInv => TypeOK
    BY DEF AtaInv
  <1> QED
    BY <1>1, InitEstablishes, NextPreserves, PTL DEF Spec

\* No interleaving of accesses, however many tasks there are, makes the drive
\* write a sector of the boot loader or the kernel: each digit in the registers
\* comes from an address of the partition, and the partition's start is round.
THEOREM BootAreaIsSafe == Spec => []BootAreaUntouched
  <1>1. AtaInv => BootAreaUntouched
    BY DEF AtaInv, DriveIsBehind, BootAreaUntouched
  <1> QED
    BY <1>1, InitEstablishes, NextPreserves, PTL DEF Spec

----------------------------------------------------------------------------
(* What is read and written                                                *)

\* t has given its command and waits for the drive or moves words.
Working(t) == pc[t] \in {"ready", "drq", "words"}

\* The loops over sectors and words.
LoopsAreSound ==
    \A t \in Tasks : pc[t] # "idle" =>
        /\ access[t].done < access[t].n
        /\ pc[t] # "words" => access[t].word = 0
        /\ ~Working(t) => access[t].done = 0

\* Of two accesses one is still in front of its first register.
OneAtATime ==
    \A t, u \in Tasks :
        pc[t] \in InAccess \ {"count"} /\ pc[u] \in InAccess \ {"count"} => t = u

\* The registers hold what a task has written to them so far.
RegistersHold ==
    \A t \in Tasks :
        /\ pc[t] \in {"low", "mid", "command"} => count = access[t].n
        /\ pc[t] \in {"mid", "command"} => low = Low(access[t].lba)
        /\ pc[t] = "command" => mid = Mid(access[t].lba)

\* The drive works on the very word and sector that t is at, or is still writing
\* the sector before, or has failed.
Follows(t) ==
    /\ command = access[t].op /\ asked.lba = access[t].lba /\ asked.n = access[t].n
    /\ \/ drive = "err" /\ pc[t] # "words"
       \/ /\ drive = "drq" \/ (drive = "busy" /\ pc[t] = "ready")
          /\ target = access[t].lba + access[t].done /\ left = access[t].n - access[t].done
          /\ drive = "drq" => moved = access[t].word
       \/ /\ drive = "commit" /\ pc[t] = "ready"
          /\ target = access[t].lba + access[t].done - 1
          /\ left = access[t].n - access[t].done + 1

\* The drive does nothing, or writes the last sector of a command whose caller
\* has returned.
Rests ==
    \/ drive \in {"idle", "err"}
    \/ /\ drive = "commit" /\ left = 1 /\ target = asked.lba + asked.n - 1
       /\ \A t \in Tasks : pc[t] \notin InAccess

DriveIsInStep ==
    /\ \A t \in Tasks : Working(t) => Follows(t)
    /\ (\A t \in Tasks : ~Working(t)) => Rests

AllExact == \A t \in Tasks : exact[t]

\* As long as no access has fallen into another.
ExactInv == ~disturbed => OneAtATime /\ RegistersHold /\ DriveIsInStep /\ AllExact

LEMMA Types ==
    ASSUME TypeOK
    PROVE  /\ pc \in [Tasks -> InAccess \cup {"idle", "first"}]
           /\ DOMAIN access = Tasks
           /\ \A t \in Tasks : /\ access[t].op \in {"none", "read", "write"}
                               /\ access[t].lba \in Nat /\ access[t].n \in Nat
                               /\ access[t].done \in Nat /\ access[t].word \in 0..(Words - 1)
           /\ target \in Nat /\ left \in Nat /\ moved \in 0..(Words - 1)
           /\ asked.lba \in Nat /\ asked.n \in Nat
           /\ drive \in {"idle", "busy", "drq", "commit", "err"}
           /\ Words \in Nat \ {0}
  <1>1. /\ DOMAIN access = Tasks
        /\ \A t \in Tasks : access[t] \in [op : {"none", "read", "write"}, lba : Sectors, n : Nat, done : Nat,
                                           word : 0..(Words - 1)]
    BY DEF TypeOK
  <1>2. \A t \in Tasks : access[t].lba \in Nat
    BY <1>1, ConstantTypes DEF Sectors
  <1>3. asked.lba \in Nat /\ asked.n \in Nat
    BY DEF TypeOK
  <1> QED
    BY <1>1, <1>2, <1>3, ConstantTypes DEF TypeOK

\* The digits of an address make it up again.
LEMMA DigitsMakeAddress ==
    ASSUME NEW lba \in Nat
    PROVE  Low(lba) + Radix * Mid(lba) = lba
  BY ConstantTypes DEF Low, Mid

\* What NextWord does with the position of t; the others stay where they are.
LEMMA NextWordMoves ==
    ASSUME NEW t \in Tasks, TypeOK, NextWord(t), pc[t] = "words"
    PROVE  /\ \A u \in Tasks \ {t} : pc'[u] = pc[u] /\ access'[u] = access[u]
           /\ \/ /\ access[t].word + 1 < Words /\ pc'[t] = "words"
                 /\ access'[t] = [access[t] EXCEPT !.word = @ + 1]
              \/ /\ access[t].word + 1 = Words /\ access[t].done + 1 < access[t].n /\ pc'[t] = "ready"
                 /\ access'[t] = [access[t] EXCEPT !.word = 0, !.done = @ + 1]
              \/ /\ access[t].word + 1 = Words /\ access[t].done + 1 = access[t].n /\ pc'[t] = "idle"
                 /\ access'[t] = NoAccess
  <1>1. pc \in [Tasks -> InAccess \cup {"idle", "first"}] /\ DOMAIN access = Tasks
    BY Types
  <1>2. access = [u \in Tasks |-> access[u]]
    BY DEF TypeOK
  <1> QED
    BY <1>1, <1>2 DEF NextWord, Goto, Return

\* The fields of the records those steps make.
LEMMA NextWordFields ==
    ASSUME NEW t \in Tasks, TypeOK
    PROVE  /\ LET a == [access[t] EXCEPT !.word = @ + 1] IN
                 /\ a.op = access[t].op /\ a.lba = access[t].lba /\ a.n = access[t].n
                 /\ a.done = access[t].done /\ a.word = access[t].word + 1
           /\ LET a == [access[t] EXCEPT !.word = 0, !.done = @ + 1] IN
                 /\ a.op = access[t].op /\ a.lba = access[t].lba /\ a.n = access[t].n
                 /\ a.done = access[t].done + 1 /\ a.word = 0
  <1>1. access[t] \in [op : {"none", "read", "write"}, lba : Sectors, n : Nat, done : Nat,
                       word : 0..(Words - 1)]
    BY DEF TypeOK
  <1> QED
    BY <1>1

\* The loops, whatever the drive does.
LEMMA LoopsStep ==
    ASSUME AtaInv, LoopsAreSound, [Next]_vars
    PROVE  LoopsAreSound'
  <1>0. /\ pc \in [Tasks -> InAccess \cup {"idle", "first"}] /\ DOMAIN access = Tasks
        /\ \A t \in Tasks : access[t].n \in Nat /\ access[t].done \in Nat
        /\ access = [u \in Tasks |-> access[u]]
    BY Types DEF AtaInv, TypeOK
  <1>1. CASE Drive \/ UNCHANGED vars
    BY <1>1 DEF LoopsAreSound, Working, Drive, DriveFails, DriveHasData, DriveCommits, vars, taskVars
  <1>2. ASSUME NEW t \in Tasks, Begin(t)
        PROVE  LoopsAreSound'
    <2>1. PICK o \in {"read", "write"}, r \in Requests :
             access' = [access EXCEPT ![t] =
                 [op |-> o, lba |-> r.first + Offset, n |-> r.count, done |-> 0, word |-> 0]]
      BY <1>2 DEF Begin
    <2>2. r.count \in Nat \ {0}
      BY AtaAssumption
    <2>3. /\ access'[t].done = 0 /\ access'[t].word = 0 /\ access'[t].n > 0 /\ pc'[t] = "first"
          /\ \A u \in Tasks \ {t} : pc'[u] = pc[u] /\ access'[u] = access[u]
      BY <1>0, <1>2, <2>1, <2>2 DEF Begin, Goto
    <2> QED
      BY <2>3 DEF LoopsAreSound, Working
  <1>3. ASSUME NEW t \in Tasks, WriteCount(t) \/ WriteLow(t) \/ WriteMid(t) \/ WriteCommand(t)
        PROVE  LoopsAreSound'
    BY <1>0, <1>3 DEF LoopsAreSound, Working, WriteCount, WriteLow, WriteMid, WriteCommand, Goto
  <1>4. ASSUME NEW t \in Tasks, pc'[t] = "idle",
               \A u \in Tasks \ {t} : pc'[u] = pc[u] /\ access'[u] = access[u]
        PROVE  LoopsAreSound'
    BY <1>4 DEF LoopsAreSound, Working
  <1>5. ASSUME NEW t \in Tasks, WaitFirst(t) \/ WaitReady(t) \/ WaitDrq(t)
        PROVE  LoopsAreSound'
    <2>1. CASE Return(t)
      BY <1>0, <1>4, <2>1 DEF Return, Goto
    <2>2. CASE UNCHANGED <<pc, access>>
      BY <2>2 DEF LoopsAreSound, Working
    <2>3. CASE /\ access' = access /\ pc[t] # "words"
               /\ \/ pc[t] = "first" /\ Goto(t, "count")
                  \/ pc[t] = "ready" /\ Goto(t, "drq")
                  \/ pc[t] = "drq" /\ Goto(t, "words")
      BY <1>0, <2>3 DEF LoopsAreSound, Working, Goto
    <2> QED
      BY <1>5, <2>1, <2>2, <2>3 DEF WaitFirst, WaitReady, WaitDrq, Poll
  <1>6. ASSUME NEW t \in Tasks, ReadWord(t) \/ WriteWord(t)
        PROVE  LoopsAreSound'
    <2>1. NextWord(t) /\ pc[t] = "words" /\ TypeOK
      BY <1>6 DEF ReadWord, WriteWord, AtaInv
    <2>2. \A u \in Tasks \ {t} : pc'[u] = pc[u] /\ access'[u] = access[u]
      BY <2>1, NextWordMoves
    <2>3. \/ /\ pc'[t] = "words" /\ access'[t].n = access[t].n /\ access'[t].done = access[t].done
          \/ /\ pc'[t] = "ready" /\ access'[t].n = access[t].n /\ access'[t].word = 0
             /\ access'[t].done = access[t].done + 1 /\ access[t].done + 1 < access[t].n
          \/ pc'[t] = "idle"
      BY <2>1, NextWordMoves, NextWordFields
    <2> QED
      BY <2>1, <2>2, <2>3 DEF LoopsAreSound, Working
  <1> QED
    BY <1>1, <1>2, <1>3, <1>5, <1>6 DEF Next, Step

\* A step of a task that is not in the way of the drive.
LEMMA DriveStepExact ==
    ASSUME AtaInv, LoopsAreSound, ExactInv, Drive
    PROVE  ExactInv'
  <1> SUFFICES ASSUME ~disturbed'
               PROVE  ExactInv'
    BY DEF ExactInv
  <1>0. TypeOK /\ LoopsAreSound /\ DriveIsBehind
    BY DEF AtaInv
  <1>1. /\ UNCHANGED <<registers, command, asked, taskVars, disturbed>>
        /\ OneAtATime /\ RegistersHold /\ DriveIsInStep /\ AllExact
    BY DEF Drive, DriveFails, DriveHasData, DriveCommits, ExactInv
  <1>2. OneAtATime' /\ RegistersHold' /\ AllExact'
    BY <1>1 DEF OneAtATime, RegistersHold, AllExact, registers, taskVars
  <1>3. ASSUME NEW t \in Tasks, Working(t)
        PROVE  Follows(t)'
    <2>1. Follows(t) /\ pc[t] # "idle" /\ UNCHANGED <<pc, access, command, asked>>
      BY <1>1, <1>3 DEF DriveIsInStep, Working, taskVars
    <2>2. CASE DriveFails
      <3>1. pc[t] # "words"
        BY <2>1, <2>2 DEF DriveFails, Follows
      <3> QED
        BY <2>1, <2>2, <3>1 DEF DriveFails, Follows
    <2>3. CASE DriveHasData
      BY <1>0, <2>1, <2>3 DEF DriveHasData, Follows, LoopsAreSound
    <2>4. CASE DriveCommits
      <3>1. /\ pc[t] = "ready" /\ target = access[t].lba + access[t].done - 1
            /\ left = access[t].n - access[t].done + 1
        BY <2>1, <2>4 DEF DriveCommits, Follows
      <3>2. left > 1
        BY <1>0, <2>1, <3>1, Types DEF LoopsAreSound
      <3>3. drive' = "busy" /\ target' = target + 1 /\ left' = left - 1
        BY <1>0, <2>4, <3>2, Types DEF DriveCommits, SectorDone
      <3> QED
        BY <1>0, <2>1, <3>1, <3>3, Types DEF Follows
    <2> QED
      BY <2>2, <2>3, <2>4 DEF Drive
  <1>4. ASSUME \A t \in Tasks : ~Working(t)
        PROVE  Rests'
    <2>1. Rests /\ UNCHANGED <<pc, asked>>
      BY <1>1, <1>4 DEF DriveIsInStep, taskVars
    <2> QED
      BY <2>1 DEF Rests, Drive, DriveFails, DriveHasData, DriveCommits, SectorDone
  <1>5. \A t \in Tasks : Working(t)' <=> Working(t)
    BY <1>1 DEF Working, taskVars
  <1> QED
    BY <1>2, <1>3, <1>4, <1>5 DEF ExactInv, DriveIsInStep

\* A task that begins, waits or gives up does not disturb the drive.
LEMMA WaitStepExact ==
    ASSUME NEW t \in Tasks, AtaInv, LoopsAreSound, ExactInv,
           Begin(t) \/ WaitFirst(t) \/ WaitReady(t) \/ WaitDrq(t)
    PROVE  ExactInv'
  <1> SUFFICES ASSUME ~disturbed'
               PROVE  ExactInv'
    BY DEF ExactInv
  <1>0. TypeOK /\ pc \in [Tasks -> InAccess \cup {"idle", "first"}] /\ DOMAIN access = Tasks
    BY Types DEF AtaInv
  <1>1. /\ UNCHANGED <<registers, driveVars>> /\ ~disturbed
        /\ \A u \in Tasks \ {t} : pc'[u] = pc[u] /\ access'[u] = access[u]
    <2>1. access = [u \in Tasks |-> access[u]]
      BY DEF AtaInv, TypeOK
    <2>2. UNCHANGED <<registers, driveVars>>
      BY DEF Begin, WaitFirst, WaitReady, WaitDrq, Poll
    <2>3. ~disturbed
      BY Zenon DEF Begin, WaitFirst, WaitReady, WaitDrq, Poll
    <2>4. \A u \in Tasks \ {t} : pc'[u] = pc[u]
      BY <1>0 DEF Begin, WaitFirst, WaitReady, WaitDrq, Poll, Goto, Return
    <2>5. \A u \in Tasks \ {t} : access'[u] = access[u]
      BY <2>1 DEF Begin, WaitFirst, WaitReady, WaitDrq, Poll, Return
    <2> QED
      BY <2>2, <2>3, <2>4, <2>5
  <1>2. OneAtATime /\ RegistersHold /\ DriveIsInStep /\ AllExact
    BY <1>1 DEF ExactInv
  <1>3. AllExact'
    <2>1. exact \in [Tasks -> BOOLEAN]
      BY DEF AtaInv, TypeOK
    <2> QED
      BY <1>2, <2>1 DEF AllExact, Begin, WaitFirst, WaitReady, WaitDrq, Poll
  <1>4. \/ pc[t] = "idle" /\ pc'[t] = "first"
        \/ pc[t] = "first" /\ pc'[t] = "idle"
        \/ pc[t] = "first" /\ pc'[t] = "count" /\ Ready /\ access' = access
        \/ pc'[t] = pc[t] /\ access' = access
        \/ pc[t] = "ready" /\ pc'[t] = "drq" /\ Ready /\ access' = access
        \/ pc[t] = "drq" /\ pc'[t] = "words" /\ drive = "drq" /\ access' = access
        \/ pc[t] = "drq" /\ pc'[t] = "idle" /\ drive = "err"
    <2>1. CASE Begin(t)
      BY <1>0, <2>1 DEF Begin, Goto
    <2>2. CASE WaitFirst(t)
      BY <1>0, <2>2 DEF WaitFirst, Poll, Goto, Return
    <2>3. CASE WaitReady(t)
      BY <1>0, <2>3 DEF WaitReady, Poll, Goto, Return, InAccess
    <2>4. CASE WaitDrq(t)
      BY <1>0, <2>4 DEF WaitDrq, Poll, Goto, Return, InAccess
    <2> QED
      BY <2>1, <2>2, <2>3, <2>4
  <1>5. OneAtATime' /\ RegistersHold'
    BY <1>0, <1>1, <1>2, <1>4 DEF OneAtATime, RegistersHold, InAccess, registers
  <1>6. DriveIsInStep'
    <2>1. ASSUME NEW u \in Tasks, u # t, Working(u)'
          PROVE  Follows(u)'
      BY <1>1, <1>2, <2>1 DEF DriveIsInStep, Working, Follows, driveVars
    <2>2. ASSUME Working(t)'
          PROVE  Follows(t)'
      <3>1. Working(t) /\ Follows(t) /\ access' = access
        BY <1>2, <1>4, <2>2 DEF DriveIsInStep, Working
      <3> QED
        BY <1>1, <1>4, <3>1 DEF Follows, Working, Ready, driveVars
    <2>3. ASSUME \A u \in Tasks : ~Working(u)'
          PROVE  Rests'
      <3>1. \A u \in Tasks \ {t} : ~Working(u)
        BY <1>1, <2>3 DEF Working
      <3>2. CASE Working(t)
        BY <1>1, <1>4, <2>3, <3>2 DEF Working, Rests, driveVars
      <3>3. CASE ~Working(t)
        <4>1. Rests
          BY <1>2, <3>1, <3>3 DEF DriveIsInStep
        <4> QED
          BY <1>1, <1>4, <3>3, <4>1 DEF Rests, Ready, InAccess, Working, driveVars
      <3> QED
        BY <3>2, <3>3
    <2> QED
      BY <2>1, <2>2, <2>3 DEF DriveIsInStep
  <1> QED
    BY <1>3, <1>5, <1>6 DEF ExactInv

\* In front of the command the drive is free for t.
LEMMA DriveIsFree ==
    ASSUME NEW t \in Tasks, ExactInv, ~disturbed, ~Others(t), pc[t] \in {"count", "low", "mid", "command"}
    PROVE  /\ drive \in {"idle", "err"}
           /\ \A u \in Tasks : ~Working(u)
  <1>1. \A u \in Tasks : ~Working(u)
    BY DEF Others, Working, InAccess
  <1>2. Rests
    BY <1>1 DEF ExactInv, DriveIsInStep
  <1> QED
    BY <1>1, <1>2 DEF Rests, InAccess

\* The registers, one after the other.
LEMMA RegisterStepExact ==
    ASSUME NEW t \in Tasks, AtaInv, LoopsAreSound, ExactInv,
           WriteCount(t) \/ WriteLow(t) \/ WriteMid(t)
    PROVE  ExactInv'
  <1> SUFFICES ASSUME ~disturbed'
               PROVE  ExactInv'
    BY DEF ExactInv
  <1>0. TypeOK /\ pc \in [Tasks -> InAccess \cup {"idle", "first"}]
    BY Types DEF AtaInv
  <1>1. ~disturbed /\ ~Others(t)
    BY Zenon DEF WriteCount, WriteLow, WriteMid, Touches
  <1>2. OneAtATime /\ RegistersHold /\ DriveIsInStep /\ AllExact
    BY <1>1 DEF ExactInv
  <1>3. drive \in {"idle", "err"} /\ \A u \in Tasks : ~Working(u)
    BY <1>1, DriveIsFree DEF WriteCount, WriteLow, WriteMid
  <1>4. ~Occupied
    BY <1>3 DEF Occupied
  <1>5. /\ UNCHANGED <<driveVars, access, exact>>
        /\ \A u \in Tasks \ {t} : pc'[u] = pc[u] /\ pc[u] \notin InAccess
        /\ \/ pc[t] = "count" /\ pc'[t] = "low" /\ count' = access[t].n
           \/ pc[t] = "low" /\ pc'[t] = "mid" /\ low' = Low(access[t].lba) /\ count' = count
           \/ pc[t] = "mid" /\ pc'[t] = "command" /\ mid' = Mid(access[t].lba) /\ low' = low /\ count' = count
    BY <1>0, <1>1, <1>4 DEF WriteCount, WriteLow, WriteMid, Stored, Goto, Others
  <1>6. OneAtATime' /\ RegistersHold' /\ AllExact'
    BY <1>2, <1>5 DEF OneAtATime, RegistersHold, AllExact, InAccess
  <1>7. DriveIsInStep'
    BY <1>3, <1>5 DEF DriveIsInStep, Working, Rests, driveVars
  <1> QED
    BY <1>6, <1>7 DEF ExactInv

\* The command starts at the sector that t wants.
LEMMA CommandStepExact ==
    ASSUME NEW t \in Tasks, AtaInv, LoopsAreSound, ExactInv, WriteCommand(t)
    PROVE  ExactInv'
  <1> SUFFICES ASSUME ~disturbed'
               PROVE  ExactInv'
    BY DEF ExactInv
  <1>0. TypeOK /\ pc \in [Tasks -> InAccess \cup {"idle", "first"}]
    BY Types DEF AtaInv
  <1>1. ~disturbed /\ ~Others(t) /\ pc[t] = "command"
    BY Zenon DEF WriteCommand, Touches
  <1>2. RegistersHold /\ AllExact
    BY <1>1 DEF ExactInv
  <1>3. drive \in {"idle", "err"}
    BY <1>1, DriveIsFree
  <1>4. /\ drive' = "busy" /\ command' = access[t].op /\ target' = low + Radix * mid /\ left' = count
        /\ asked' = [lba |-> access[t].lba, n |-> access[t].n]
        /\ UNCHANGED <<access, exact>>
    BY <1>3 DEF WriteCommand, Occupied
  <1>5. target' = access[t].lba /\ left' = access[t].n
    BY <1>0, <1>1, <1>2, <1>4, Types, DigitsMakeAddress DEF RegistersHold
  <1>6. access[t].done = 0
    BY <1>1 DEF LoopsAreSound, Working
  <1>7. pc'[t] = "ready" /\ \A u \in Tasks \ {t} : pc'[u] = pc[u] /\ pc[u] \notin InAccess
    BY <1>0, <1>1 DEF WriteCommand, Goto, Others
  <1>8. OneAtATime' /\ RegistersHold' /\ AllExact'
    BY <1>2, <1>4, <1>7 DEF OneAtATime, RegistersHold, AllExact, InAccess
  <1>9. Follows(t)'
    BY <1>0, <1>4, <1>5, <1>6, <1>7, Types DEF Follows
  <1>10. DriveIsInStep'
    BY <1>7, <1>9 DEF DriveIsInStep, Working, InAccess
  <1> QED
    BY <1>8, <1>10 DEF ExactInv

\* The word that t moves is the word that the drive moves.
LEMMA WordsMeet ==
    ASSUME NEW t \in Tasks, ExactInv, ~disturbed, pc[t] = "words"
    PROVE  /\ drive = "drq" /\ command = access[t].op /\ moved = access[t].word
           /\ asked.lba = access[t].lba /\ asked.n = access[t].n
           /\ target = access[t].lba + access[t].done /\ left = access[t].n - access[t].done
  BY DEF ExactInv, DriveIsInStep, Working, Follows

\* Then both go on, in one of three ways.
LEMMA WordStepExact ==
    ASSUME NEW t \in Tasks, AtaInv, LoopsAreSound, ExactInv, ReadWord(t) \/ WriteWord(t)
    PROVE  ExactInv'
  <1> SUFFICES ASSUME ~disturbed'
               PROVE  ExactInv'
    BY DEF ExactInv
  <1>0. TypeOK /\ pc \in [Tasks -> InAccess \cup {"idle", "first"}] /\ exact \in [Tasks -> BOOLEAN]
    BY Types DEF AtaInv, TypeOK
  <1>1. ~disturbed /\ ~Others(t) /\ pc[t] = "words" /\ NextWord(t)
    BY Zenon DEF ReadWord, WriteWord, Touches
  <1>2. OneAtATime /\ RegistersHold /\ AllExact
    BY <1>1 DEF ExactInv
  <1>3. /\ drive = "drq" /\ command = access[t].op /\ moved = access[t].word
        /\ asked.lba = access[t].lba /\ asked.n = access[t].n
        /\ target = access[t].lba + access[t].done /\ left = access[t].n - access[t].done
    BY <1>1, WordsMeet
  <1>4. /\ access[t].lba \in Nat /\ access[t].n \in Nat /\ access[t].done \in Nat
        /\ access[t].word \in 0..(Words - 1) /\ Words \in Nat \ {0}
        /\ access[t].done < access[t].n
    BY <1>0, <1>1, Types DEF LoopsAreSound
  <1>5. /\ UNCHANGED <<registers, command, asked>>
        /\ \A u \in Tasks \ {t} : pc'[u] = pc[u] /\ pc[u] \notin InAccess /\ access'[u] = access[u]
    <2>1. \A u \in Tasks \ {t} : pc'[u] = pc[u] /\ access'[u] = access[u]
      BY <1>0, <1>1, NextWordMoves
    <2> QED
      BY <1>1, <2>1 DEF ReadWord, WriteWord, Others
  <1>a. \/ /\ access[t].word + 1 < Words /\ pc'[t] = "words"
           /\ access'[t] = [access[t] EXCEPT !.word = @ + 1]
        \/ /\ access[t].word + 1 = Words /\ access[t].done + 1 < access[t].n /\ pc'[t] = "ready"
           /\ access'[t] = [access[t] EXCEPT !.word = 0, !.done = @ + 1]
        \/ /\ access[t].word + 1 = Words /\ access[t].done + 1 = access[t].n /\ pc'[t] = "idle"
           /\ access'[t] = NoAccess
    BY <1>0, <1>1, NextWordMoves
  <1>6. AllExact'
    <2>1. CASE ReadWord(t)
      <3>1. exact' = [exact EXCEPT ![t] = disturbed' \/ (@ /\ (drive = "drq" /\ command = "read") /\ target = access[t].lba + access[t].done /\ moved = access[t].word)]
        BY <2>1 DEF ReadWord
      <3>2. command = "read"
        BY <1>3, <2>1 DEF ReadWord
      <3>3. disturbed' \/ (exact[t] /\ (drive = "drq" /\ command = "read") /\ target = access[t].lba + access[t].done /\ moved = access[t].word)
        BY <1>2, <1>3, <3>2 DEF AllExact
      <3> QED
        BY <1>0, <1>2, <3>1, <3>3, Zenon DEF AllExact
    <2>2. CASE WriteWord(t)
      BY <1>2, <2>2 DEF AllExact, WriteWord
    <2> QED
      BY <2>1, <2>2
  <1>7. CASE access[t].word + 1 < Words
    <2>1. /\ pc'[t] = "words" /\ access'[t].op = access[t].op /\ access'[t].lba = access[t].lba
          /\ access'[t].n = access[t].n /\ access'[t].done = access[t].done
          /\ access'[t].word = access[t].word + 1
      <3>1. pc'[t] = "words" /\ access'[t] = [access[t] EXCEPT !.word = @ + 1]
        BY <1>4, <1>7, <1>a
      <3> QED
        BY <1>0, <3>1, NextWordFields
    <2>2. drive' = "drq" /\ moved' = moved + 1 /\ target' = target /\ left' = left
      <3>1. CASE ReadWord(t)
        BY <1>3, <1>4, <1>7, <3>1 DEF ReadWord
      <3>2. CASE WriteWord(t)
        <4>1. (moved + 1) % Words = moved + 1
          BY <1>3, <1>4, <1>7
        <4> QED
          BY <1>3, <1>4, <1>7, <3>2, <4>1 DEF WriteWord
      <3> QED
        BY <3>1, <3>2
    <2>3. Follows(t)'
      BY <1>3, <1>5, <2>1, <2>2 DEF Follows
    <2>4. OneAtATime' /\ RegistersHold' /\ DriveIsInStep'
      BY <1>5, <2>1, <2>3 DEF OneAtATime, RegistersHold, DriveIsInStep, Working, InAccess
    <2> QED
      BY <1>6, <2>4 DEF ExactInv
  <1>8. ASSUME access[t].word + 1 = Words
        PROVE  \/ drive' = "commit" /\ target' = target /\ left' = left
               \/ left # 1 /\ drive' = "busy" /\ target' = target + 1 /\ left' = left - 1
               \/ left = 1 /\ drive' = "idle"
    <2>1. CASE ReadWord(t)
      BY <1>3, <1>4, <1>8, <2>1 DEF ReadWord, SectorDone
    <2>2. CASE WriteWord(t)
      BY <1>3, <1>4, <1>8, <2>2 DEF WriteWord
    <2> QED
      BY <2>1, <2>2
  <1>9. CASE access[t].word + 1 = Words /\ access[t].done + 1 < access[t].n
    <2>1. /\ pc'[t] = "ready" /\ access'[t].op = access[t].op /\ access'[t].lba = access[t].lba
          /\ access'[t].n = access[t].n /\ access'[t].done = access[t].done + 1
      <3>1. pc'[t] = "ready" /\ access'[t] = [access[t] EXCEPT !.word = 0, !.done = @ + 1]
        BY <1>4, <1>9, <1>a
      <3> QED
        BY <1>0, <3>1, NextWordFields
    <2>2. Follows(t)'
      BY <1>3, <1>4, <1>5, <1>8, <1>9, <2>1 DEF Follows
    <2>3. OneAtATime' /\ RegistersHold' /\ DriveIsInStep'
      BY <1>5, <2>1, <2>2 DEF OneAtATime, RegistersHold, DriveIsInStep, Working, InAccess
    <2> QED
      BY <1>6, <2>3 DEF ExactInv
  <1>10. CASE access[t].word + 1 = Words /\ access[t].done + 1 = access[t].n
    <2>1. pc'[t] = "idle"
      BY <1>4, <1>10, <1>a
    <2>2. \A u \in Tasks : pc'[u] \notin InAccess
      BY <1>5, <2>1 DEF InAccess
    <2>3. Rests'
      BY <1>3, <1>4, <1>5, <1>8, <1>10, <2>2 DEF Rests
    <2>4. OneAtATime' /\ RegistersHold' /\ DriveIsInStep'
      BY <2>2, <2>3 DEF OneAtATime, RegistersHold, DriveIsInStep, Working, InAccess
    <2> QED
      BY <1>6, <2>4 DEF ExactInv
  <1> QED
    BY <1>4, <1>7, <1>9, <1>10

\* Every step keeps the drive in step with the task.
LEMMA ExactStep ==
    ASSUME AtaInv, LoopsAreSound, ExactInv, [Next]_vars
    PROVE  ExactInv'
  <1>1. CASE Drive
    BY <1>1, DriveStepExact
  <1>2. ASSUME NEW t \in Tasks, Begin(t) \/ Step(t)
        PROVE  ExactInv'
    <2>1. CASE Begin(t) \/ WaitFirst(t) \/ WaitReady(t) \/ WaitDrq(t)
      BY <2>1, WaitStepExact
    <2>2. CASE WriteCount(t) \/ WriteLow(t) \/ WriteMid(t)
      BY <2>2, RegisterStepExact
    <2>3. CASE WriteCommand(t)
      BY <2>3, CommandStepExact
    <2>4. CASE ReadWord(t) \/ WriteWord(t)
      BY <2>4, WordStepExact
    <2> QED
      BY <1>2, <2>1, <2>2, <2>3, <2>4 DEF Step
  <1>3. CASE UNCHANGED vars
    BY <1>3
    DEF vars, registers, driveVars, taskVars, ExactInv, OneAtATime, RegistersHold, DriveIsInStep, AllExact,
        Working, Follows, Rests
  <1> QED
    BY <1>1, <1>2, <1>3 DEF Next

\* Without a second access in between, each word that is read is the word that was
\* asked for, and each sector that is written is one of those that were asked for,
\* for any number of sectors, words, tasks and polls, and although a write returns
\* while the drive still writes its last sector.
THEOREM AccessesMoveWhatWasAsked == Spec => []AccessesAreExact
  <1>1. Init => LoopsAreSound /\ ExactInv
    BY DEF Init, LoopsAreSound, ExactInv, OneAtATime, RegistersHold, DriveIsInStep, AllExact, Working, Rests,
           InAccess
  <1>2. AtaInv /\ LoopsAreSound /\ [Next]_vars => LoopsAreSound'
    BY LoopsStep
  <1>3. AtaInv /\ LoopsAreSound /\ ExactInv /\ [Next]_vars => ExactInv'
    BY ExactStep
  <1>4. ASSUME AtaInv, LoopsAreSound, ExactInv
        PROVE  AccessesAreExact
    <2>1. TypeOK
      BY <1>4 DEF AtaInv
    <2>2. ReadsAreExact
      BY <1>4 DEF ExactInv, AllExact, ReadsAreExact
    <2>3. ASSUME drive = "commit", ~disturbed
          PROVE  target = asked.lba + asked.n - left
      <3>1. CASE \E t \in Tasks : Working(t)
        <4>1. PICK t \in Tasks : Working(t)
          BY <3>1
        <4>2. Follows(t)
          BY <1>4, <2>3, <4>1 DEF ExactInv, DriveIsInStep
        <4> QED
          BY <2>1, <2>3, <4>2, Types DEF Follows
      <3>2. CASE \A t \in Tasks : ~Working(t)
        <4>1. Rests
          BY <1>4, <2>3, <3>2 DEF ExactInv, DriveIsInStep
        <4> QED
          BY <2>1, <2>3, <4>1, Types DEF Rests
      <3> QED
        BY <3>1, <3>2
    <2> QED
      BY <2>1, <2>2, <2>3 DEF AccessesAreExact, WritesAreExact
  <1> QED
    BY <1>1, <1>2, <1>3, <1>4, InitEstablishes, NextPreserves, PTL DEF Spec
=============================================================================
