----------------------------- MODULE Heap_proofs -----------------------------
(***************************************************************************)
(* Theorems about Heap, for every page and header size, any amount of      *)
(* memory and any requests: the heap is sound after any sequence of calls, *)
(* and what callers hold is left alone.                                    *)
(***************************************************************************)
EXTENDS Heap, TLAPS, FiniteSetTheorems, SequenceTheorems, WellFoundedInduction

----------------------------------------------------------------------------
(* The invariant                                                           *)

Blocks == [addr : Nat, size : Nat \ {0}, free : {0, 1}]

\* Blocks follow each other without a gap.
Adjacent(list) == \A i \in 1..(Len(list) - 1) : EndOf(list[i]) = list[i + 1].addr
Merged(list) == \A i \in 1..(Len(list) - 1) : list[i].free = 0 \/ list[i + 1].free = 0

\* A list of blocks that starts at the start of the heap.
Tidy(list) ==
    /\ list \in Seq(Blocks) /\ list # <<>>
    /\ list[1].addr = 0 /\ Adjacent(list)

\* What callers hold is what is in use, pointer by pointer.
Held ==
    /\ \A a \in live : \E i \in 1..Len(blocks) :
          Pointer(blocks[i]) = a.ptr /\ blocks[i].free = 0 /\ blocks[i].size >= a.words
    /\ \A i \in 1..Len(blocks) : blocks[i].free = 0 => \E a \in live : a.ptr = Pointer(blocks[i])
    /\ \A a, b \in live : a.ptr = b.ptr => a = b

HeapTypes ==
    /\ heap_end \in Nat /\ (\E n \in Nat : heap_end = n * PageSize)
    /\ live \subseteq [ptr : Nat, words : Nat \ {0}]
    /\ frames \in 0..NFrames /\ frames + HeapFrames <= NFrames
    /\ overrun \in {0, 1}

HeapInv ==
    /\ HeapTypes /\ Tidy(blocks) /\ Merged(blocks) /\ Held
    /\ overrun = 0 => EndOf(Last(blocks)) = heap_end

----------------------------------------------------------------------------
(* Numbers                                                                 *)

\* A set of numbers has a least one, and Min finds it.
LEMMA MinIsLeast ==
    ASSUME NEW T \in SUBSET Nat, T # {}
    PROVE  Min(T) \in T /\ \A k \in T : Min(T) <= k
<1> DEFINE Upto(k) == 0..k
           F == {Upto(k) : k \in T}
<1>1. \A k \in T : IsFiniteSet(0..k) /\ 0..k \subseteq Nat
  BY FS_Interval
<1>2. F \subseteq FiniteSubsetsOf(Nat) /\ F # {}
  BY <1>1 DEF FiniteSubsetsOf
<1>3. IsWellFoundedOn(StrictSubsetOrdering(Nat), FiniteSubsetsOf(Nat))
  BY FS_StrictSubsetOrderingWellFounded
<1>4. PICK x \in F : \A y \in F : ~ (<<y, x>> \in StrictSubsetOrdering(Nat))
  <2> HIDE DEF F
  <2> QED
    BY <1>2, <1>3, WFMin, Zenon
<1>5. PICK m \in T : x = 0..m
  OBVIOUS
<1>6. ASSUME NEW k \in T, k < m PROVE FALSE
  <2>1. 0..k \in F
    OBVIOUS
  <2>2. 0..k \subseteq 0..m /\ 0..k # 0..m
    BY <1>6
  <2>3. <<0..k, 0..m>> \in StrictSubsetOrdering(Nat)
    BY <2>2 DEF StrictSubsetOrdering
  <2>4. QED
    BY <1>4, <1>5, <2>1, <2>3
<1>7. m \in T /\ \A k \in T : m <= k
  BY <1>6
<1>8. QED
  BY <1>7 DEF Min

LEMMA ProductGrows ==
    ASSUME NEW a \in Nat, NEW b \in Nat, NEW m \in Nat, a <= b
    PROVE  m * a <= m * b
  OBVIOUS

\* Whole pages: their number is found by dividing, and is enough for what was
\* asked for.
LEMMA WholePages ==
    ASSUME NEW n \in Nat, NEW m \in Nat \ {0}
    PROVE  (n * m) \div m = n
<1>1. /\ (n * m) \div m \in Nat /\ m * ((n * m) \div m) <= n * m
      /\ n * m < m * ((n * m) \div m) + m
  OBVIOUS
<1> DEFINE q == (n * m) \div m
<1>2. q \in Nat /\ m * q <= m * n /\ m * n < m * (q + 1)
  BY <1>1
<1> HIDE DEF q
<1>3. ASSUME q < n PROVE FALSE
  <2>1. m * (q + 1) <= m * n
    BY <1>2, <1>3, ProductGrows
  <2>2. QED
    BY <1>2, <2>1
<1>4. ASSUME q > n PROVE FALSE
  <2>1. m * (n + 1) <= m * q
    BY <1>2, <1>4, ProductGrows
  <2>2. QED
    BY <1>2, <2>1
<1>5. QED
  BY <1>2, <1>3, <1>4 DEF q

LEMMA PagesSuffice ==
    ASSUME NEW w \in Nat \ {0}, NEW m \in Nat \ {0}
    PROVE  LET q == (w + m - 1) \div m
           IN q \in Nat \ {0} /\ q * m >= w
<1> DEFINE x == w + m - 1
           q == x \div m
<1>1. x \in Nat
  OBVIOUS
<1>2. q \in Nat /\ x < m * q + m
  <2> HIDE DEF x
  <2>1. QED
    BY <1>1
<1>3. q * m >= w
  BY <1>2
<1>4. q # 0
  BY <1>3
<1>5. QED
  BY <1>2, <1>3, <1>4

LEMMA Sizes ==
    /\ PageSize \in Nat \ {0} /\ HeaderSize \in Nat \ {0} /\ SplitSlack \in Nat \ {0}
    /\ InitialPages \in Nat \ {0} /\ PageSize * InitialPages > HeaderSize
    /\ NFrames \in Nat /\ NFrames >= InitialPages
<1>1. PageSize # 0
  BY HeapAssumption
<1>2. QED
  BY <1>1, HeapAssumption

----------------------------------------------------------------------------
(* The pass of kfree                                                       *)

\* The list after each number of blocks that kfree has looked at.
Passed(list, n, done) == done = [k \in 0..n |-> IF k = 0 THEN <<>> ELSE Absorb(done[k - 1], list[k])]

LEMMA PassExists ==
    ASSUME NEW list, NEW n \in Nat
    PROVE  \E done : Passed(list, n, done)
<1> DEFINE Bad == {k \in Nat : ~ \E done : Passed(list, k, done)}
<1>1. SUFFICES ASSUME Bad # {} PROVE FALSE
  OBVIOUS
<1>2. PICK m \in Bad : \A k \in Bad : m <= k
  <2>1. Bad \in SUBSET Nat
    OBVIOUS
  <2> HIDE DEF Bad
  <2>2. QED
    BY <1>1, <2>1, MinIsLeast
<1>3. m # 0
  <2>1. ASSUME m = 0 PROVE FALSE
    <3> DEFINE v == [k \in 0..0 |-> <<>>]
    <3>1. v = [k \in 0..0 |-> IF k = 0 THEN <<>> ELSE Absorb(v[k - 1], list[k])]
      OBVIOUS
    <3> HIDE DEF v
    <3>2. QED
      BY <2>1, <3>1 DEF Passed
  <2>2. QED
    BY <2>1
<1>4. m - 1 \in Nat /\ m \in Nat \ {0} /\ \E done : Passed(list, m - 1, done)
  <2>1. m - 1 \in Nat /\ m \in Nat \ {0} /\ ~(m <= m - 1)
    BY <1>3
  <2>2. m - 1 \notin Bad
    <3> HIDE DEF Bad
    <3>1. QED
      BY <1>2, <2>1
  <2>3. QED
    BY <2>1, <2>2
<1>5. PICK w : w = [k \in 0..(m - 1) |-> IF k = 0 THEN <<>> ELSE Absorb(w[k - 1], list[k])]
  BY <1>4 DEF Passed
<1> DEFINE v == [k \in 0..m |-> IF k = m THEN Absorb(w[m - 1], list[m]) ELSE w[k]]
<1>6. ASSUME NEW k \in 0..m
      PROVE  v[k] = IF k = 0 THEN <<>> ELSE Absorb(v[k - 1], list[k])
  <2>1. CASE k = 0
    <3>1. w[0] = <<>>
      BY <1>5, <1>4
    <3>2. QED
      BY <1>4, <2>1, <3>1
  <2>2. CASE k # 0 /\ k # m
    <3>1. k \in 0..(m - 1) /\ k - 1 \in 0..m /\ k - 1 # m
      BY <1>4, <2>2
    <3>2. w[k] = Absorb(w[k - 1], list[k])
      BY <1>5, <2>2, <3>1
    <3>3. QED
      BY <2>2, <3>1, <3>2
  <2>3. CASE k = m
    <3>1. m - 1 \in 0..m /\ m - 1 # m /\ m \in 0..m
      BY <1>4
    <3>2. QED
      BY <1>4, <2>3, <3>1
  <2>4. QED
    BY <2>1, <2>2, <2>3
<1>7. Passed(list, m, v)
  <2>1. v = [k \in 0..m |-> v[k]]
    OBVIOUS
  <2> HIDE DEF v
  <2>2. QED
    BY <1>6, <2>1 DEF Passed
<1>8. QED
  <2> HIDE DEF v
  <2>1. QED
    BY <1>7

\* Coalesce is the end of such a pass.
LEMMA CoalesceIsPass ==
    ASSUME NEW list, Len(list) \in Nat
    PROVE  \E done : /\ Coalesce(list) = done[Len(list)] /\ done[0] = <<>>
                     /\ \A k \in 1..Len(list) : done[k] = Absorb(done[k - 1], list[k])
<1> DEFINE d == CHOOSE done : Passed(list, Len(list), done)
<1>1. Passed(list, Len(list), d)
  BY PassExists, Zenon
<1>2. Coalesce(list) = d[Len(list)]
  BY DEF Coalesce, Passed
<1> HIDE DEF d
<1>3. d[0] = <<>> /\ \A k \in 1..Len(list) : d[k] = Absorb(d[k - 1], list[k])
  BY <1>1 DEF Passed
<1>4. QED
  BY <1>2, <1>3

LEMMA PartOfList ==
    ASSUME NEW S, NEW o \in Seq(S), NEW m \in 1..(Len(o) + 1), NEW n \in 0..Len(o)
    PROVE  /\ SubSeq(o, m, n) \in Seq(S)
           /\ Len(SubSeq(o, m, n)) = IF m <= n THEN n - m + 1 ELSE 0
           /\ \A i \in 1..(n - m + 1) : SubSeq(o, m, n)[i] = o[m + i - 1]
<1>1. m \in Int /\ n \in Int /\ \A i \in m..n : o[i] \in S
  OBVIOUS
<1>2. SubSeq(o, m, n) \in Seq(S)
  BY <1>1, SubSeqProperties
<1>3. Len(SubSeq(o, m, n)) = IF m <= n THEN n - m + 1 ELSE 0
  OBVIOUS
<1>4. \A i \in 1..(n - m + 1) : SubSeq(o, m, n)[i] = o[m + i - 1]
  OBVIOUS
<1>5. QED
  BY <1>2, <1>3, <1>4

LEMMA FrontOfList ==
    ASSUME NEW S, NEW o \in Seq(S), Len(o) \in Nat \ {0}
    PROVE  Front(o) \in Seq(S) /\ Len(Front(o)) = Len(o) - 1 /\ \A i \in 1..(Len(o) - 1) : Front(o)[i] = o[i]
<1>1. 1 \in 1..(Len(o) + 1) /\ Len(o) - 1 \in 0..Len(o)
  OBVIOUS
<1>2. Front(o) \in Seq(S)
  BY <1>1, PartOfList DEF Front
<1>3. Len(Front(o)) = Len(o) - 1
  <2>1. PICK n \in 0..Len(o) : n = Len(o) - 1
    BY <1>1
  <2>2. Len(SubSeq(o, 1, n)) = IF 1 <= n THEN n - 1 + 1 ELSE 0
    BY <1>1, PartOfList
  <2>3. Front(o) = SubSeq(o, 1, n)
    BY <2>1 DEF Front
  <2>4. QED
    BY <2>1, <2>2, <2>3
<1>4. \A i \in 1..(Len(o) - 1) : Front(o)[i] = o[i]
  BY DEF Front
<1>5. QED
  BY <1>2, <1>3, <1>4

LEMMA BlockFields ==
    ASSUME NEW b \in Blocks
    PROVE  b.addr \in Nat /\ b.size \in Nat \ {0} /\ b.free \in {0, 1}
  BY DEF Blocks

LEMMA BlockBuilt ==
    ASSUME NEW x \in Nat, NEW y \in Nat \ {0}, NEW f \in {0, 1}
    PROVE  /\ Block(x, y, f) \in Blocks
           /\ Block(x, y, f).addr = x /\ Block(x, y, f).size = y /\ Block(x, y, f).free = f
           /\ EndOf(Block(x, y, f)) = x + HeaderSize + y
<1>1. Block(x, y, f).addr = x /\ Block(x, y, f).size = y /\ Block(x, y, f).free = f
  BY DEF Block
<1>2. Block(x, y, f) \in Blocks
  BY DEF Block, Blocks
<1>3. EndOf(Block(x, y, f)) = x + HeaderSize + y
  BY <1>1 DEF EndOf
<1>4. QED
  BY <1>1, <1>2, <1>3

LEMMA EndIsNumber ==
    ASSUME NEW b \in Blocks
    PROVE  EndOf(b) \in Nat /\ b.addr < EndOf(b) /\ b.addr \in Nat
  BY BlockFields, Sizes DEF EndOf

\* Without a gap, addresses grow along the list, so they tell blocks apart.
LEMMA AddressesGrow ==
    ASSUME NEW list, Tidy(list)
    PROVE  \A i, j \in 1..Len(list) : i < j => list[i].addr < list[j].addr
<1> DEFINE Bad == {j \in 1..Len(list) : \E i \in 1..Len(list) : i < j /\ ~ (list[i].addr < list[j].addr)}
<1>1. Len(list) \in Nat /\ \A i \in 1..Len(list) : list[i] \in Blocks
  BY DEF Tidy
<1>2. ASSUME Bad # {} PROVE FALSE
  <2>1. PICK m \in Bad : \A k \in Bad : m <= k
    <3>1. Bad \in SUBSET Nat
      OBVIOUS
    <3> HIDE DEF Bad
    <3>2. QED
      BY <1>2, <3>1, MinIsLeast
  <2>2. PICK i \in 1..Len(list) : i < m /\ ~ (list[i].addr < list[m].addr)
    OBVIOUS
  <2>3. m \in 1..Len(list) /\ m - 1 \in 1..(Len(list) - 1) /\ m - 1 \in 1..Len(list) /\ (m - 1) + 1 = m
    BY <1>1, <2>2
  <2>4. list[m - 1].addr < list[m].addr
    <3>1. EndOf(list[m - 1]) = list[m].addr
      BY <2>3 DEF Tidy, Adjacent
    <3>2. QED
      BY <1>1, <2>3, <3>1, EndIsNumber
  <2>5. i = m - 1 \/ i < m - 1
    BY <2>2, <2>3
  <2>6. i < m - 1 => list[i].addr < list[m - 1].addr
    <3>1. m - 1 \notin Bad
      <4> HIDE DEF Bad
      <4>1. QED
        BY <2>1, <2>3
    <3>2. QED
      BY <2>3, <3>1
  <2>7. list[i].addr \in Nat /\ list[m - 1].addr \in Nat /\ list[m].addr \in Nat
    BY <1>1, <2>3, EndIsNumber
  <2>8. QED
    BY <2>2, <2>4, <2>5, <2>6, <2>7
<1>3. QED
  BY <1>2

\* A block put behind the last one.
LEMMA AppendBlock ==
    ASSUME NEW o, Tidy(o), Merged(o), NEW b \in Blocks, EndOf(Last(o)) = b.addr, Last(o).free = 0 \/ b.free = 0
    PROVE  LET r == Append(o, b)
           IN /\ Tidy(r) /\ Merged(r) /\ Last(r) = b /\ Len(r) = Len(o) + 1 /\ r[Len(o) + 1] = b
              /\ \A i \in 1..Len(o) : r[i] = o[i]
<1> DEFINE r == Append(o, b)
<1>1. o \in Seq(Blocks) /\ Len(o) \in Nat \ {0} /\ Last(o) = o[Len(o)] /\ o[1].addr = 0
  BY DEF Tidy, Last
<1>2. /\ r \in Seq(Blocks) /\ r # <<>> /\ Len(r) = Len(o) + 1 /\ r[Len(o) + 1] = b
      /\ \A i \in 1..Len(o) : r[i] = o[i] /\ o[i] \in Blocks
  BY <1>1
<1> HIDE DEF r
<1>3. Adjacent(r) /\ Merged(r)
  <2> SUFFICES ASSUME NEW i \in 1..(Len(r) - 1)
               PROVE  EndOf(r[i]) = r[i + 1].addr /\ (r[i].free = 0 \/ r[i + 1].free = 0)
    BY DEF Adjacent, Merged
  <2>1. CASE i = Len(o)
    BY <1>1, <1>2, <2>1
  <2>2. CASE i # Len(o)
    BY <1>1, <1>2, <2>2 DEF Tidy, Adjacent, Merged
  <2>3. QED
    BY <2>1, <2>2
<1>4. Tidy(r) /\ Last(r) = b
  BY <1>1, <1>2, <1>3 DEF Tidy, Last
<1>5. QED
  BY <1>2, <1>3, <1>4 DEF r

\* The last block, with another size and flag.
LEMMA ReplaceLast ==
    ASSUME NEW o, Tidy(o), Merged(o), NEW b \in Blocks, b.addr = Last(o).addr, b.free = Last(o).free
    PROVE  LET r == Front(o) \o <<b>>
           IN /\ Tidy(r) /\ Merged(r) /\ Last(r) = b /\ Len(r) = Len(o) /\ r[Len(o)] = b
              /\ \A i \in 1..(Len(o) - 1) : r[i] = o[i]
<1> DEFINE f == Front(o)
           r == f \o <<b>>
<1>1. o \in Seq(Blocks) /\ Len(o) \in Nat \ {0} /\ Last(o) = o[Len(o)] /\ o[1].addr = 0
  BY DEF Tidy, Last
<1>2. f \in Seq(Blocks) /\ Len(f) = Len(o) - 1 /\ \A i \in 1..(Len(o) - 1) : f[i] = o[i]
  BY <1>1, FrontOfList
<1> HIDE DEF f
<1>3. /\ r \in Seq(Blocks) /\ Len(r) = Len(o) /\ r # <<>> /\ r[Len(o)] = b
      /\ \A i \in 1..(Len(o) - 1) : r[i] = o[i] /\ o[i] \in Blocks
  BY <1>1, <1>2
<1> HIDE DEF r
<1>4. \A i \in 1..Len(o) : r[i].addr = o[i].addr /\ r[i].free = o[i].free
  BY <1>1, <1>3
<1>5. Adjacent(r) /\ Merged(r)
  <2> SUFFICES ASSUME NEW i \in 1..(Len(r) - 1)
               PROVE  EndOf(r[i]) = r[i + 1].addr /\ (r[i].free = 0 \/ r[i + 1].free = 0)
    BY DEF Adjacent, Merged
  <2>1. r[i] = o[i] /\ r[i + 1].addr = o[i + 1].addr /\ r[i + 1].free = o[i + 1].free
    BY <1>1, <1>3, <1>4
  <2>2. QED
    BY <1>1, <1>3, <2>1 DEF Tidy, Adjacent, Merged
<1>6. Tidy(r) /\ Last(r) = b
  BY <1>1, <1>3, <1>4, <1>5 DEF Tidy, Last
<1>7. QED
  BY <1>3, <1>5, <1>6 DEF f, r

\* The first k blocks of a list, merged.
Coalesced(list, k, d) ==
    /\ Tidy(d) /\ Merged(d) /\ EndOf(Last(d)) = EndOf(list[k])
    /\ \A j \in 1..k : list[j].free = 0 => \E i \in 1..Len(d) : d[i] = list[j]
    /\ \A i \in 1..Len(d) : d[i].free = 0 => \E j \in 1..k : d[i] = list[j]

LEMMA AbsorbOne ==
    ASSUME NEW list, Tidy(list), NEW k \in 1..(Len(list) - 1), NEW d, Coalesced(list, k, d)
    PROVE  Coalesced(list, k + 1, Absorb(d, list[k + 1]))
<1> DEFINE b == list[k + 1]
           r == Absorb(d, b)
           l == Last(d)
<1>1. /\ k + 1 \in 1..Len(list) /\ b \in Blocks /\ EndOf(l) = b.addr /\ k \in Nat
      /\ d # <<>> /\ Len(d) \in Nat \ {0} /\ d[Len(d)] = l /\ l \in Blocks /\ d \in Seq(Blocks)
  BY DEF Coalesced, Tidy, Adjacent, Last
<1>2. CASE l.free = 1 /\ b.free = 1
  <2> DEFINE m == [l EXCEPT !.size = @ + HeaderSize + b.size]
  <2>1. m \in Blocks /\ m.addr = l.addr /\ m.free = 1 /\ EndOf(m) = EndOf(b)
    <3> HIDE DEF l, b
    <3>1. l.free = 1 /\ l = [addr |-> l.addr, size |-> l.size, free |-> l.free]
      BY <1>1, <1>2 DEF Blocks
    <3>2. l.addr \in Nat /\ l.size \in Nat /\ b.addr \in Nat /\ b.size \in Nat \ {0}
      BY <1>1, BlockFields
    <3>3. PICK x \in Nat, y \in Nat, z \in Nat \ {0} : x = l.addr /\ y = l.size /\ z = b.size
      BY <3>2
    <3>4. PICK n \in Nat \ {0} : n = y + HeaderSize + z
      BY Sizes
    <3>5. m = Block(x, n, 1)
      BY <3>1, <3>3, <3>4 DEF Block
    <3> HIDE DEF m
    <3>6. m \in Blocks /\ m.addr = x /\ m.free = 1 /\ EndOf(m) = x + HeaderSize + n
      BY <3>5, BlockBuilt
    <3>7. b.addr = x + HeaderSize + y /\ EndOf(b) = b.addr + HeaderSize + z
      BY <1>1, <3>3 DEF EndOf
    <3>8. x + HeaderSize + n = (x + HeaderSize + y) + HeaderSize + z
      BY <3>4, Sizes
    <3>9. QED
      BY <3>3, <3>6, <3>7, <3>8
  <2>2. r = Front(d) \o <<m>>
    BY <1>1, <1>2 DEF Absorb
  <2> HIDE DEF m, r, b, l
  <2>3. Tidy(d) /\ Merged(d) /\ m.addr = Last(d).addr /\ m.free = Last(d).free
    BY <1>2, <2>1 DEF Coalesced, l
  <2>4. /\ Tidy(r) /\ Merged(r) /\ Last(r) = m /\ Len(r) = Len(d) /\ r[Len(d)] = m
        /\ \A i \in 1..(Len(d) - 1) : r[i] = d[i]
    BY <2>1, <2>2, <2>3, ReplaceLast
  <2>5. ASSUME NEW j \in 1..(k + 1), list[j].free = 0
        PROVE  \E i \in 1..Len(r) : r[i] = list[j]
    <3>1. j \in 1..k
      BY <1>1, <1>2, <2>5 DEF b
    <3>2. PICK i \in 1..Len(d) : d[i] = list[j]
      BY <2>5, <3>1 DEF Coalesced
    <3>3. i # Len(d)
      BY <1>1, <1>2, <2>5, <3>2
    <3>4. QED
      BY <1>1, <2>4, <3>2, <3>3
  <2>6. ASSUME NEW i \in 1..Len(r), r[i].free = 0
        PROVE  \E j \in 1..(k + 1) : r[i] = list[j]
    <3>1. i \in 1..(Len(d) - 1)
      BY <1>1, <2>1, <2>4, <2>6
    <3>2. PICK j \in 1..k : d[i] = list[j]
      BY <1>1, <2>4, <2>6, <3>1 DEF Coalesced
    <3>3. QED
      BY <1>1, <2>4, <3>1, <3>2
  <2>7. QED
    BY <2>1, <2>4, <2>5, <2>6 DEF Coalesced, r, b
<1>3. CASE ~ (l.free = 1 /\ b.free = 1)
  <2>1. r = Append(d, b)
    BY <1>1, <1>3 DEF Absorb
  <2>2. l.free = 0 \/ b.free = 0
    BY <1>1, <1>3 DEF Blocks
  <2> HIDE DEF r, b
  <2>3. /\ Tidy(r) /\ Merged(r) /\ Last(r) = b /\ Len(r) = Len(d) + 1 /\ r[Len(d) + 1] = b
        /\ \A i \in 1..Len(d) : r[i] = d[i]
    BY <1>1, <2>1, <2>2, AppendBlock DEF Coalesced
  <2>4. ASSUME NEW j \in 1..(k + 1), list[j].free = 0
        PROVE  \E i \in 1..Len(r) : r[i] = list[j]
    <3>1. CASE j = k + 1
      <4>1. Len(d) + 1 \in 1..Len(r)
        BY <1>1, <2>3
      <4>2. QED
        BY <2>3, <3>1, <4>1 DEF b
    <3>2. CASE j # k + 1
      <4>1. PICK i \in 1..Len(d) : d[i] = list[j]
        BY <1>1, <2>4, <3>2 DEF Coalesced
      <4>2. i \in 1..Len(r) /\ r[i] = list[j]
        BY <1>1, <2>3, <4>1
      <4>3. QED
        BY <4>2
    <3>3. QED
      BY <3>1, <3>2
  <2>5. ASSUME NEW i \in 1..Len(r), r[i].free = 0
        PROVE  \E j \in 1..(k + 1) : r[i] = list[j]
    <3>1. CASE i = Len(d) + 1
      BY <1>1, <2>3, <3>1 DEF b
    <3>2. CASE i # Len(d) + 1
      <4>1. i \in 1..Len(d) /\ r[i] = d[i]
        BY <1>1, <2>3, <3>2
      <4>2. PICK j \in 1..k : d[i] = list[j]
        BY <2>5, <4>1 DEF Coalesced
      <4>3. QED
        BY <1>1, <4>1, <4>2
    <3>3. QED
      BY <3>1, <3>2
  <2>6. QED
    BY <2>3, <2>4, <2>5 DEF Coalesced, r, b
<1>4. QED
  BY <1>2, <1>3

LEMMA AbsorbFirst ==
    ASSUME NEW list, Tidy(list)
    PROVE  Coalesced(list, 1, Absorb(<<>>, list[1]))
<1>1. list[1] \in Blocks /\ list[1].addr = 0
  BY DEF Tidy
<1>2. PICK b \in Blocks : b = list[1]
  BY <1>1
<1>3. Absorb(<<>>, list[1]) = <<b>>
  BY <1>2 DEF Absorb
<1>4. <<b>> \in Seq(Blocks) /\ Len(<<b>>) = 1 /\ <<b>>[1] = b /\ <<b>> # <<>>
  OBVIOUS
<1>5. Tidy(<<b>>) /\ Merged(<<b>>) /\ Last(<<b>>) = b
  BY <1>1, <1>2, <1>4 DEF Tidy, Merged, Adjacent, Last
<1>6. QED
  BY <1>2, <1>3, <1>4, <1>5 DEF Coalesced

\* One pass merges whatever is adjacent and free, and leaves every block in use
\* as it was.
LEMMA CoalesceMerges ==
    ASSUME NEW list, Tidy(list)
    PROVE  Coalesced(list, Len(list), Coalesce(list))
<1>1. Len(list) \in Nat \ {0}
  BY DEF Tidy
<1>2. PICK done : /\ Coalesce(list) = done[Len(list)] /\ done[0] = <<>>
                  /\ \A k \in 1..Len(list) : done[k] = Absorb(done[k - 1], list[k])
  BY <1>1, CoalesceIsPass
<1> DEFINE Bad == {k \in 1..Len(list) : ~Coalesced(list, k, done[k])}
<1>3. ASSUME Bad # {} PROVE FALSE
  <2>1. PICK m \in Bad : \A k \in Bad : m <= k
    <3>1. Bad \in SUBSET Nat
      OBVIOUS
    <3> HIDE DEF Bad
    <3>2. QED
      BY <1>3, <3>1, MinIsLeast
  <2>2. m \in 1..Len(list) /\ ~Coalesced(list, m, done[m])
    OBVIOUS
  <2>3. CASE m = 1
    <3>1. done[1] = Absorb(done[1 - 1], list[1]) /\ 1 - 1 = 0
      BY <1>1, <1>2
    <3>2. QED
      BY <1>2, <2>2, <2>3, <3>1, AbsorbFirst
  <2>4. CASE m # 1
    <3>1. m - 1 \in 1..(Len(list) - 1) /\ m - 1 \in 1..Len(list) /\ ~(m <= m - 1) /\ (m - 1) + 1 = m
      BY <1>1, <2>2, <2>4
    <3>2. Coalesced(list, m - 1, done[m - 1])
      <4>1. m - 1 \notin Bad
        <5> HIDE DEF Bad
        <5>1. QED
          BY <2>1, <3>1
      <4>2. QED
        BY <3>1, <4>1
    <3>3. Coalesced(list, m, Absorb(done[m - 1], list[m]))
      BY <3>1, <3>2, AbsorbOne
    <3>4. QED
      BY <1>2, <2>2, <3>3
  <2>5. QED
    BY <2>3, <2>4
<1>4. Len(list) \in 1..Len(list)
  BY <1>1
<1>5. QED
  BY <1>2, <1>3, <1>4

----------------------------------------------------------------------------
(* Carving a block                                                         *)

\* A list with the element at one place replaced by one or two others.
Placed(o, i, c) == SubSeq(o, 1, i - 1) \o c \o SubSeq(o, i + 1, Len(o))

LEMMA PlaceReplaced ==
    ASSUME NEW S, NEW o \in Seq(S), NEW i \in 1..Len(o), NEW c \in Seq(S)
    PROVE  /\ Placed(o, i, c) \in Seq(S) /\ Len(Placed(o, i, c)) = Len(o) - 1 + Len(c)
           /\ \A j \in 1..Len(Placed(o, i, c)) :
                 Placed(o, i, c)[j] = IF j < i THEN o[j]
                                      ELSE IF j < i + Len(c) THEN c[j - i + 1] ELSE o[j - Len(c) + 1]
<1> DEFINE a == SubSeq(o, 1, i - 1)
           e == SubSeq(o, i + 1, Len(o))
           ac == a \o c
           r == ac \o e
<1>1. i \in Nat /\ Len(o) \in Nat /\ i - 1 \in 0..Len(o) /\ i + 1 \in 1..(Len(o) + 1) /\ 1 \in 1..(Len(o) + 1)
      /\ Len(o) \in 0..Len(o) /\ Len(c) \in Nat
  OBVIOUS
<1>2. a \in Seq(S) /\ Len(a) = i - 1 /\ \A j \in 1..(i - 1) : a[j] = o[j]
  <2>1. PICK n \in 0..Len(o) : n = i - 1
    BY <1>1
  <2>2. /\ SubSeq(o, 1, n) \in Seq(S)
        /\ Len(SubSeq(o, 1, n)) = IF 1 <= n THEN n - 1 + 1 ELSE 0
        /\ \A j \in 1..(n - 1 + 1) : SubSeq(o, 1, n)[j] = o[1 + j - 1]
    BY <1>1, PartOfList
  <2>3. a = SubSeq(o, 1, n)
    BY <2>1
  <2> HIDE DEF a
  <2>4. \A j \in 1..n : a[j] = o[j]
    BY <2>2, <2>3
  <2>5. QED
    BY <2>1, <2>2, <2>3, <2>4
<1>3. e \in Seq(S) /\ Len(e) = Len(o) - i /\ \A j \in 1..(Len(o) - i) : e[j] = o[i + j]
  <2>1. PICK m \in 1..(Len(o) + 1) : m = i + 1
    BY <1>1
  <2>2. PICK n \in 0..Len(o) : n = Len(o)
    BY <1>1
  <2>3. /\ SubSeq(o, m, n) \in Seq(S)
        /\ Len(SubSeq(o, m, n)) = IF m <= n THEN n - m + 1 ELSE 0
        /\ \A j \in 1..(n - m + 1) : SubSeq(o, m, n)[j] = o[m + j - 1]
    BY PartOfList
  <2>4. e = SubSeq(o, m, n)
    BY <2>1, <2>2
  <2> HIDE DEF e
  <2>5. \A j \in 1..(Len(o) - i) : e[j] = o[i + j]
    <3> SUFFICES ASSUME NEW j \in 1..(Len(o) - i) PROVE e[j] = o[i + j]
      OBVIOUS
    <3>1. j \in 1..(n - m + 1) /\ m + j - 1 = i + j
      BY <1>1, <2>1, <2>2
    <3>2. e[j] = o[m + j - 1]
      BY <2>3, <2>4, <3>1
    <3>3. QED
      BY <3>1, <3>2
  <2>6. Len(e) = Len(o) - i
    <3>1. Len(e) = IF m <= n THEN n - m + 1 ELSE 0
      BY <2>3, <2>4
    <3>2. i <= Len(o) /\ m = i + 1 /\ n = Len(o)
      BY <2>1, <2>2
    <3> HIDE DEF e
    <3>3. QED
      BY <1>1, <3>1, <3>2
  <2>7. QED
    BY <2>3, <2>4, <2>5, <2>6
<1> HIDE DEF a, e
<1>4. /\ ac \in Seq(S) /\ Len(ac) = i - 1 + Len(c)
      /\ \A j \in 1..(i - 1 + Len(c)) : ac[j] = IF j < i THEN o[j] ELSE c[j - i + 1]
  <2>1. /\ ac \in Seq(S) /\ Len(ac) = Len(a) + Len(c)
        /\ \A j \in 1..(Len(a) + Len(c)) : ac[j] = IF j <= Len(a) THEN a[j] ELSE c[j - Len(a)]
    BY <1>2, ConcatProperties
  <2> HIDE DEF ac
  <2>2. ASSUME NEW j \in 1..(i - 1 + Len(c)) PROVE ac[j] = IF j < i THEN o[j] ELSE c[j - i + 1]
    <3>1. j \in 1..(Len(a) + Len(c)) /\ j - Len(a) = j - i + 1
      BY <1>1, <1>2
    <3>2. CASE j < i
      <4>1. j <= Len(a) /\ j \in 1..(i - 1)
        BY <1>1, <1>2, <3>2
      <4>2. ac[j] = a[j]
        BY <2>1, <3>1, <4>1
      <4>3. QED
        BY <1>2, <3>2, <4>1, <4>2
    <3>3. CASE ~ (j < i)
      <4>1. ~ (j <= Len(a))
        BY <1>1, <1>2, <3>3
      <4>2. ac[j] = c[j - Len(a)]
        BY <2>1, <3>1, <4>1
      <4>3. QED
        BY <3>1, <3>3, <4>2
    <3>4. QED
      BY <3>2, <3>3
  <2>3. QED
    BY <1>1, <1>2, <2>1, <2>2
<1> HIDE DEF ac
<1>5. /\ r \in Seq(S) /\ Len(r) = Len(ac) + Len(e)
      /\ \A j \in 1..(Len(ac) + Len(e)) : r[j] = IF j <= Len(ac) THEN ac[j] ELSE e[j - Len(ac)]
  <2>1. ac \in Seq(S) /\ e \in Seq(S)
    BY <1>3, <1>4
  <2>2. QED
    BY <2>1, ConcatProperties
<1> HIDE DEF r
<1>6. Len(r) = Len(o) - 1 + Len(c)
  BY <1>1, <1>3, <1>4, <1>5
<1>7. ASSUME NEW j \in 1..Len(r)
      PROVE  r[j] = IF j < i THEN o[j] ELSE IF j < i + Len(c) THEN c[j - i + 1] ELSE o[j - Len(c) + 1]
  <2>1. j \in 1..(Len(ac) + Len(e))
    BY <1>5
  <2>2. CASE j < i + Len(c)
    <3>1. j <= Len(ac) /\ j \in 1..(i - 1 + Len(c))
      BY <1>1, <1>4, <1>6, <2>2
    <3>2. r[j] = ac[j]
      BY <1>5, <2>1, <3>1
    <3>3. QED
      BY <1>1, <1>4, <2>2, <3>1, <3>2
  <2>3. CASE ~ (j < i + Len(c))
    <3>1. ~ (j <= Len(ac)) /\ j - Len(ac) \in 1..(Len(o) - i) /\ i + (j - Len(ac)) = j - Len(c) + 1 /\ ~ (j < i)
      BY <1>1, <1>4, <1>6, <2>3
    <3>2. r[j] = e[j - Len(ac)]
      BY <1>5, <2>1, <3>1
    <3>3. e[j - Len(ac)] = o[i + (j - Len(ac))]
      BY <1>3, <3>1
    <3>4. QED
      BY <2>3, <3>1, <3>2, <3>3
  <2>4. QED
    BY <2>2, <2>3
<1>8. r = Placed(o, i, c)
  BY DEF r, ac, a, e, Placed
<1>9. QED
  BY <1>5, <1>6, <1>7, <1>8

\* What kmalloc makes of the list when the block at i serves a request: that block
\* is in use, large enough, and the others are as they were.
Carved(list, i, words, r) ==
    /\ Tidy(r) /\ Merged(r) /\ EndOf(Last(r)) = EndOf(Last(list))
    /\ \E k \in 1..Len(r) : r[k].addr = list[i].addr /\ r[k].free = 0 /\ r[k].size >= words
    /\ \A j \in 1..Len(list) : j # i => \E k \in 1..Len(r) : r[k] = list[j]
    /\ \A k \in 1..Len(r) : r[k].free = 0 =>
          r[k].addr = list[i].addr \/ \E j \in 1..Len(list) : j # i /\ list[j] = r[k]

LEMMA CarveWhole ==
    ASSUME NEW list, Tidy(list), Merged(list), NEW i \in 1..Len(list), NEW words \in Nat \ {0},
           list[i].free = 1, list[i].size >= words, ~ Splits(list[i], words)
    PROVE  Carved(list, i, words, SubSeq(list, 1, i - 1) \o Carve(list[i], words) \o SubSeq(list, i + 1, Len(list)))
<1> DEFINE b == [addr |-> list[i].addr, size |-> list[i].size, free |-> 0]
           c == <<b>>
           r == SubSeq(list, 1, i - 1) \o Carve(list[i], words) \o SubSeq(list, i + 1, Len(list))
<1>1. list \in Seq(Blocks) /\ Len(list) \in Nat \ {0} /\ list[i] \in Blocks /\ Last(list) = list[Len(list)]
  BY DEF Tidy, Last
<1>2. Carve(list[i], words) = c
  BY DEF Carve, Block
<1>3. /\ b \in Blocks /\ b.addr = list[i].addr /\ b.size = list[i].size /\ b.free = 0 /\ EndOf(b) = EndOf(list[i])
      /\ c \in Seq(Blocks) /\ Len(c) = 1 /\ c[1] = b
  <2>1. b \in Blocks /\ b.addr = list[i].addr /\ b.size = list[i].size /\ b.free = 0
    BY <1>1, BlockFields DEF Blocks
  <2> HIDE DEF b
  <2>2. QED
    BY <2>1 DEF EndOf
<1> HIDE DEF b, c
<1>4. /\ r \in Seq(Blocks) /\ Len(r) = Len(list) - 1 + Len(c)
      /\ \A j \in 1..Len(r) :
            r[j] = IF j < i THEN list[j] ELSE IF j < i + Len(c) THEN c[j - i + 1] ELSE list[j - Len(c) + 1]
  <2>1. c \in Seq(Blocks) /\ list \in Seq(Blocks) /\ i \in 1..Len(list)
    BY <1>1, <1>3
  <2> DEFINE s == Placed(list, i, c)
  <2>2. /\ s \in Seq(Blocks) /\ Len(s) = Len(list) - 1 + Len(c)
        /\ \A j \in 1..Len(s) :
              s[j] = IF j < i THEN list[j] ELSE IF j < i + Len(c) THEN c[j - i + 1] ELSE list[j - Len(c) + 1]
    BY <2>1, PlaceReplaced
  <2>3. r = s
    BY <1>2 DEF Placed
  <2> HIDE DEF r, s
  <2>4. QED
    BY <2>2, <2>3
<1> HIDE DEF r
<1>5. Len(r) = Len(list) /\ \A j \in 1..Len(list) : r[j] = IF j = i THEN b ELSE list[j]
  <2>1. Len(r) = Len(list)
    BY <1>1, <1>3, <1>4
  <2>2. ASSUME NEW j \in 1..Len(list) PROVE r[j] = IF j = i THEN b ELSE list[j]
    <3>1. CASE j < i
      BY <1>4, <2>1, <3>1
    <3>2. CASE j = i
      <4>1. r[j] = c[j - i + 1] /\ j - i + 1 = 1
        BY <1>3, <1>4, <2>1, <3>2
      <4>2. QED
        BY <1>3, <3>2, <4>1
    <3>3. CASE j > i
      <4>1. r[j] = list[j - Len(c) + 1] /\ j - Len(c) + 1 = j
        BY <1>3, <1>4, <2>1, <3>3
      <4>2. QED
        BY <3>3, <4>1
    <3>4. QED
      BY <3>1, <3>2, <3>3
  <2>3. QED
    BY <2>1, <2>2
<1>6. \A j \in 1..Len(list) : r[j].addr = list[j].addr /\ EndOf(r[j]) = EndOf(list[j]) /\ (r[j].free = 0 \/ r[j].free = list[j].free)
  BY <1>3, <1>5
<1>7. Adjacent(r) /\ Merged(r)
  <2> SUFFICES ASSUME NEW j \in 1..(Len(list) - 1)
               PROVE  EndOf(r[j]) = r[j + 1].addr /\ (r[j].free = 0 \/ r[j + 1].free = 0)
    BY <1>5 DEF Adjacent, Merged
  <2>1. j \in 1..Len(list) /\ j + 1 \in 1..Len(list)
    BY <1>1
  <2>2. EndOf(list[j]) = list[j + 1].addr /\ (list[j].free = 0 \/ list[j + 1].free = 0)
    BY DEF Tidy, Adjacent, Merged
  <2>3. QED
    BY <1>6, <2>1, <2>2
<1>8. Tidy(r) /\ EndOf(Last(r)) = EndOf(Last(list))
  <2>1. 1 \in 1..Len(list) /\ Len(list) \in 1..Len(list) /\ Last(r) = r[Len(list)] /\ r # <<>>
    BY <1>1, <1>4, <1>5 DEF Last
  <2>2. QED
    BY <1>1, <1>4, <1>6, <1>7, <2>1 DEF Tidy
<1>9. Carved(list, i, words, r)
  <2>1. i \in 1..Len(r) /\ r[i].addr = list[i].addr /\ r[i].free = 0 /\ r[i].size >= words
    BY <1>3, <1>5
  <2>2. \A j \in 1..Len(list) : j # i => r[j] = list[j]
    BY <1>5
  <2>3. QED
    BY <1>5, <1>7, <1>8, <2>1, <2>2 DEF Carved
<1>10. QED
  BY <1>9 DEF r

LEMMA CarveSplit ==
    ASSUME NEW list, Tidy(list), Merged(list), NEW i \in 1..Len(list), NEW words \in Nat \ {0},
           list[i].free = 1, Splits(list[i], words)
    PROVE  Carved(list, i, words, SubSeq(list, 1, i - 1) \o Carve(list[i], words) \o SubSeq(list, i + 1, Len(list)))
<1> DEFINE b == [addr |-> list[i].addr, size |-> words, free |-> 0]
           d == [addr |-> list[i].addr + HeaderSize + words, size |-> list[i].size - words - HeaderSize, free |-> 1]
           c == <<b, d>>
           r == SubSeq(list, 1, i - 1) \o Carve(list[i], words) \o SubSeq(list, i + 1, Len(list))
<1>1. list \in Seq(Blocks) /\ Len(list) \in Nat \ {0} /\ list[i] \in Blocks /\ Last(list) = list[Len(list)]
  BY DEF Tidy, Last
<1>2. Carve(list[i], words) = c
  BY DEF Carve, Block
<1>3. /\ list[i].addr \in Nat /\ list[i].size \in Nat \ {0} /\ list[i].size >= words + HeaderSize + SplitSlack
      /\ HeaderSize \in Nat \ {0} /\ SplitSlack \in Nat \ {0}
  BY <1>1, BlockFields, Sizes DEF Splits
<1>4. PICK x \in Nat, y \in Nat, p \in Nat, q \in Nat \ {0} :
          /\ x = list[i].addr /\ y = list[i].size
          /\ p = x + HeaderSize + words /\ q = y - words - HeaderSize
          /\ p + HeaderSize + q = x + HeaderSize + y
  <2>1. PICK x \in Nat, y \in Nat : x = list[i].addr /\ y = list[i].size
    BY <1>3
  <2>2. x + HeaderSize + words \in Nat
    BY <1>3
  <2>3. y - words - HeaderSize \in Nat \ {0}
    BY <1>3, <2>1
  <2>4. (x + HeaderSize + words) + HeaderSize + (y - words - HeaderSize) = x + HeaderSize + y
    BY <1>3
  <2>5. QED
    BY <2>1, <2>2, <2>3, <2>4
<1>5. /\ b \in Blocks /\ b.addr = list[i].addr /\ b.size = words /\ b.free = 0 /\ EndOf(b) = d.addr
      /\ d \in Blocks /\ EndOf(d) = EndOf(list[i]) /\ d.free = 1
  <2>1. b = Block(x, words, 0) /\ d = Block(p, q, 1)
    BY <1>4 DEF Block
  <2> HIDE DEF b, d
  <2>2. b \in Blocks /\ b.addr = x /\ b.size = words /\ b.free = 0 /\ EndOf(b) = x + HeaderSize + words
    BY <2>1, BlockBuilt
  <2>3. d \in Blocks /\ d.addr = p /\ d.free = 1 /\ EndOf(d) = p + HeaderSize + q
    BY <2>1, BlockBuilt
  <2>4. EndOf(list[i]) = x + HeaderSize + y
    BY <1>4 DEF EndOf
  <2>5. QED
    BY <1>4, <2>2, <2>3, <2>4
<1> HIDE DEF b, d
<1>6. c \in Seq(Blocks) /\ Len(c) = 2 /\ c[1] = b /\ c[2] = d
  BY <1>5
<1> HIDE DEF c
<1>7. /\ r \in Seq(Blocks) /\ Len(r) = Len(list) - 1 + Len(c)
      /\ \A j \in 1..Len(r) :
            r[j] = IF j < i THEN list[j] ELSE IF j < i + Len(c) THEN c[j - i + 1] ELSE list[j - Len(c) + 1]
  <2>1. c \in Seq(Blocks) /\ list \in Seq(Blocks) /\ i \in 1..Len(list)
    BY <1>1, <1>6
  <2> DEFINE s == Placed(list, i, c)
  <2>2. /\ s \in Seq(Blocks) /\ Len(s) = Len(list) - 1 + Len(c)
        /\ \A j \in 1..Len(s) :
              s[j] = IF j < i THEN list[j] ELSE IF j < i + Len(c) THEN c[j - i + 1] ELSE list[j - Len(c) + 1]
    <3>1. PICK e \in Seq(Blocks) : e = c
      BY <2>1
    <3>2. /\ Placed(list, i, e) \in Seq(Blocks) /\ Len(Placed(list, i, e)) = Len(list) - 1 + Len(e)
          /\ \A j \in 1..Len(Placed(list, i, e)) :
                Placed(list, i, e)[j] = IF j < i THEN list[j]
                                        ELSE IF j < i + Len(e) THEN e[j - i + 1] ELSE list[j - Len(e) + 1]
      BY <2>1, PlaceReplaced
    <3>3. QED
      BY <3>1, <3>2
  <2>3. r = s
    BY <1>2 DEF Placed
  <2> HIDE DEF r, s
  <2>4. QED
    BY <2>2, <2>3
<1> HIDE DEF r
<1>8. /\ Len(r) = Len(list) + 1 /\ r[i] = b /\ r[i + 1] = d /\ i \in 1..Len(r) /\ i + 1 \in 1..Len(r)
      /\ \A j \in 1..Len(r) : /\ j < i => r[j] = list[j]
                              /\ j > i + 1 => r[j] = list[j - 1]
  <2>1. Len(r) = Len(list) + 1 /\ i \in 1..Len(r) /\ i + 1 \in 1..Len(r)
    BY <1>1, <1>6, <1>7
  <2>2. r[i] = c[i - i + 1] /\ i - i + 1 = 1 /\ r[i + 1] = c[(i + 1) - i + 1] /\ (i + 1) - i + 1 = 2
    BY <1>6, <1>7, <2>1
  <2>3. ASSUME NEW j \in 1..Len(r), j > i + 1 PROVE r[j] = list[j - 1]
    <3>1. r[j] = list[j - Len(c) + 1] /\ j - Len(c) + 1 = j - 1
      BY <1>6, <1>7, <2>3
    <3>2. QED
      BY <3>1
  <2>4. QED
    BY <1>6, <1>7, <2>1, <2>2, <2>3
<1>9. Adjacent(r) /\ Merged(r)
  <2> SUFFICES ASSUME NEW j \in 1..(Len(r) - 1)
               PROVE  EndOf(r[j]) = r[j + 1].addr /\ (r[j].free = 0 \/ r[j + 1].free = 0)
    BY DEF Adjacent, Merged
  <2>0. j \in 1..Len(r) /\ j + 1 \in 1..Len(r)
    BY <1>1, <1>8
  <2>1. \A k \in 1..(Len(list) - 1) : EndOf(list[k]) = list[k + 1].addr /\ (list[k].free = 0 \/ list[k + 1].free = 0)
    BY DEF Tidy, Adjacent, Merged
  <2>2. CASE j + 1 < i
    <3>1. j \in 1..(Len(list) - 1) /\ r[j] = list[j] /\ r[j + 1] = list[j + 1]
      BY <1>1, <1>8, <2>0, <2>2
    <3>2. QED
      BY <2>1, <3>1
  <2>3. CASE j + 1 = i
    <3>1. j \in 1..(Len(list) - 1) /\ r[j] = list[j] /\ r[j + 1] = b /\ list[j + 1] = list[i]
      BY <1>1, <1>8, <2>0, <2>3
    <3>2. QED
      BY <1>5, <2>1, <3>1
  <2>4. CASE j = i
    BY <1>5, <1>8, <2>4
  <2>5. CASE j = i + 1
    <3>1. i \in 1..(Len(list) - 1) /\ r[j] = d /\ r[j + 1] = list[i + 1] /\ (j + 1) - 1 = i + 1
      BY <1>1, <1>8, <2>0, <2>5
    <3>2. list[i + 1].free = 0
      BY <2>1, <3>1
    <3>3. QED
      BY <1>5, <2>1, <3>1, <3>2
  <2>6. CASE j > i + 1
    <3>1. j - 1 \in 1..(Len(list) - 1) /\ r[j] = list[j - 1] /\ r[j + 1] = list[(j + 1) - 1] /\ (j + 1) - 1 = (j - 1) + 1
      BY <1>1, <1>8, <2>0, <2>6
    <3>2. EndOf(list[j - 1]) = list[(j - 1) + 1].addr /\ (list[j - 1].free = 0 \/ list[(j - 1) + 1].free = 0)
      BY <2>1, <3>1
    <3>3. QED
      BY <3>1, <3>2
  <2>7. QED
    BY <2>0, <2>2, <2>3, <2>4, <2>5, <2>6
<1>10. Tidy(r) /\ EndOf(Last(r)) = EndOf(Last(list))
  <2>1. 1 \in 1..Len(r) /\ Last(r) = r[Len(r)] /\ r # <<>> /\ Len(r) \in 1..Len(r)
    BY <1>1, <1>7, <1>8 DEF Last
  <2>2. r[1].addr = 0
    <3>1. r[1].addr = list[1].addr
      BY <1>5, <1>8, <2>1
    <3>2. QED
      BY <3>1 DEF Tidy
  <2>3. EndOf(r[Len(r)]) = EndOf(list[Len(list)])
    <3>1. CASE i = Len(list)
      BY <1>5, <1>8, <3>1
    <3>2. CASE i # Len(list)
      <4>1. Len(r) > i + 1 /\ Len(r) - 1 = Len(list)
        BY <1>1, <1>8, <3>2
      <4>2. QED
        BY <1>8, <2>1, <4>1
    <3>3. QED
      BY <3>1, <3>2
  <2>4. QED
    BY <1>1, <1>7, <1>9, <2>1, <2>2, <2>3 DEF Tidy
<1>11. ASSUME NEW j \in 1..Len(list), j # i
       PROVE  \E k \in 1..Len(r) : r[k] = list[j]
  <2>1. CASE j < i
    BY <1>1, <1>8, <2>1
  <2>2. CASE j > i
    <3>1. j + 1 \in 1..Len(r) /\ j + 1 > i + 1 /\ (j + 1) - 1 = j
      BY <1>1, <1>8, <2>2
    <3>2. r[j + 1] = list[j]
      BY <1>8, <3>1
    <3>3. QED
      BY <3>1, <3>2
  <2>3. QED
    BY <1>11, <2>1, <2>2
<1>12. ASSUME NEW k \in 1..Len(r), r[k].free = 0
       PROVE  r[k].addr = list[i].addr \/ \E j \in 1..Len(list) : j # i /\ list[j] = r[k]
  <2>1. CASE k < i
    <3>1. k \in 1..Len(list) /\ k # i /\ list[k] = r[k]
      BY <1>1, <1>8, <2>1
    <3>2. QED
      BY <3>1
  <2>2. CASE k = i \/ k = i + 1
    BY <1>5, <1>8, <1>12, <2>2
  <2>3. CASE k > i + 1
    <3>1. k - 1 \in 1..Len(list) /\ k - 1 # i /\ list[k - 1] = r[k]
      BY <1>1, <1>8, <2>3
    <3>2. QED
      BY <3>1
  <2>4. QED
    BY <1>8, <2>1, <2>2, <2>3
<1>13. Carved(list, i, words, r)
  <2>1. r[i].addr = list[i].addr /\ r[i].free = 0 /\ r[i].size >= words
    BY <1>5, <1>8
  <2>2. QED
    BY <1>8, <1>9, <1>10, <1>11, <1>12, <2>1 DEF Carved
<1>14. QED
  BY <1>13 DEF r

LEMMA Carves ==
    ASSUME NEW list, Tidy(list), Merged(list), NEW i \in 1..Len(list), NEW words \in Nat \ {0},
           list[i].free = 1, list[i].size >= words
    PROVE  Carved(list, i, words, SubSeq(list, 1, i - 1) \o Carve(list[i], words) \o SubSeq(list, i + 1, Len(list)))
<1>1. CASE Splits(list[i], words)
  BY <1>1, CarveSplit
<1>2. CASE ~ Splits(list[i], words)
  BY <1>2, CarveWhole
<1>3. QED
  BY <1>1, <1>2

----------------------------------------------------------------------------
(* The calls                                                               *)

\* A pointer belongs to one block.
LEMMA PointersDiffer ==
    ASSUME NEW list, Tidy(list), NEW i \in 1..Len(list), NEW j \in 1..Len(list),
           Pointer(list[i]) = Pointer(list[j])
    PROVE  i = j
<1>1. list[i] \in Blocks /\ list[j] \in Blocks /\ Len(list) \in Nat
  BY DEF Tidy
<1>2. list[i].addr = list[j].addr /\ list[i].addr \in Nat /\ list[j].addr \in Nat
  BY <1>1, BlockFields, Sizes DEF Pointer
<1>3. ~ (i < j) /\ ~ (j < i)
  BY <1>2, AddressesGrow
<1>4. QED
  BY <1>1, <1>3

\* Blocks in use whose pointer callers still hold after a step are still there.
InUseStays ==
    \A i \in 1..Len(blocks) :
        (blocks[i].free = 0 /\ \E a \in live' : a.ptr = Pointer(blocks[i]))
        => \E j \in 1..Len(blocks') : blocks'[j] = blocks[i]

LEMMA WordsArePositive ==
    ASSUME NEW bytes \in Requests
    PROVE  Words(bytes) \in Nat \ {0}
<1>1. bytes \in Nat \ {0}
  BY HeapAssumption
<1>2. QED
  BY <1>1 DEF Words

LEMMA FitStep ==
    ASSUME HeapInv, overrun = 0, NEW words \in Nat \ {0}, kmallocFit(words)
    PROVE  HeapInv' /\ InUseStays
<1>1. Tidy(blocks) /\ Merged(blocks) /\ Held /\ HeapTypes /\ EndOf(Last(blocks)) = heap_end
  BY DEF HeapInv
<1>2. blocks \in Seq(Blocks) /\ Len(blocks) \in Nat
  BY <1>1 DEF Tidy
<1>3. Fits(words) \in SUBSET Nat /\ Fits(words) # {} /\ Fits(words) \subseteq 1..Len(blocks)
  <2>1. DOMAIN blocks = 1..Len(blocks)
    BY <1>2
  <2>2. Fits(words) \subseteq 1..Len(blocks)
    BY <2>1 DEF Fits
  <2>3. Fits(words) # {}
    BY DEF kmallocFit
  <2>4. QED
    BY <1>2, <2>2, <2>3
<1>4. PICK i : i = Min(Fits(words))
  OBVIOUS
<1>5. i \in 1..Len(blocks) /\ blocks[i].free = 1 /\ blocks[i].size >= words
  <2>1. i \in Fits(words)
    BY <1>3, <1>4, MinIsLeast
  <2>2. QED
    BY <1>3, <2>1 DEF Fits
<1>6. /\ blocks' = SubSeq(blocks, 1, i - 1) \o Carve(blocks[i], words) \o SubSeq(blocks, i + 1, Len(blocks))
      /\ live' = live \cup {[ptr |-> Pointer(blocks[i]), words |-> words]}
      /\ heap_end' = heap_end /\ frames' = frames /\ overrun' = overrun
  BY <1>4 DEF kmallocFit
<1>7. Carved(blocks, i, words, blocks')
  BY <1>1, <1>5, <1>6, Carves
<1>8. PICK new : new = [ptr |-> Pointer(blocks[i]), words |-> words]
  OBVIOUS
<1>9. /\ new \in [ptr : Nat, words : Nat \ {0}] /\ new.ptr = Pointer(blocks[i]) /\ new.words = words
      /\ live' = live \cup {new}
  <2>1. blocks[i] \in Blocks
    BY <1>2, <1>5
  <2>2. Pointer(blocks[i]) \in Nat
    BY <2>1, BlockFields, Sizes DEF Pointer
  <2>3. QED
    BY <1>6, <1>8, <2>2
<1>10. \A j \in 1..Len(blocks) : blocks[j].free = 0 => j # i /\ Pointer(blocks[j]) # Pointer(blocks[i])
  BY <1>1, <1>5, PointersDiffer
<1>11. Held'
  <2>1. ASSUME NEW a \in live'
        PROVE  \E k \in 1..Len(blocks') :
                  Pointer(blocks'[k]) = a.ptr /\ blocks'[k].free = 0 /\ blocks'[k].size >= a.words
    <3>1. CASE a \in live
      <4>1. PICK j \in 1..Len(blocks) :
                Pointer(blocks[j]) = a.ptr /\ blocks[j].free = 0 /\ blocks[j].size >= a.words
        BY <1>1, <3>1 DEF Held
      <4>2. PICK k \in 1..Len(blocks') : blocks'[k] = blocks[j]
        BY <1>7, <1>10, <4>1 DEF Carved
      <4>3. QED
        BY <4>1, <4>2
    <3>2. CASE a = new
      <4>1. PICK k \in 1..Len(blocks') :
                blocks'[k].addr = blocks[i].addr /\ blocks'[k].free = 0 /\ blocks'[k].size >= words
        BY <1>7 DEF Carved
      <4>2. QED
        BY <1>9, <3>2, <4>1 DEF Pointer
    <3>3. QED
      BY <1>9, <3>1, <3>2
  <2>2. ASSUME NEW k \in 1..Len(blocks'), blocks'[k].free = 0
        PROVE  \E a \in live' : a.ptr = Pointer(blocks'[k])
    <3>1. CASE blocks'[k].addr = blocks[i].addr
      BY <1>9, <3>1 DEF Pointer
    <3>2. CASE \E j \in 1..Len(blocks) : j # i /\ blocks[j] = blocks'[k]
      <4>1. PICK j \in 1..Len(blocks) : blocks[j] = blocks'[k]
        BY <3>2
      <4>2. PICK a \in live : a.ptr = Pointer(blocks[j])
        BY <1>1, <2>2, <4>1 DEF Held
      <4>3. QED
        BY <1>9, <4>1, <4>2
    <3>3. QED
      BY <1>7, <2>2, <3>1, <3>2 DEF Carved
  <2>3. ASSUME NEW a \in live', NEW b \in live', a.ptr = b.ptr PROVE a = b
    <3>1. \A c \in live : c.ptr # new.ptr
      <4> SUFFICES ASSUME NEW c \in live PROVE c.ptr # new.ptr
        OBVIOUS
      <4>1. PICK j \in 1..Len(blocks) : Pointer(blocks[j]) = c.ptr /\ blocks[j].free = 0
        BY <1>1 DEF Held
      <4>2. QED
        BY <1>9, <1>10, <4>1
    <3>2. \A c, d \in live : c.ptr = d.ptr => c = d
      BY <1>1 DEF Held
    <3>3. (a \in live \/ a = new) /\ (b \in live \/ b = new)
      BY <1>9
    <3>4. QED
      BY <2>3, <3>1, <3>2, <3>3
  <2>4. QED
    BY <2>1, <2>2, <2>3 DEF Held
<1>12. HeapTypes'
  BY <1>1, <1>6, <1>9 DEF HeapTypes, HeapFrames
<1>13. Tidy(blocks)' /\ Merged(blocks)' /\ EndOf(Last(blocks)) = EndOf(Last(blocks'))
  BY <1>7 DEF Carved
<1>14. HeapInv'
  BY <1>1, <1>6, <1>11, <1>12, <1>13 DEF HeapInv
<1>15. InUseStays
  BY <1>7, <1>10 DEF InUseStays, Carved
<1>16. QED
  BY <1>14, <1>15

LEMMA MinOfTwo ==
    ASSUME NEW a \in Nat, NEW b \in Nat
    PROVE  Min({a, b}) = IF a <= b THEN a ELSE b
<1> DEFINE m == Min({a, b})
<1>1. {a, b} \in SUBSET Nat /\ {a, b} # {}
  OBVIOUS
<1>2. m \in {a, b} /\ \A k \in {a, b} : m <= k
  BY <1>1, MinIsLeast
<1> HIDE DEF m
<1>3. m = IF a <= b THEN a ELSE b
  BY <1>2
<1>4. QED
  BY <1>3 DEF m

\* Growing by whole pages.
LEMMA PagesAdd ==
    ASSUME NEW n \in Nat, NEW k \in Nat, NEW m \in Nat \ {0}
    PROVE  n * m + k * m = (n + k) * m /\ k * m \in Nat
  OBVIOUS

LEMMA GrowStep ==
    ASSUME HeapInv, overrun = 0, NEW words \in Nat \ {0}, kmallocGrow(words)
    PROVE  HeapInv' /\ InUseStays
<1>1. Tidy(blocks) /\ Merged(blocks) /\ Held /\ HeapTypes /\ EndOf(Last(blocks)) = heap_end
  BY DEF HeapInv
<1>2. blocks \in Seq(Blocks) /\ Len(blocks) \in Nat
  BY <1>1 DEF Tidy
<1>3. PICK n \in Nat : heap_end = n * PageSize
  BY <1>1 DEF HeapTypes
<1>4. PICK npages : npages = PagesFor(words)
  OBVIOUS
<1>5. npages \in Nat \ {0} /\ npages * PageSize \in Nat /\ npages * PageSize >= words + HeaderSize
  <2>1. PICK w \in Nat \ {0} : w = words + HeaderSize
    BY Sizes
  <2>2. npages = (w + PageSize - 1) \div PageSize
    BY <1>4, <2>1, Sizes DEF PagesFor
  <2>3. npages \in Nat \ {0} /\ npages * PageSize >= w
    BY <2>2, PagesSuffice, Sizes
  <2>4. npages * PageSize \in Nat
    BY <2>3, Sizes
  <2>5. QED
    BY <2>1, <2>3, <2>4
<1>6. PICK got : got = Min({npages, frames})
  OBVIOUS
<1>7. got \in Nat /\ frames \in Nat /\ got = IF npages <= frames THEN npages ELSE frames
  <2>1. frames \in Nat
    BY <1>1 DEF HeapTypes
  <2>2. QED
    BY <1>5, <1>6, <2>1, MinOfTwo
<1>8. PICK b : b = [addr |-> heap_end, size |-> npages * PageSize - HeaderSize, free |-> 0]
  OBVIOUS
<1>9. PICK new : new = [ptr |-> Pointer(b), words |-> words]
  OBVIOUS
<1>10. /\ frames' = frames - got /\ heap_end' = heap_end + got * PageSize
       /\ blocks' = Append(blocks, b) /\ live' = live \cup {new}
       /\ overrun' = IF frames < npages THEN 1 ELSE 0
  BY <1>4, <1>6, <1>8, <1>9 DEF kmallocGrow, heap_extend, Block
<1>11. /\ b \in Blocks /\ b.addr = heap_end /\ b.size >= words /\ b.free = 0 /\ Pointer(b) \in Nat
       /\ EndOf(b) = heap_end + npages * PageSize
  <2>1. heap_end \in Nat /\ npages * PageSize - HeaderSize \in Nat \ {0} /\ npages * PageSize - HeaderSize >= words
    BY <1>1, <1>5, Sizes DEF HeapTypes
  <2>2. b.addr = heap_end /\ b.size = npages * PageSize - HeaderSize /\ b.free = 0 /\ b \in Blocks
    BY <1>8, <2>1 DEF Blocks
  <2>3. QED
    BY <1>5, <2>1, <2>2, Sizes DEF Pointer, EndOf
<1>12. new \in [ptr : Nat, words : Nat \ {0}] /\ new.ptr = Pointer(b) /\ new.words = words
  BY <1>9, <1>11
<1>13. /\ Tidy(blocks') /\ Merged(blocks') /\ Last(blocks') = b /\ Len(blocks') = Len(blocks) + 1
       /\ blocks'[Len(blocks) + 1] = b /\ \A i \in 1..Len(blocks) : blocks'[i] = blocks[i]
  BY <1>1, <1>10, <1>11, AppendBlock
<1>14. HeapTypes'
  <2>1. /\ n * PageSize + got * PageSize = (n + got) * PageSize /\ got * PageSize \in Nat
        /\ (n * PageSize) \div PageSize = n /\ (n * PageSize + got * PageSize) \div PageSize = n + got
    <3>1. PICK m \in Nat \ {0} : m = PageSize
      BY Sizes
    <3>2. n * m + got * m = (n + got) * m
      BY <1>7, PagesAdd
    <3>3. got * m \in Nat
      BY <1>7, PagesAdd
    <3>4. (n * m) \div m = n
      BY WholePages
    <3>5. (n * m + got * m) \div m = n + got
      <4>1. n + got \in Nat
        BY <1>7
      <4>2. ((n + got) * m) \div m = n + got
        BY <4>1, WholePages
      <4>3. QED
        BY <3>2, <4>2
    <3>6. QED
      BY <3>1, <3>2, <3>3, <3>4, <3>5
  <2>2. HeapFrames = n /\ HeapFrames' = n + got
    BY <1>3, <1>10, <2>1 DEF HeapFrames
  <2>3. frames \in 0..NFrames /\ frames + n <= NFrames
    BY <1>1, <2>2 DEF HeapTypes
  <2>4. frames' \in 0..NFrames /\ frames' + HeapFrames' <= NFrames
    BY <1>7, <1>10, <2>2, <2>3, Sizes
  <2>5. heap_end' \in Nat /\ heap_end' = (n + got) * PageSize /\ n + got \in Nat
    BY <1>1, <1>3, <1>7, <1>10, <2>1 DEF HeapTypes
  <2>6. live' \subseteq [ptr : Nat, words : Nat \ {0}] /\ overrun' \in {0, 1}
    BY <1>1, <1>10, <1>12 DEF HeapTypes
  <2>7. QED
    BY <2>4, <2>5, <2>6 DEF HeapTypes
<1>15. Held'
  <2>0. /\ Len(blocks) + 1 \in 1..Len(blocks')
        /\ \A i \in 1..Len(blocks) : i \in 1..Len(blocks')
        /\ \A i \in 1..Len(blocks') : i = Len(blocks) + 1 \/ i \in 1..Len(blocks)
    BY <1>2, <1>13
  <2>1. ASSUME NEW a \in live'
        PROVE  \E k \in 1..Len(blocks') :
                  Pointer(blocks'[k]) = a.ptr /\ blocks'[k].free = 0 /\ blocks'[k].size >= a.words
    <3>1. CASE a \in live
      <4>1. PICK j \in 1..Len(blocks) :
                Pointer(blocks[j]) = a.ptr /\ blocks[j].free = 0 /\ blocks[j].size >= a.words
        BY <1>1, <3>1 DEF Held
      <4>2. QED
        BY <1>13, <2>0, <4>1
    <3>2. CASE a = new
      BY <1>11, <1>12, <1>13, <2>0, <3>2
    <3>3. QED
      BY <1>10, <3>1, <3>2
  <2>2. ASSUME NEW k \in 1..Len(blocks'), blocks'[k].free = 0
        PROVE  \E a \in live' : a.ptr = Pointer(blocks'[k])
    <3>1. CASE k = Len(blocks) + 1
      BY <1>10, <1>12, <1>13, <3>1
    <3>2. CASE k \in 1..Len(blocks)
      <4>1. PICK a \in live : a.ptr = Pointer(blocks[k])
        BY <1>1, <1>13, <2>2, <3>2 DEF Held
      <4>2. QED
        BY <1>10, <1>13, <3>2, <4>1
    <3>3. QED
      BY <2>0, <3>1, <3>2
  <2>3. ASSUME NEW a \in live', NEW c \in live', a.ptr = c.ptr PROVE a = c
    <3>1. \A d \in live : d.ptr # new.ptr
      <4> SUFFICES ASSUME NEW d \in live PROVE d.ptr # new.ptr
        OBVIOUS
      <4>1. PICK j \in 1..Len(blocks) : Pointer(blocks[j]) = d.ptr
        BY <1>1 DEF Held
      <4>2. j # Len(blocks) + 1 /\ Pointer(blocks'[j]) = d.ptr
        BY <1>2, <1>13, <4>1
      <4>3. Pointer(blocks'[j]) # Pointer(blocks'[Len(blocks) + 1])
        BY <1>13, <2>0, <4>2, PointersDiffer
      <4>4. QED
        BY <1>12, <1>13, <4>2, <4>3
    <3>2. \A d, e \in live : d.ptr = e.ptr => d = e
      BY <1>1 DEF Held
    <3>3. (a \in live \/ a = new) /\ (c \in live \/ c = new)
      BY <1>10
    <3>4. QED
      BY <2>3, <3>1, <3>2, <3>3
  <2>4. QED
    BY <2>1, <2>2, <2>3 DEF Held
<1>16. overrun' = 0 => EndOf(Last(blocks')) = heap_end'
  BY <1>5, <1>7, <1>10, <1>11, <1>13
<1>17. HeapInv'
  BY <1>13, <1>14, <1>15, <1>16 DEF HeapInv
<1>18. InUseStays
  <2>1. \A i \in 1..Len(blocks) : i \in 1..Len(blocks') /\ blocks'[i] = blocks[i]
    BY <1>2, <1>13
  <2>2. QED
    BY <2>1 DEF InUseStays
<1>19. QED
  BY <1>17, <1>18

\* The list kfree passes over.
Flagged(a) ==
    [i \in DOMAIN blocks |-> IF Pointer(blocks[i]) = a.ptr THEN [blocks[i] EXCEPT !.free = 1] ELSE blocks[i]]

LEMMA FlaggedIsTidy ==
    ASSUME Tidy(blocks), NEW a
    PROVE  /\ Tidy(Flagged(a)) /\ Len(Flagged(a)) = Len(blocks)
           /\ EndOf(Last(Flagged(a))) = EndOf(Last(blocks))
           /\ \A i \in 1..Len(blocks) :
                 IF Pointer(blocks[i]) = a.ptr THEN Flagged(a)[i].free = 1
                 ELSE Flagged(a)[i] = blocks[i]
<1> DEFINE f == Flagged(a)
           l == Len(blocks)
<1>1. blocks \in Seq(Blocks) /\ l \in Nat \ {0} /\ DOMAIN blocks = 1..l /\ blocks[1].addr = 0
  BY DEF Tidy
<1>2. ASSUME NEW i \in 1..l
      PROVE  /\ f[i] \in Blocks /\ f[i].addr = blocks[i].addr /\ f[i].size = blocks[i].size
             /\ IF Pointer(blocks[i]) = a.ptr THEN f[i].free = 1 ELSE f[i] = blocks[i]
  <2>1. PICK b \in Blocks : b = blocks[i]
    BY <1>1
  <2>2. f[i] = IF Pointer(b) = a.ptr THEN [b EXCEPT !.free = 1] ELSE b
    BY <1>1, <2>1 DEF Flagged
  <2> HIDE DEF f
  <2>3. b = [addr |-> b.addr, size |-> b.size, free |-> b.free] /\ b.addr \in Nat /\ b.size \in Nat \ {0}
    BY DEF Blocks
  <2>4. [b EXCEPT !.free = 1] = [addr |-> b.addr, size |-> b.size, free |-> 1]
    BY <2>3
  <2>5. PICK r : r = [addr |-> b.addr, size |-> b.size, free |-> 1]
    OBVIOUS
  <2>6. r \in Blocks /\ r.addr = b.addr /\ r.size = b.size /\ r.free = 1
    BY <2>3, <2>5 DEF Blocks
  <2>7. QED
    BY <2>1, <2>2, <2>4, <2>5, <2>6
<1>3. f \in Seq(Blocks) /\ Len(f) = l
  <2>1. f = [i \in 1..l |-> f[i]]
    BY <1>1 DEF Flagged
  <2> HIDE DEF f
  <2>2. \A i \in 1..l : f[i] \in Blocks
    BY <1>2
  <2>3. f \in [1..l -> Blocks]
    BY <2>1, <2>2
  <2>4. QED
    BY <1>1, <2>3
<1> HIDE DEF f
<1>4. \A i \in 1..l : EndOf(f[i]) = EndOf(blocks[i])
  BY <1>2 DEF EndOf
<1>5. Adjacent(f)
  <2> SUFFICES ASSUME NEW i \in 1..(l - 1) PROVE EndOf(f[i]) = f[i + 1].addr
    BY <1>3 DEF Adjacent
  <2>1. i \in 1..l /\ i + 1 \in 1..l
    BY <1>1
  <2>2. EndOf(blocks[i]) = blocks[i + 1].addr
    BY DEF Tidy, Adjacent
  <2>3. QED
    BY <1>2, <1>4, <2>1, <2>2
<1>6. Tidy(f) /\ EndOf(Last(f)) = EndOf(Last(blocks))
  <2>1. 1 \in 1..l /\ l \in 1..l /\ Last(f) = f[l] /\ Last(blocks) = blocks[l] /\ f # <<>>
    BY <1>1, <1>3 DEF Last
  <2>2. QED
    BY <1>1, <1>2, <1>3, <1>4, <1>5, <2>1 DEF Tidy
<1>7. QED
  BY <1>2, <1>3, <1>6 DEF f

LEMMA FreeStep ==
    ASSUME HeapInv, overrun = 0, NEW a \in live, kfree(a)
    PROVE  HeapInv' /\ InUseStays
<1>1. Tidy(blocks) /\ Held /\ HeapTypes /\ EndOf(Last(blocks)) = heap_end
  BY DEF HeapInv
<1>2. PICK f : f = Flagged(a)
  OBVIOUS
<1>3. /\ live' = live \ {a} /\ blocks' = Coalesce(f)
      /\ heap_end' = heap_end /\ frames' = frames /\ overrun' = overrun
  BY <1>2 DEF kfree, Flagged
<1>4. /\ Tidy(f) /\ Len(f) = Len(blocks) /\ EndOf(Last(f)) = EndOf(Last(blocks))
      /\ \A i \in 1..Len(blocks) : IF Pointer(blocks[i]) = a.ptr THEN f[i].free = 1 ELSE f[i] = blocks[i]
  BY <1>1, <1>2, FlaggedIsTidy
<1>5. /\ Tidy(blocks') /\ Merged(blocks') /\ EndOf(Last(blocks')) = heap_end
      /\ \A j \in 1..Len(blocks) : f[j].free = 0 => \E i \in 1..Len(blocks') : blocks'[i] = f[j]
      /\ \A i \in 1..Len(blocks') : blocks'[i].free = 0 => \E j \in 1..Len(blocks) : blocks'[i] = f[j]
  <2>1. Coalesced(f, Len(f), blocks')
    BY <1>3, <1>4, CoalesceMerges
  <2>2. Last(f) = f[Len(f)]
    BY DEF Last
  <2>3. QED
    BY <1>1, <1>4, <2>1, <2>2 DEF Coalesced
<1>6. Held'
  <2>1. ASSUME NEW b \in live'
        PROVE  \E k \in 1..Len(blocks') :
                  Pointer(blocks'[k]) = b.ptr /\ blocks'[k].free = 0 /\ blocks'[k].size >= b.words
    <3>1. b \in live /\ b.ptr # a.ptr
      BY <1>1, <1>3 DEF Held
    <3>2. PICK j \in 1..Len(blocks) :
              Pointer(blocks[j]) = b.ptr /\ blocks[j].free = 0 /\ blocks[j].size >= b.words
      BY <1>1, <3>1 DEF Held
    <3>3. f[j] = blocks[j]
      BY <1>4, <3>1, <3>2
    <3>4. PICK i \in 1..Len(blocks') : blocks'[i] = f[j]
      BY <1>5, <3>2, <3>3
    <3>5. QED
      BY <3>2, <3>3, <3>4
  <2>2. ASSUME NEW k \in 1..Len(blocks'), blocks'[k].free = 0
        PROVE  \E b \in live' : b.ptr = Pointer(blocks'[k])
    <3>1. PICK j \in 1..Len(blocks) : blocks'[k] = f[j]
      BY <1>5, <2>2
    <3>2. Pointer(blocks[j]) # a.ptr /\ f[j] = blocks[j]
      BY <1>4, <2>2, <3>1
    <3>3. PICK b \in live : b.ptr = Pointer(blocks[j])
      BY <1>1, <2>2, <3>1, <3>2 DEF Held
    <3>4. QED
      BY <1>3, <3>1, <3>2, <3>3
  <2>3. \A b, c \in live' : b.ptr = c.ptr => b = c
    BY <1>1, <1>3 DEF Held
  <2>4. QED
    BY <2>1, <2>2, <2>3 DEF Held
<1>7. HeapTypes'
  BY <1>1, <1>3 DEF HeapTypes, HeapFrames
<1>8. HeapInv'
  BY <1>3, <1>5, <1>6, <1>7 DEF HeapInv
<1>9. ASSUME NEW j \in 1..Len(blocks), blocks[j].free = 0, NEW b \in live', b.ptr = Pointer(blocks[j])
      PROVE  \E i \in 1..Len(blocks') : blocks'[i] = blocks[j]
  <2>1. b.ptr # a.ptr
    BY <1>1, <1>3 DEF Held
  <2>2. f[j] = blocks[j]
    BY <1>4, <1>9, <2>1
  <2>3. QED
    BY <1>5, <1>9, <2>2
<1>10. InUseStays
  BY <1>9 DEF InUseStays
<1>11. QED
  BY <1>8, <1>10

LEMMA FrameStep ==
    ASSUME HeapInv, FrameForOthers \/ FrameBack
    PROVE  HeapInv' /\ InUseStays
<1>1. UNCHANGED <<heap_end, blocks, live, overrun>>
  BY DEF FrameForOthers, FrameBack
<1>2. frames' \in 0..NFrames /\ frames' + HeapFrames <= NFrames
  <2>1. frames \in 0..NFrames /\ frames + HeapFrames <= NFrames /\ HeapFrames \in Nat
    <3>1. frames \in 0..NFrames /\ frames + HeapFrames <= NFrames
      BY DEF HeapInv, HeapTypes
    <3>2. PICK n \in Nat : heap_end = n * PageSize
      BY DEF HeapInv, HeapTypes
    <3>3. HeapFrames = n
      BY <3>2, WholePages, Sizes DEF HeapFrames
    <3>4. QED
      BY <3>1, <3>3
  <2>2. CASE FrameForOthers
    BY <2>1, <2>2, Sizes DEF FrameForOthers
  <2>3. CASE FrameBack
    BY <2>1, <2>3, Sizes DEF FrameBack
  <2>4. QED
    BY <2>2, <2>3
<1>3. HeapTypes'
  BY <1>1, <1>2 DEF HeapInv, HeapTypes, HeapFrames
<1>4. QED
  BY <1>1, <1>3 DEF HeapInv, Held, InUseStays

LEMMA InitHolds ==
    ASSUME Init
    PROVE  HeapInv
<1>1. PICK e \in Nat : e = InitialPages * PageSize /\ e > HeaderSize
  BY Sizes
<1>2. PICK b : b = [addr |-> 0, size |-> e - HeaderSize, free |-> 1]
  OBVIOUS
<1>3. heap_end = e /\ blocks = <<b>> /\ live = {} /\ frames = NFrames - InitialPages /\ overrun = 0
  BY <1>1, <1>2 DEF Init, Block
<1>4. b \in Blocks /\ b.addr = 0 /\ b.free = 1 /\ EndOf(b) = e
  <2>1. e - HeaderSize \in Nat \ {0} /\ HeaderSize \in Nat
    BY <1>1, Sizes
  <2>2. b.addr = 0 /\ b.size = e - HeaderSize /\ b.free = 1 /\ b \in Blocks
    BY <1>2, <2>1 DEF Blocks
  <2>3. QED
    BY <1>1, <2>1, <2>2 DEF EndOf
<1>5. blocks \in Seq(Blocks) /\ Len(blocks) = 1 /\ blocks[1] = b /\ blocks # <<>>
  BY <1>3, <1>4
<1>6. Tidy(blocks) /\ Merged(blocks) /\ Last(blocks) = b
  BY <1>4, <1>5 DEF Tidy, Adjacent, Merged, Last
<1>7. Held
  BY <1>3, <1>4, <1>5 DEF Held
<1>8. HeapTypes
  <2>1. HeapFrames = InitialPages
    <3>1. PICK n \in Nat : n = InitialPages
      BY Sizes
    <3>2. (n * PageSize) \div PageSize = n
      BY WholePages, Sizes
    <3>3. QED
      BY <1>1, <1>3, <3>1, <3>2 DEF HeapFrames
  <2>2. frames \in 0..NFrames /\ frames + HeapFrames <= NFrames
    BY <1>3, <2>1, Sizes
  <2>3. QED
    BY <1>1, <1>3, <2>2, Sizes DEF HeapTypes
<1>9. QED
  BY <1>3, <1>4, <1>6, <1>7, <1>8 DEF HeapInv

LEMMA NextStep ==
    ASSUME HeapInv, [Next]_vars
    PROVE  HeapInv' /\ (InUseStays \/ UNCHANGED vars)
<1>1. CASE UNCHANGED vars
  BY <1>1 DEF vars, HeapInv, HeapTypes, HeapFrames, Held
<1>2. ASSUME NEW bytes \in Requests, kmalloc(bytes) PROVE HeapInv' /\ InUseStays
  <2>1. Words(bytes) \in Nat \ {0}
    BY WordsArePositive
  <2>2. CASE kmallocFit(Words(bytes))
    BY <1>2, <2>1, <2>2, FitStep DEF kmalloc
  <2>3. CASE kmallocGrow(Words(bytes))
    BY <1>2, <2>1, <2>3, GrowStep DEF kmalloc
  <2>4. QED
    BY <1>2, <2>2, <2>3 DEF kmalloc
<1>3. ASSUME NEW a \in live, kfree(a) PROVE HeapInv' /\ InUseStays
  BY <1>3, FreeStep DEF kfree
<1>4. CASE FrameForOthers \/ FrameBack
  BY <1>4, FrameStep
<1>5. QED
  BY <1>1, <1>2, <1>3, <1>4 DEF Next

----------------------------------------------------------------------------
(* The theorems                                                            *)

\* Counting: what is held matches what is in use, one to one.
LEMMA HeldIsCounted ==
    ASSUME HeapInv
    PROVE  Cardinality(live) = Cardinality({i \in DOMAIN blocks : blocks[i].free = 0})
<1> DEFINE used == {i \in 1..Len(blocks) : blocks[i].free = 0}
           holder == [i \in used |-> CHOOSE a \in live : a.ptr = Pointer(blocks[i])]
<1>1. Tidy(blocks) /\ Held /\ DOMAIN blocks = 1..Len(blocks) /\ Len(blocks) \in Nat
  BY DEF HeapInv, Tidy
<1>2. \A i \in used : holder[i] \in live /\ holder[i].ptr = Pointer(blocks[i])
  <2> SUFFICES ASSUME NEW i \in used PROVE holder[i] \in live /\ holder[i].ptr = Pointer(blocks[i])
    OBVIOUS
  <2>1. \E a \in live : a.ptr = Pointer(blocks[i])
    BY <1>1 DEF Held
  <2>2. QED
    BY <2>1
<1>3. holder \in Bijection(used, live)
  <2>0. holder \in [used -> live]
    <3>1. holder = [i \in used |-> holder[i]]
      OBVIOUS
    <3> HIDE DEF holder, used
    <3>2. QED
      BY <1>2, <3>1
  <2>1. \A i, j \in used : holder[i] = holder[j] => i = j
    <3> SUFFICES ASSUME NEW i \in used, NEW j \in used, holder[i] = holder[j] PROVE i = j
      OBVIOUS
    <3>1. Pointer(blocks[i]) = Pointer(blocks[j])
      <4> HIDE DEF holder, used
      <4>1. QED
        BY <1>2
    <3>2. QED
      BY <1>1, <3>1, PointersDiffer
  <2>2. \A a \in live : \E i \in used : holder[i] = a
    <3> SUFFICES ASSUME NEW a \in live PROVE \E i \in used : holder[i] = a
      OBVIOUS
    <3>1. PICK i \in 1..Len(blocks) : Pointer(blocks[i]) = a.ptr /\ blocks[i].free = 0
      BY <1>1 DEF Held
    <3>2. i \in used
      BY <3>1
    <3> HIDE DEF holder, used
    <3>3. holder[i] \in live /\ holder[i].ptr = a.ptr
      BY <1>2, <3>1, <3>2
    <3>4. holder[i] = a
      BY <1>1, <3>3 DEF Held
    <3>5. QED
      BY <3>2, <3>4
  <2> HIDE DEF holder, used
  <2>3. QED
    BY <2>0, <2>1, <2>2 DEF Bijection, Injection, IsInjective, Surjection
<1>4. IsFiniteSet(used)
  <2>1. IsFiniteSet(1..Len(blocks)) /\ used \subseteq 1..Len(blocks)
    BY <1>1, FS_Interval
  <2> HIDE DEF used
  <2>2. QED
    BY <2>1, FS_Subset
<1>5. Cardinality(live) = Cardinality(used)
  <2> HIDE DEF holder, used
  <2>1. QED
    BY <1>3, <1>4, FS_Bijection DEF ExistsBijection
<1>6. QED
  BY <1>1, <1>5

LEMMA SoundFromInv ==
    ASSUME HeapInv
    PROVE  HeapIsSound
<1>1. Tidy(blocks) /\ Merged(blocks) /\ Held /\ HeapTypes /\ DOMAIN blocks = 1..Len(blocks)
  BY DEF HeapInv, Tidy
<1>2. TypeOK
  BY <1>1 DEF TypeOK, HeapTypes, Tidy, Blocks
<1>3. BlocksTile
  BY <1>1 DEF BlocksTile, Tidy, Adjacent, HeapInv
<1>4. HeldBlocksAreInUse
  BY <1>1, HeldIsCounted DEF HeldBlocksAreInUse, Held
<1>5. NoFreeNeighbours
  BY <1>1 DEF NoFreeNeighbours, Merged
<1>6. QED
  BY <1>2, <1>3, <1>4, <1>5 DEF HeapIsSound

\* The list of blocks is sound after any sequence of calls of kmalloc and
\* kfree and whatever else takes frames: it tiles the heap, what is in use is
\* what callers hold, each block large enough and none handed out twice, and
\* free neighbours are merged.
THEOREM HeapStaysSound == Spec => []HeapIsSound
<1>1. Init => HeapInv
  BY InitHolds
<1>2. HeapInv /\ [Next]_vars => HeapInv'
  BY NextStep
<1>3. HeapInv => HeapIsSound
  BY SoundFromInv
<1>4. QED
  BY <1>1, <1>2, <1>3, PTL DEF Spec

\* No call moves, resizes or frees a block that its holder keeps.
THEOREM HeldBlocksAreLeftAlone == Spec => HeldBlocksStayPut
<1> DEFINE Stay == \A a \in live \cap live' : \A i \in DOMAIN blocks :
                      Pointer(blocks[i]) = a.ptr => \E j \in DOMAIN blocks' : blocks'[j] = blocks[i]
<1>1. ASSUME HeapInv, [Next]_vars PROVE [Stay]_vars
  <2>1. HeapInv' /\ (InUseStays \/ UNCHANGED vars)
    BY <1>1, NextStep
  <2>2. ASSUME InUseStays, NEW a \in live \cap live', NEW i \in DOMAIN blocks, Pointer(blocks[i]) = a.ptr
        PROVE  \E j \in DOMAIN blocks' : blocks'[j] = blocks[i]
    <3>1. Tidy(blocks) /\ Held /\ DOMAIN blocks = 1..Len(blocks) /\ DOMAIN blocks' = 1..Len(blocks')
      BY <1>1, <2>1 DEF HeapInv, Tidy
    <3>2. PICK k \in 1..Len(blocks) : Pointer(blocks[k]) = a.ptr /\ blocks[k].free = 0
      BY <3>1 DEF Held
    <3>3. k = i
      BY <2>2, <3>1, <3>2, PointersDiffer
    <3>4. QED
      BY <2>2, <3>1, <3>2, <3>3 DEF InUseStays
  <2>3. QED
    BY <2>1, <2>2
<1>2. Init => HeapInv
  BY InitHolds
<1>3. HeapInv /\ [Next]_vars => HeapInv'
  BY NextStep
<1>4. QED
  BY <1>1, <1>2, <1>3, PTL DEF Spec, HeldBlocksStayPut
=============================================================================
