------------------------ MODULE AddressSpaces_proofs ------------------------
(***************************************************************************)
(* Proofs about frames, page tables and copy-on-write (pmm.c, paging.c and *)
(* the system calls that use them), for any number of frames and pages and *)
(* any number of address spaces that an unsigned char can count.           *)
(*                                                                         *)
(* The invariant FrameInv says of every frame what refers to it (FrameOK), *)
(* of every process what it has in each stage of its life (Lifecycle), and *)
(* of the contents of pages what a new address space relies on (Contents). *)
(* A step changes what refers to a frame in one of a few ways, each a      *)
(* lemma: the frame is mapped, unmapped, shared, made a table, given back, *)
(* or left alone.  The proof of an action says which of its frames         *)
(* undergoes which.                                                        *)
(***************************************************************************)
EXTENDS AddressSpaces, FiniteSetTheorems, TLAPS

LEMMA FramesFinite == IsFiniteSet(Frames) /\ NoFrame \notin Frames /\ Frames \subseteq Nat
<1>1. IsFiniteSet(1..NFrames)
  BY AddressSpacesAssumption, FS_Interval
<1>2. QED
  BY <1>1, AddressSpacesAssumption DEF Frames, NoFrame

----------------------------------------------------------------------------
(* Frames that pmm_alloc_frame has not given out                           *)

\* As long as enough frames are left, the k-th of several successive calls of
\* pmm_alloc_frame returns an unused frame of rank k.
LEMMA NthIsUnused ==
    ASSUME NEW k \in 1..Left
    PROVE  Nth(k) \in Unused /\ Cardinality({g \in Unused : g < Nth(k)}) = k - 1
<1> DEFINE U == Unused
           N == Cardinality(U)
           Below(f) == {g \in U : g < f}
           rank == [f \in U |-> Cardinality(Below(f))]
<1>1. U \subseteq Frames /\ IsFiniteSet(U) /\ N \in Nat /\ U \subseteq Nat
  BY FramesFinite, FS_Subset, FS_CardinalityType DEF Unused
<1>2. N = Left
  BY DEF Left
<1> HIDE DEF U
<1>3. ASSUME NEW f \in U
      PROVE  Cardinality(Below(f)) \in 0..(N - 1) /\ IsFiniteSet(Below(f))
  <2>1. Below(f) \subseteq U \ {f} /\ IsFiniteSet(U \ {f}) /\ Cardinality(U \ {f}) = N - 1
    BY <1>1, FS_RemoveElement
  <2>2. IsFiniteSet(Below(f)) /\ Cardinality(Below(f)) <= N - 1
    BY <2>1, FS_Subset
  <2>3. Cardinality(Below(f)) \in Nat
    BY <2>2, FS_CardinalityType
  <2>4. QED
    BY <1>1, <2>2, <2>3
<1>4. ASSUME NEW f \in U, NEW h \in U, f < h
      PROVE  Cardinality(Below(f)) # Cardinality(Below(h))
  <2>0. f \in Nat /\ h \in Nat /\ \A g \in U : g \in Nat /\ (g < f => g < h)
    BY <1>1, <1>4
  <2>1. Below(f) \subseteq Below(h) /\ f \in Below(h) /\ f \notin Below(f)
    <3>1. f \in Below(h) /\ f \notin Below(f)
      BY <1>4, <2>0
    <3>2. ASSUME NEW g \in Below(f) PROVE g \in Below(h)
      BY <2>0, <3>2
    <3>3. QED
      BY <3>1, <3>2
  <2>2. Below(f) # Below(h)
    BY <2>1
  <2>3. QED
    BY <1>3, <2>1, <2>2, FS_Subset
<1> HIDE DEF Below
<1>5. rank \in Injection(U, 0..(N - 1))
  <2>1. rank \in [U -> 0..(N - 1)]
    BY <1>3
  <2>2. ASSUME NEW f \in U, NEW h \in U, rank[f] = rank[h] PROVE f = h
    <3>1. ~(f < h) /\ ~(h < f)
      BY <1>4, <2>2
    <3>2. QED
      BY <1>1, <3>1
  <2>3. QED
    BY <2>1, <2>2 DEF Injection, IsInjective
<1>6. IsFiniteSet(0..(N - 1)) /\ Cardinality(0..(N - 1)) = N
  <2> HIDE DEF N
  <2>1. N - 1 \in Int /\ 0 \in Int
    BY <1>1
  <2>2. /\ IsFiniteSet(0..(N - 1))
        /\ Cardinality(0..(N - 1)) = IF 0 > N - 1 THEN 0 ELSE (N - 1) - 0 + 1
    BY <2>1, FS_Interval
  <2>3. QED
    BY <1>1, <2>2
<1>7. rank \in Surjection(U, 0..(N - 1))
  <2> HIDE DEF rank, N
  <2>1. QED
    BY <1>5, <1>6, FS_Injection DEF N
<1>8. k - 1 \in 0..(N - 1)
  BY <1>1, <1>2
<1>9. \E f \in U : Cardinality(Below(f)) = k - 1
  <2>1. \E f \in U : rank[f] = k - 1
    BY <1>7, <1>8 DEF Surjection
  <2>2. QED
    BY <2>1
<1>10. \E f \in Unused : Cardinality({g \in Unused : g < f}) = k - 1
  BY <1>9 DEF U, Below
<1>11. QED
  BY <1>10 DEF Nth

LEMMA NthAreDistinct ==
    ASSUME NEW i \in 1..Left, NEW j \in 1..Left, Nth(i) = Nth(j)
    PROVE  i = j
<1>1. Cardinality({g \in Unused : g < Nth(i)}) = i - 1 /\ Cardinality({g \in Unused : g < Nth(j)}) = j - 1
  BY NthIsUnused
<1>2. i - 1 = j - 1
  BY <1>1
<1>3. Left \in Nat
  BY FramesFinite, FS_Subset, FS_CardinalityType DEF Unused, Left
<1>4. QED
  BY <1>2, <1>3

----------------------------------------------------------------------------
(* What refers to a frame                                                  *)

LEMMA RefsAreFinite ==
    /\ \A M \in SUBSET (Procs \X Pages) : IsFiniteSet(M) /\ Cardinality(M) \in Nat
    /\ \A S \in SUBSET Procs : IsFiniteSet(S) /\ Cardinality(S) \in Nat
<1>1. IsFiniteSet(Procs)
  BY AddressSpacesAssumption
<1>2. IsFiniteSet(Pages)
  BY AddressSpacesAssumption, FS_Interval DEF Pages, StackPage
<1>3. IsFiniteSet(Procs \X Pages)
  BY <1>1, <1>2, FS_Product
<1>4. QED
  BY <1>1, <1>3, FS_Subset, FS_CardinalityType

\* A frame is counted exactly, it is a table or a directory of one process or of
\* the kernel or else user memory, and it is mapped at one page only.
FrameOK(f) ==
    /\ refs[f] = Cardinality(Mappings(f)) + Cardinality(Structures(f)) + (IF f = kfb THEN 1 ELSE 0)
    /\ f \in used <=> refs[f] > 0
    /\ (Structures(f) # {} \/ f = kfb) =>
          /\ Mappings(f) = {}
          /\ \A p, q \in Structures(f) : p = q
          /\ f = kfb => Structures(f) = {}
    /\ \A m, n \in Mappings(f) : m[2] = n[2]

\* What a process has in each stage of its life.
Lifecycle ==
    \A p \in Procs :
        /\ pstate[p] = "none" => /\ dir[p] = NoFrame /\ table[p] = NoFrame /\ fbTable[p] = NoFrame
                                 /\ \A pg \in Pages : ~Present(p, pg)
        /\ pstate[p] # "none" => dir[p] # NoFrame /\ dir[p] # table[p] /\ dir[p] # fbTable[p]
        /\ pstate[p] = "live" => table[p] # NoFrame /\ \A pg \in Pages : Present(p, pg)
        /\ pstate[p] = "building" => ~Present(p, StackPage) /\ fbTable[p] = NoFrame
        /\ \A pg \in Pages : Present(p, pg) => table[p] # NoFrame

\* Frames without a user page are as good as cleared, and nobody writes to the
\* image of a process before it runs.
Contents ==
    /\ \A f \in Frames : Mappings(f) = {} => data[f] = ImageValue
    /\ \A p \in Procs : pstate[p] = "building" =>
          \A pg \in ImagePages : Present(p, pg) =>
              pte[p][pg].rw = 1 /\ data[pte[p][pg].f] = ImageValue

FrameInv ==
    TypeOK /\ (\A f \in Frames : FrameOK(f)) /\ Lifecycle /\ WritableIsPrivate /\ Contents

LEMMA MappingsAre ==
    ASSUME NEW f
    PROVE  /\ Mappings(f) \in SUBSET (Procs \X Pages)
           /\ \A p \in Procs, pg \in Pages : <<p, pg>> \in Mappings(f) <=> pte[p][pg].f = f
           /\ Structures(f) \in SUBSET Procs
           /\ f # NoFrame => \A p \in Procs : p \in Structures(f) <=> f \in {dir[p], table[p], fbTable[p]}
  BY DEF Mappings, Structures, TablesOf

\* An unused frame is referred to by nothing.
LEMMA UnusedIsBare ==
    ASSUME NEW f \in Frames, FrameOK(f), refs[f] \in Nat, f \notin used
    PROVE  refs[f] = 0 /\ Mappings(f) = {} /\ Structures(f) = {} /\ f # kfb
<1>1. refs[f] = 0
  BY DEF FrameOK
<1>2. /\ IsFiniteSet(Mappings(f)) /\ Cardinality(Mappings(f)) \in Nat
      /\ IsFiniteSet(Structures(f)) /\ Cardinality(Structures(f)) \in Nat
  BY MappingsAre, RefsAreFinite
<1>3. Cardinality(Mappings(f)) = 0 /\ Cardinality(Structures(f)) = 0 /\ f # kfb
  BY <1>1, <1>2 DEF FrameOK
<1>4. QED
  BY <1>1, <1>2, <1>3, FS_EmptySet

----------------------------------------------------------------------------
(* How a step can change what refers to a frame                            *)

LEMMA FrameKept ==
    ASSUME NEW f \in Frames, FrameOK(f), Mappings(f)' = Mappings(f), Structures(f)' = Structures(f),
           f = kfb' <=> f = kfb, refs'[f] = refs[f], f \in used' <=> f \in used
    PROVE  FrameOK(f)'
  BY DEF FrameOK

LEMMA FrameMapped ==
    ASSUME NEW f \in Frames, NEW m, Mappings(f)' = {m}, Structures(f)' = {}, f # kfb',
           refs'[f] = 1, f \in used'
    PROVE  FrameOK(f)'
<1>1. Cardinality({m}) = 1 /\ Cardinality({}) = 0
  BY FS_Singleton, FS_EmptySet
<1>2. QED
  BY <1>1 DEF FrameOK

LEMMA FrameStructured ==
    ASSUME NEW f \in Frames, NEW p, Mappings(f)' = {}, Structures(f)' = {p}, f # kfb',
           refs'[f] = 1, f \in used'
    PROVE  FrameOK(f)'
<1>1. Cardinality({p}) = 1 /\ Cardinality({}) = 0
  BY FS_Singleton, FS_EmptySet
<1>2. QED
  BY <1>1 DEF FrameOK

LEMMA FrameForKernel ==
    ASSUME NEW f \in Frames, Mappings(f)' = {}, Structures(f)' = {}, f = kfb',
           refs'[f] = 1, f \in used'
    PROVE  FrameOK(f)'
<1>1. Cardinality({}) = 0
  BY FS_EmptySet
<1>2. QED
  BY <1>1 DEF FrameOK

LEMMA FrameUnmapped ==
    ASSUME NEW f \in Frames, FrameOK(f), refs[f] \in Nat, NEW m \in Mappings(f),
           Mappings(f)' = Mappings(f) \ {m}, Structures(f)' = Structures(f),
           f = kfb' <=> f = kfb, refs'[f] = refs[f] - 1, f \in used' <=> refs[f] # 1
    PROVE  FrameOK(f)' /\ refs[f] >= 1
<1>1. /\ IsFiniteSet(Mappings(f)) /\ Cardinality(Mappings(f)) \in Nat
      /\ IsFiniteSet(Structures(f)) /\ Cardinality(Structures(f)) \in Nat
  BY MappingsAre, RefsAreFinite
<1>2. Cardinality(Mappings(f) \ {m}) = Cardinality(Mappings(f)) - 1 /\ Cardinality(Mappings(f)) # 0
  BY <1>1, FS_RemoveElement, FS_EmptySet
<1>3. Structures(f) = {} /\ f # kfb /\ Cardinality(Structures(f)) = 0
  BY FS_EmptySet DEF FrameOK
<1>4. refs[f] = Cardinality(Mappings(f)) /\ refs[f] >= 1
  BY <1>1, <1>2, <1>3 DEF FrameOK
<1>5. QED
  BY <1>1, <1>2, <1>3, <1>4 DEF FrameOK

LEMMA FrameUnstructured ==
    ASSUME NEW f \in Frames, FrameOK(f), NEW p \in Structures(f),
           Mappings(f)' = Mappings(f), Structures(f)' = Structures(f) \ {p},
           f = kfb' <=> f = kfb, refs'[f] = refs[f] - 1, f \notin used'
    PROVE  FrameOK(f)' /\ refs[f] = 1
<1>1. Structures(f) = {p} /\ Mappings(f) = {} /\ f # kfb
  BY DEF FrameOK
<1>2. Cardinality({p}) = 1 /\ Cardinality({}) = 0
  BY FS_Singleton, FS_EmptySet
<1>3. refs[f] = 1
  BY <1>1, <1>2 DEF FrameOK
<1>4. Mappings(f)' = {} /\ Structures(f)' = {}
  BY <1>1
<1>5. QED
  BY <1>1, <1>2, <1>3, <1>4 DEF FrameOK

LEMMA FrameShared ==
    ASSUME NEW f \in Frames, FrameOK(f), refs[f] \in Nat, NEW m \in Mappings(f), NEW n,
           n \notin Mappings(f), n[2] = m[2],
           Mappings(f)' = Mappings(f) \cup {n}, Structures(f)' = Structures(f),
           f = kfb' <=> f = kfb, refs'[f] = refs[f] + 1, f \in used'
    PROVE  FrameOK(f)'
<1>1. /\ IsFiniteSet(Mappings(f)) /\ Cardinality(Mappings(f)) \in Nat
      /\ IsFiniteSet(Structures(f)) /\ Cardinality(Structures(f)) \in Nat
  BY MappingsAre, RefsAreFinite
<1>2. Cardinality(Mappings(f) \cup {n}) = Cardinality(Mappings(f)) + 1
  BY <1>1, FS_AddElement
<1>3. Structures(f) = {} /\ f # kfb
  BY DEF FrameOK
<1>4. \A x, y \in Mappings(f) \cup {n} : x[2] = y[2]
  BY DEF FrameOK
<1>5. QED
  BY <1>1, <1>2, <1>3, <1>4 DEF FrameOK

\* One page table entry changes.
EntryBecomes(p, pg, e) == pte' = [pte EXCEPT ![p][pg] = e]

LEMMA EntryChanges ==
    ASSUME TypeOK, NEW p \in Procs, NEW pg \in Pages, NEW e, EntryBecomes(p, pg, e), NEW f
    PROVE  /\ e.f = f => Mappings(f)' = Mappings(f) \cup {<<p, pg>>}
           /\ e.f # f => Mappings(f)' = Mappings(f) \ {<<p, pg>>}
<1>1. \A q \in Procs, x \in Pages : pte'[q][x] = IF q = p /\ x = pg THEN e ELSE pte[q][x]
  BY DEF EntryBecomes, TypeOK
<1>2. Mappings(f)' = {m \in Procs \X Pages : pte'[m[1]][m[2]].f = f}
  BY DEF Mappings
<1>3. ASSUME NEW m \in Procs \X Pages
      PROVE  /\ m \in Mappings(f)' <=> IF m = <<p, pg>> THEN e.f = f ELSE m \in Mappings(f)
             /\ m = <<m[1], m[2]>> /\ m[1] \in Procs /\ m[2] \in Pages
  <2>1. m = <<m[1], m[2]>> /\ m[1] \in Procs /\ m[2] \in Pages
    OBVIOUS
  <2>2. m = <<p, pg>> <=> m[1] = p /\ m[2] = pg
    BY <2>1
  <2>3. QED
    BY <1>1, <1>2, <2>1, <2>2 DEF Mappings
<1>4. Mappings(f)' \subseteq Procs \X Pages /\ Mappings(f) \subseteq Procs \X Pages /\ <<p, pg>> \in Procs \X Pages
  BY <1>2 DEF Mappings
<1>5. QED
  BY <1>3, <1>4

LEMMA EntryIsMade ==
    ASSUME TypeOK, NEW p \in Procs, NEW pg \in Pages, NEW n, NEW f, EntryBecomes(p, pg, Private(n))
    PROVE  /\ f = n => Mappings(f)' = Mappings(f) \cup {<<p, pg>>}
           /\ f # n => Mappings(f)' = Mappings(f) \ {<<p, pg>>}
<1>1. PICK e : e = Private(n)
  OBVIOUS
<1>2. e.f = n
  BY <1>1 DEF Private
<1>3. EntryBecomes(p, pg, e)
  BY <1>1
<1>4. ASSUME f = n PROVE Mappings(f)' = Mappings(f) \cup {<<p, pg>>}
  BY <1>2, <1>3, <1>4, EntryChanges
<1>5. ASSUME f # n PROVE Mappings(f)' = Mappings(f) \ {<<p, pg>>}
  BY <1>2, <1>3, <1>5, EntryChanges
<1>6. QED
  BY <1>4, <1>5

\* The directory or the tables of one process change.
LEMMA TablesChange ==
    ASSUME NEW p \in Procs, NEW f \in Frames,
           \A q \in Procs \ {p} : dir'[q] = dir[q] /\ table'[q] = table[q] /\ fbTable'[q] = fbTable[q]
    PROVE  Structures(f)' = IF f \in {dir'[p], table'[p], fbTable'[p]}
                            THEN Structures(f) \cup {p} ELSE Structures(f) \ {p}
<1>1. f # NoFrame
  BY FramesFinite
<1>2. Structures(f)' = {q \in Procs : f \in {dir'[q], table'[q], fbTable'[q]}}
  BY <1>1 DEF Structures, TablesOf
<1>3. Structures(f) = {q \in Procs : f \in {dir[q], table[q], fbTable[q]}}
  BY <1>1 DEF Structures, TablesOf
<1>4. QED
  BY <1>2, <1>3

\* A page table entry that becomes writable, or goes away, disturbs nobody.
LEMMA EntryKeepsPrivate ==
    ASSUME TypeOK, WritableIsPrivate, NEW p \in Procs, NEW pg \in Pages, NEW e, EntryBecomes(p, pg, e),
           \/ e = Absent
           \/ \E g \in Frames : e = Private(g) /\ Mappings(g) \subseteq {<<p, pg>>}
    PROVE  WritableIsPrivate'
<1>1. \A q \in Procs, x \in Pages : pte'[q][x] = IF q = p /\ x = pg THEN e ELSE pte[q][x]
  BY DEF EntryBecomes, TypeOK
<1>2. ASSUME NEW q \in Procs, NEW x \in Pages, pte'[q][x].f # NoFrame
      PROVE  /\ pte'[q][x].rw = 1 => \A f : f = pte'[q][x].f => Mappings(f)' = {<<q, x>>}
             /\ pte'[q][x].rw = 1 <=> pte'[q][x].cow = 0
  <2>1. CASE q = p /\ x = pg
    <3>1. PICK g \in Frames : e = Private(g) /\ Mappings(g) \subseteq {<<p, pg>>}
      BY <1>1, <1>2, <2>1 DEF Absent
    <3>2. e.f = g /\ e.rw = 1 /\ e.cow = 0
      BY <3>1 DEF Private
    <3>3. Mappings(g)' = {<<p, pg>>}
      <4>1. Mappings(g)' = Mappings(g) \cup {<<p, pg>>}
        BY <3>2, EntryChanges
      <4>2. QED
        BY <3>1, <4>1
    <3>4. QED
      BY <1>1, <2>1, <3>2, <3>3
  <2>2. CASE ~(q = p /\ x = pg)
    <3>1. pte'[q][x] = pte[q][x]
      BY <1>1, <2>2
    <3>2. pte[q][x].rw = 1 <=> pte[q][x].cow = 0
      BY <1>2, <3>1 DEF WritableIsPrivate, Present
    <3>3. ASSUME NEW f, f = pte[q][x].f, pte[q][x].rw = 1 PROVE Mappings(f)' = {<<q, x>>}
      <4>1. Mappings(f) = {<<q, x>>} /\ <<q, x>> # <<p, pg>> /\ f # NoFrame
        BY <1>2, <2>2, <3>1, <3>3 DEF WritableIsPrivate, Present
      <4>2. e.f # f
        <5>1. CASE e = Absent
          BY <4>1, <5>1 DEF Absent
        <5>2. ASSUME NEW g \in Frames, e = Private(g), Mappings(g) \subseteq {<<p, pg>>} PROVE e.f # f
          <6>1. e.f = g
            BY <5>2 DEF Private
          <6>2. QED
            BY <4>1, <5>2, <6>1
        <5>3. QED
          BY <5>1, <5>2
      <4>3. Mappings(f)' = Mappings(f) \ {<<p, pg>>}
        BY <4>2, EntryChanges
      <4>4. QED
        BY <4>1, <4>3
    <3>4. QED
      BY <3>1, <3>2, <3>3
  <2>3. QED
    BY <2>1, <2>2
<1>3. WritableIsPrivate' <=>
        \A q \in Procs, x \in Pages : pte'[q][x].f # NoFrame =>
            /\ pte'[q][x].rw = 1 => {m \in Procs \X Pages : pte'[m[1]][m[2]].f = pte'[q][x].f} = {<<q, x>>}
            /\ pte'[q][x].rw = 1 <=> pte'[q][x].cow = 0
  BY DEF WritableIsPrivate, Present, Mappings
<1>4. \A f : Mappings(f)' = {m \in Procs \X Pages : pte'[m[1]][m[2]].f = f}
  BY DEF Mappings
<1>5. QED
  BY <1>2, <1>3, <1>4

\* A frame that pmm_alloc_frame returns.
LEMMA FreshFrame ==
    ASSUME FrameInv, NEW k \in 1..Left
    PROVE  /\ Nth(k) \in Frames /\ Nth(k) \notin used /\ Nth(k) # NoFrame
           /\ refs[Nth(k)] = 0 /\ Mappings(Nth(k)) = {} /\ Structures(Nth(k)) = {} /\ Nth(k) # kfb
           /\ data[Nth(k)] = ImageValue
<1>1. Nth(k) \in Frames /\ Nth(k) \notin used /\ Nth(k) # NoFrame
  BY NthIsUnused, FramesFinite DEF Unused
<1>2. refs[Nth(k)] \in Nat /\ FrameOK(Nth(k))
  BY <1>1, AddressSpacesAssumption DEF FrameInv, TypeOK
<1> DEFINE n == Nth(k)
<1> HIDE DEF n
<1>3. refs[n] = 0 /\ Mappings(n) = {} /\ Structures(n) = {} /\ n # kfb
  BY <1>1, <1>2, UnusedIsBare DEF n
<1>4. data[n] = ImageValue
  BY <1>1, <1>3 DEF n, FrameInv, Contents
<1>5. QED
  BY <1>1, <1>2, <1>3, <1>4 DEF n

LEMMA LeftIsNat == Left \in Nat
  BY FramesFinite, FS_Subset, FS_CardinalityType DEF Unused, Left

LEMMA RefsAreNat ==
    ASSUME TypeOK, NEW f \in Frames
    PROVE  refs[f] \in Nat
  BY AddressSpacesAssumption DEF TypeOK

\* A live process may store into any of its pages, the kernel for it too.
LEMMA LiveStores ==
    ASSUME FrameInv, pte' = pte, NEW p \in Procs, NEW pg \in Pages, NEW v \in Values,
           pstate[p] = "live", data' = [data EXCEPT ![pte[p][pg].f] = v],
           \A q \in Procs : pstate'[q] = "building" => pstate[q] = "building"
    PROVE  Contents' /\ data' \in [Frames -> Values]
<1> DEFINE g == pte[p][pg].f
<1>1. g \in Frames /\ <<p, pg>> \in Mappings(g) /\ g \in used
  <2>1. g # NoFrame /\ g \in Frames
    BY DEF FrameInv, Lifecycle, Present, TypeOK, PTEs
  <2>2. <<p, pg>> \in Mappings(g)
    BY MappingsAre
  <2> HIDE DEF g
  <2>3. g \in used
    <3>1. FrameOK(g) /\ refs[g] \in Nat
      BY <2>1, RefsAreNat DEF FrameInv
    <3>2. QED
      BY <2>1, <2>2, <3>1, UnusedIsBare
  <2>4. QED
    BY <2>1, <2>2, <2>3
<1>2. data' = [data EXCEPT ![g] = v] /\ data \in [Frames -> Values]
  BY DEF FrameInv, TypeOK
<1> HIDE DEF g
<1>3. \A f \in Frames : Mappings(f)' = {} => data'[f] = ImageValue
  <2>1. \A f \in Frames : Mappings(f)' = Mappings(f)
    BY DEF Mappings
  <2>2. QED
    BY <1>1, <1>2, <2>1 DEF FrameInv, Contents
<1>4. ASSUME NEW q \in Procs, pstate'[q] = "building", NEW x \in ImagePages, pte'[q][x].f # NoFrame
      PROVE  pte'[q][x].rw = 1 /\ data'[pte'[q][x].f] = ImageValue
  <2>1. pstate[q] = "building" /\ q # p /\ x \in Pages /\ pte'[q][x] = pte[q][x]
    BY <1>4, AddressSpacesAssumption DEF ImagePages, Pages, StackPage
  <2>2. pte[q][x].rw = 1 /\ data[pte[q][x].f] = ImageValue /\ pte[q][x].f \in Frames
    BY <1>4, <2>1 DEF FrameInv, Contents, Present, TypeOK, PTEs
  <2>3. Mappings(pte[q][x].f) = {<<q, x>>}
    BY <1>4, <2>1, <2>2 DEF FrameInv, WritableIsPrivate, Present
  <2>4. pte[q][x].f # g
    BY <1>1, <2>1, <2>3
  <2>5. QED
    BY <1>2, <2>1, <2>2, <2>4
<1>5. QED
  BY <1>2, <1>3, <1>4 DEF Contents, Present

\* Steps that change no reference: the machine stops, a process fails to load or
\* exits, a page is written.
LEMMA QuietFrames ==
    ASSUME FrameInv, UNCHANGED <<frameVars, dir, table, fbTable, pte, kfb, hasKfb>>,
           TypeOK',
           \A p \in Procs : pstate'[p] = pstate[p] \/ (pstate[p] \in {"building", "live"} /\ pstate'[p] \in {"lost", "zombie"}),
           \/ data' = data
           \/ \E p \in Procs, pg \in Pages, v \in Values :
                 pstate[p] = "live" /\ data' = [data EXCEPT ![pte[p][pg].f] = v]
    PROVE  FrameInv'
<1>1. UNCHANGED <<used, refs, dir, table, fbTable, pte, kfb>>
  BY DEF frameVars
<1>2. ASSUME NEW f \in Frames PROVE FrameOK(f)'
  <2>1. FrameOK(f)
    BY DEF FrameInv
  <2>2. Mappings(f)' = Mappings(f) /\ Structures(f)' = Structures(f)
    BY <1>1 DEF Mappings, Structures, TablesOf
  <2>3. QED
    BY <1>1, <2>1, <2>2, FrameKept
<1>3. Lifecycle'
  BY <1>1 DEF FrameInv, Lifecycle, Present
<1>4. WritableIsPrivate'
  BY <1>1 DEF FrameInv, WritableIsPrivate, Present, Mappings
<1>5. Contents'
  <2>1. CASE data' = data
    BY <1>1, <2>1 DEF FrameInv, Contents, Present, Mappings
  <2>2. ASSUME NEW p \in Procs, NEW pg \in Pages, NEW v \in Values, pstate[p] = "live",
               data' = [data EXCEPT ![pte[p][pg].f] = v]
        PROVE  Contents'
    BY <1>1, <2>2, LiveStores
  <2>3. QED
    BY <2>1, <2>2
<1>6. QED
  BY <1>2, <1>3, <1>4, <1>5 DEF FrameInv

LEMMA QuietSteps ==
    ASSUME FrameInv, NEW p \in Procs,
           \/ UncheckedOOM \/ LoadFails(p) \/ ExecAborts(p) \/ Exit(p)
           \/ \E pg \in Pages, v \in Values : Store(p, pg, v) \/ KernelStore(p, pg, v)
    PROVE  FrameInv'
<1>0. TypeOK
  BY DEF FrameInv
<1>1. CASE UncheckedOOM \/ LoadFails(p) \/ ExecAborts(p) \/ Exit(p)
  <2>1. /\ UNCHANGED <<frameVars, dir, table, fbTable, pte, kfb, hasKfb, data>>
        /\ \/ pstate' = pstate
           \/ pstate[p] = "building" /\ pstate' = [pstate EXCEPT ![p] = "lost"]
           \/ pstate[p] = "live" /\ pstate' = [pstate EXCEPT ![p] = "zombie"]
        /\ fault' \in {"none", "oom", "halted", "fbfreed"}
    BY <1>0, <1>1 DEF UncheckedOOM, LoadFails, ExecAborts, Exit, procVars, TypeOK
  <2>2. TypeOK'
    BY <1>0, <2>1 DEF TypeOK, frameVars
  <2>3. \A q \in Procs : pstate'[q] = pstate[q] \/ (pstate[q] \in {"building", "live"} /\ pstate'[q] \in {"lost", "zombie"})
    BY <1>0, <2>1 DEF TypeOK
  <2>4. QED
    BY <2>1, <2>2, <2>3, QuietFrames
<1>2. ASSUME NEW pg \in Pages, NEW v \in Values, Store(p, pg, v) \/ KernelStore(p, pg, v)
      PROVE  FrameInv'
  <2>1. /\ UNCHANGED <<frameVars, dir, table, fbTable, pte, kfb, hasKfb, pstate, fault>>
        /\ pstate[p] = "live" /\ data' = [data EXCEPT ![pte[p][pg].f] = v]
    BY <1>2 DEF Store, KernelStore, StoreResult, procVars
  <2>2. data' \in [Frames -> Values]
    BY <1>0, <2>1 DEF TypeOK
  <2>3. TypeOK'
    BY <1>0, <2>1, <2>2 DEF TypeOK, frameVars
  <2>4. QED
    BY <2>1, <2>3, QuietFrames
<1>3. QED
  BY <1>1, <1>2

----------------------------------------------------------------------------
(* Building a process                                                      *)

LEMMA UnusedFrame ==
    ASSUME FrameInv, NEW n \in Frames, n \notin used
    PROVE  /\ refs[n] = 0 /\ Mappings(n) = {} /\ Structures(n) = {} /\ n # kfb
           /\ data[n] = ImageValue /\ n # NoFrame
           /\ \A q \in Procs, x \in Pages : pte[q][x].f # n
           /\ \A q \in Procs : dir[q] # n /\ table[q] # n /\ fbTable[q] # n
<1>1. refs[n] \in Nat /\ FrameOK(n)
  BY RefsAreNat DEF FrameInv
<1>2. refs[n] = 0 /\ Mappings(n) = {} /\ Structures(n) = {} /\ n # kfb
  BY <1>1, UnusedIsBare
<1>3. n # NoFrame
  BY FramesFinite
<1>4. data[n] = ImageValue
  BY <1>2 DEF FrameInv, Contents
<1>5. QED
  BY <1>2, <1>3, <1>4, MappingsAre

\* pmm_alloc_frame for the frames of F leaves every other frame alone.
LEMMA AllocFacts ==
    ASSUME TypeOK, NEW F \in SUBSET Frames, Alloc(F)
    PROVE  /\ used' \subseteq Frames /\ refs' \in [Frames -> 0..(RefModulus - 1)]
           /\ \A f \in F : refs'[f] = 1 /\ f \in used'
           /\ \A f \in Frames \ F : refs'[f] = refs[f] /\ (f \in used' <=> f \in used)
           /\ \A f \in Frames : f \notin used' => f \notin used
<1>1. 1 \in 0..(RefModulus - 1) /\ refs \in [Frames -> 0..(RefModulus - 1)] /\ used \subseteq Frames
  BY AddressSpacesAssumption DEF TypeOK
<1>2. used' = used \cup F /\ refs' = [f \in Frames |-> IF f \in F THEN 1 ELSE refs[f]]
  BY DEF Alloc
<1>3. refs' \in [Frames -> 0..(RefModulus - 1)]
  BY <1>1, <1>2
<1>4. QED
  BY <1>1, <1>2, <1>3

LEMMA StartBuildFrames ==
    ASSUME FrameInv, NEW p \in Procs, StartBuild(p)
    PROVE  FrameInv'
<1>0. TypeOK
  BY DEF FrameInv
<1>1. CASE UncheckedOOM
  BY <1>1, QuietSteps
<1>2. CASE Left >= 1 /\ ~UncheckedOOM
  <2>1. PICK n : n = Nth(1)
    OBVIOUS
  <2>2. /\ pstate[p] = "none"
        /\ Alloc({n}) /\ dir' = [dir EXCEPT ![p] = n]
        /\ hasKfb' = [hasKfb EXCEPT ![p] = IF kfb = NoFrame THEN 0 ELSE 1]
        /\ pstate' = [pstate EXCEPT ![p] = "building"]
        /\ UNCHANGED <<data, table, fbTable, pte, kfb, fault>>
    BY <1>2, <2>1, LeftIsNat DEF StartBuild
  <2>3. n \in Frames /\ n \notin used
    BY <1>2, <2>1, LeftIsNat, FreshFrame
  <2>4. /\ refs[n] = 0 /\ Mappings(n) = {} /\ Structures(n) = {} /\ n # kfb /\ n # NoFrame
    BY <2>3, UnusedFrame
  <2>5. /\ dir[p] = NoFrame /\ table[p] = NoFrame /\ fbTable[p] = NoFrame
        /\ \A pg \in Pages : ~Present(p, pg)
    BY <2>2 DEF FrameInv, Lifecycle
  <2>6. ASSUME NEW f \in Frames PROVE FrameOK(f)'
    <3>0. FrameOK(f) /\ f # NoFrame
      BY FramesFinite DEF FrameInv
    <3>1. Mappings(f)' = Mappings(f)
      BY <2>2 DEF Mappings
    <3>2. dir'[p] = n /\ table'[p] = NoFrame /\ fbTable'[p] = NoFrame
          /\ \A q \in Procs \ {p} : dir'[q] = dir[q] /\ table'[q] = table[q] /\ fbTable'[q] = fbTable[q]
      BY <1>0, <2>2, <2>5 DEF TypeOK
    <3>3. Structures(f)' = IF f = n THEN Structures(f) \cup {p} ELSE Structures(f) \ {p}
      BY <3>0, <3>2, TablesChange
    <3>4. CASE f = n
      <4>1. Mappings(f)' = {} /\ Structures(f)' = {p} /\ f # kfb' /\ refs'[f] = 1 /\ f \in used'
        BY <1>0, <2>2, <2>3, <2>4, <3>1, <3>3, <3>4, AllocFacts
      <4>2. QED
        BY <4>1, FrameStructured
    <3>5. CASE f # n
      <4>1. p \notin Structures(f)
        BY <2>5, <3>0, MappingsAre
      <4>2. Structures(f)' = Structures(f)
        BY <3>3, <3>5, <4>1
      <4>3. refs'[f] = refs[f] /\ (f \in used' <=> f \in used) /\ kfb' = kfb
        BY <1>0, <2>2, <2>3, <3>5, AllocFacts
      <4>4. QED
        BY <3>0, <3>1, <4>2, <4>3, FrameKept
    <3>6. QED
      BY <3>4, <3>5
  <2>7. TypeOK'
    <3>1. used' \subseteq Frames /\ refs' \in [Frames -> 0..(RefModulus - 1)]
      BY <1>0, <2>2, <2>3, AllocFacts
    <3>2. QED
      BY <1>0, <2>2, <2>3, <3>1 DEF TypeOK
  <2>8. Lifecycle'
    BY <1>0, <2>2, <2>4, <2>5, AddressSpacesAssumption DEF FrameInv, Lifecycle, Present, TypeOK, Pages, StackPage
  <2>9. WritableIsPrivate'
    BY <2>2 DEF FrameInv, WritableIsPrivate, Present, Mappings
  <2>10. Contents'
    <3>1. \A f \in Frames : Mappings(f)' = Mappings(f)
      BY <2>2 DEF Mappings
    <3>2. \A pg \in ImagePages : pte[p][pg].f = NoFrame
      BY <2>5, AddressSpacesAssumption DEF Present, Pages, ImagePages, StackPage
    <3>3. QED
      BY <1>0, <2>2, <3>1, <3>2 DEF FrameInv, Contents, Present, TypeOK
  <2>11. QED
    BY <2>6, <2>7, <2>8, <2>9, <2>10 DEF FrameInv
<1>3. QED
  BY <1>1, <1>2 DEF StartBuild

\* One page is mapped in a frame n of its own, in a table that is there or new.
LEMMA OnePageMapped ==
    ASSUME FrameInv, NEW p \in Procs, NEW pg \in Pages, NEW n \in Frames, n \notin used,
           pte[p][pg].f = NoFrame, EntryBecomes(p, pg, Private(n)),
           UNCHANGED <<dir, fbTable, kfb>>,
           NEW F \in SUBSET Frames, Alloc(F),
           \/ F = {n} /\ table' = table
           \/ \E t \in Frames : /\ t \notin used /\ t # n /\ F = {n, t} /\ table[p] = NoFrame
                                /\ table' = [table EXCEPT ![p] = t]
    PROVE  (\A f \in Frames : FrameOK(f)') /\ WritableIsPrivate'
<1>0. TypeOK /\ Mappings(n) = {} /\ Structures(n) = {} /\ n # kfb /\ n # NoFrame
  BY UnusedFrame DEF FrameInv
<1>1. WritableIsPrivate'
  <2>1. \E g \in Frames : Private(n) = Private(g) /\ Mappings(g) \subseteq {<<p, pg>>}
    BY <1>0
  <2>2. QED
    BY <1>0, <2>1, EntryKeepsPrivate DEF FrameInv
<1>2. ASSUME NEW f \in Frames PROVE FrameOK(f)'
  <2>0. FrameOK(f) /\ f # NoFrame
    BY FramesFinite DEF FrameInv
  <2>1. /\ f = n => Mappings(f)' = Mappings(f) \cup {<<p, pg>>}
        /\ f # n => Mappings(f)' = Mappings(f) \ {<<p, pg>>}
    BY <1>0, EntryIsMade
  <2>2. <<p, pg>> \notin Mappings(f)
    BY <2>0, MappingsAre
  <2>3. \A q \in Procs \ {p} : dir'[q] = dir[q] /\ table'[q] = table[q] /\ fbTable'[q] = fbTable[q]
    BY <1>0 DEF TypeOK
  <2>4. Structures(f)' = IF f \in {dir'[p], table'[p], fbTable'[p]} THEN Structures(f) \cup {p} ELSE Structures(f) \ {p}
    BY <2>3, TablesChange
  <2>5. p \in Structures(f) <=> f \in {dir[p], table[p], fbTable[p]}
    BY <2>0, MappingsAre
  <2>6. CASE f = n
    <3>1. f \notin {dir'[p], table'[p], fbTable'[p]}
      BY <1>0, <2>5, <2>6 DEF TypeOK
    <3>2. Mappings(f)' = {<<p, pg>>} /\ Structures(f)' = {}
      BY <1>0, <2>1, <2>4, <2>6, <3>1
    <3>3. refs'[f] = 1 /\ f \in used' /\ f # kfb'
      BY <1>0, <2>6, AllocFacts
    <3>4. QED
      BY <3>2, <3>3, FrameMapped
  <2>7. CASE f # n /\ f \in F
    <3>1. f \notin used /\ table'[p] = f /\ refs'[f] = 1 /\ f \in used'
      BY <1>0, <2>7, AllocFacts DEF TypeOK
    <3>2. Mappings(f) = {} /\ Structures(f) = {} /\ f # kfb
      BY <3>1, UnusedFrame
    <3>3. Mappings(f)' = {} /\ Structures(f)' = {p} /\ f # kfb'
      BY <2>1, <2>4, <2>7, <3>1, <3>2
    <3>4. QED
      BY <3>1, <3>3, FrameStructured
  <2>8. CASE f # n /\ f \notin F
    <3>1. refs'[f] = refs[f] /\ (f \in used' <=> f \in used) /\ kfb' = kfb
      BY <1>0, <2>8, AllocFacts
    <3>2. f \in {dir'[p], table'[p], fbTable'[p]} <=> f \in {dir[p], table[p], fbTable[p]}
      BY <1>0, <2>0, <2>8 DEF TypeOK
    <3>3. Mappings(f)' = Mappings(f) /\ Structures(f)' = Structures(f)
      BY <2>1, <2>2, <2>4, <2>5, <2>8, <3>2
    <3>4. QED
      BY <2>0, <3>1, <3>3, FrameKept
  <2>9. QED
    BY <2>6, <2>7, <2>8
<1>3. QED
  BY <1>1, <1>2

LEMMA MapPageFrames ==
    ASSUME FrameInv, NEW p \in Procs, NEW pg \in Pages, pstate[p] = "building", ~Present(p, pg),
           MapPage(p, pg), Left >= (IF table[p] = NoFrame THEN 2 ELSE 1),
           UNCHANGED <<dir, fbTable, kfb, hasKfb, fault>>,
           \/ pg # StackPage /\ pstate' = pstate
           \/ /\ pg = StackPage /\ pstate' = [pstate EXCEPT ![p] = "live"]
              /\ \A x \in ImagePages : Present(p, x),
           NEW v \in Values, data' = [data EXCEPT ![Nth(1)] = v], pg # StackPage => v = ImageValue
    PROVE  FrameInv'
<1>0. TypeOK
  BY DEF FrameInv
<1>1. PICK n : n = Nth(1)
  OBVIOUS
<1>2. PICK t : t = Nth(2)
  OBVIOUS
<1>3. Left \in Nat /\ Left >= 1 /\ (table[p] = NoFrame => Left >= 2)
  BY LeftIsNat
<1>4. n \in Frames /\ n \notin used
  BY <1>1, <1>3, FreshFrame
<1>5. table[p] = NoFrame => t \in Frames /\ t \notin used /\ t # n
  <2>1. ASSUME table[p] = NoFrame PROVE t \in Frames /\ t \notin used /\ t # n
    <3>1. 1 \in 1..Left /\ 2 \in 1..Left
      BY <1>3, <2>1
    <3>2. QED
      BY <1>1, <1>2, <3>1, FreshFrame, NthAreDistinct
  <2>2. QED
    BY <2>1
<1>6. /\ pte' = [pte EXCEPT ![p][pg] = Private(n)]
      /\ \/ table[p] # NoFrame /\ Alloc({n}) /\ table' = table
         \/ table[p] = NoFrame /\ Alloc({n, t}) /\ table' = [table EXCEPT ![p] = t]
  BY <1>1, <1>2 DEF MapPage
<1>7. PICK F \in SUBSET Frames :
         /\ Alloc(F) /\ n \in F
         /\ \/ F = {n} /\ table' = table /\ table[p] # NoFrame
            \/ /\ t \in Frames /\ t \notin used /\ t # n /\ F = {n, t} /\ table[p] = NoFrame
               /\ table' = [table EXCEPT ![p] = t]
  <2>1. CASE table[p] # NoFrame
    BY <1>4, <1>6, <2>1
  <2>2. CASE table[p] = NoFrame
    BY <1>4, <1>5, <1>6, <2>2
  <2>3. QED
    BY <2>1, <2>2
<1>8. pte[p][pg].f = NoFrame
  BY DEF Present
<1>9. (\A f \in Frames : FrameOK(f)') /\ WritableIsPrivate'
  BY <1>4, <1>6, <1>7, <1>8, OnePageMapped DEF EntryBecomes
<1>10. /\ used' \subseteq Frames /\ refs' \in [Frames -> 0..(RefModulus - 1)]
       /\ \A f \in Frames : f \notin used' => f \notin used /\ f # n
  BY <1>0, <1>7, AllocFacts
<1>11. /\ Private(n) \in PTEs /\ Private(n).f = n /\ Private(n).rw = 1
       /\ \A q \in Procs, x \in Pages : pte'[q][x] = IF q = p /\ x = pg THEN Private(n) ELSE pte[q][x]
       /\ pte' \in [Procs -> [Pages -> PTEs]]
  <2>1. Private(n) \in PTEs /\ Private(n).f = n /\ Private(n).rw = 1
    BY <1>4 DEF Private, PTEs
  <2>2. pte \in [Procs -> [Pages -> PTEs]]
    BY <1>0 DEF TypeOK
  <2> HIDE DEF PTEs
  <2>3. QED
    BY <1>6, <2>1, <2>2
<1>12. TypeOK'
  <2>1. table' \in [Procs -> Frames \cup {NoFrame}] /\ pstate' \in [Procs -> {"none", "building", "live", "zombie", "lost"}]
    BY <1>0, <1>7 DEF TypeOK
  <2>2. data' \in [Frames -> Values]
    BY <1>0 DEF TypeOK
  <2>3. QED
    BY <1>0, <1>10, <1>11, <2>1, <2>2 DEF TypeOK
<1>13. Lifecycle'
  <2>1. table'[p] # NoFrame /\ \A q \in Procs \ {p} : table'[q] = table[q]
    BY <1>0, <1>7, FramesFinite DEF TypeOK
  <2>2. dir[p] # table'[p]
    <3>1. dir[p] # table[p] /\ dir[p] # NoFrame
      BY DEF FrameInv, Lifecycle
    <3>2. t \in Frames /\ t \notin used => dir[p] # t
      BY UnusedFrame
    <3>3. QED
      BY <1>0, <1>7, <3>1, <3>2 DEF TypeOK
  <2>3. n # NoFrame
    BY <1>4, FramesFinite
  <2>4. \A x \in Pages : x = StackPage \/ x \in ImagePages
    BY AddressSpacesAssumption DEF Pages, ImagePages, StackPage
  <2>5. ASSUME NEW q \in Procs, q # p
        PROVE  /\ pte'[q] = pte[q] /\ table'[q] = table[q] /\ pstate'[q] = pstate[q]
    BY <1>0, <1>6, <2>1, <2>5 DEF TypeOK
  <2>6. pstate'[p] # "none" /\ (pstate'[p] = "building" => pg # StackPage) /\ pstate'[p] \in {"building", "live"}
        /\ (pstate'[p] = "live" => pg = StackPage /\ \A x \in ImagePages : Present(p, x))
    BY <1>0 DEF TypeOK
  <2>7. \A x \in Pages : Present(p, x)' <=> x = pg \/ Present(p, x)
    BY <1>11, <2>3 DEF Present
  <2>8. ASSUME NEW q \in Procs
        PROVE /\ pstate'[q] = "none" => /\ dir'[q] = NoFrame /\ table'[q] = NoFrame /\ fbTable'[q] = NoFrame
                                        /\ \A x \in Pages : ~Present(q, x)'
              /\ pstate'[q] # "none" => dir'[q] # NoFrame /\ dir'[q] # table'[q] /\ dir'[q] # fbTable'[q]
              /\ pstate'[q] = "live" => table'[q] # NoFrame /\ \A x \in Pages : Present(q, x)'
              /\ pstate'[q] = "building" => ~Present(q, StackPage)' /\ fbTable'[q] = NoFrame
              /\ \A x \in Pages : Present(q, x)' => table'[q] # NoFrame
    <3>1. CASE q = p
      <4>1. StackPage \in Pages /\ ~Present(p, StackPage) /\ fbTable[p] = NoFrame /\ dir[p] # NoFrame /\ dir[p] # fbTable[p]
        BY AddressSpacesAssumption DEF FrameInv, Lifecycle, Pages, StackPage
      <4>2. QED
        BY <2>1, <2>2, <2>4, <2>6, <2>7, <3>1, <4>1
    <3>2. CASE q # p
      <4>1. \A x : Present(q, x)' <=> Present(q, x)
        BY <2>5, <3>2 DEF Present
      <4>2. QED
        BY <2>5, <3>2, <4>1 DEF FrameInv, Lifecycle
    <3>3. QED
      BY <3>1, <3>2
  <2>9. QED
    BY <2>8 DEF Lifecycle
<1>14. Contents'
  <2>1. /\ data'[n] = v /\ \A f \in Frames \ {n} : data'[f] = data[f]
    BY <1>0, <1>1, <1>4 DEF TypeOK
  <2>2. \A f \in Frames : Mappings(f)' = {} => data'[f] = ImageValue
    <3>1. ASSUME NEW f \in Frames, Mappings(f)' = {} PROVE data'[f] = ImageValue
      <4>1. EntryBecomes(p, pg, Private(n))
        BY <1>6 DEF EntryBecomes
      <4>2. /\ f = n => Mappings(f)' = Mappings(f) \cup {<<p, pg>>}
            /\ f # n => Mappings(f)' = Mappings(f) \ {<<p, pg>>}
        BY <1>0, <4>1, EntryIsMade
      <4>3. <<p, pg>> \notin Mappings(f)
        BY <1>8, FramesFinite, MappingsAre
      <4>4. f # n /\ Mappings(f) = {}
        BY <3>1, <4>2, <4>3
      <4>5. QED
        BY <2>1, <4>4 DEF FrameInv, Contents
    <3>2. QED
      BY <3>1
  <2>3. ASSUME NEW q \in Procs, pstate'[q] = "building", NEW x \in ImagePages, pte'[q][x].f # NoFrame
        PROVE  pte'[q][x].rw = 1 /\ data'[pte'[q][x].f] = ImageValue
    <3>0. x \in Pages /\ pstate[q] = "building" /\ x # StackPage
      BY <1>0, <2>3, AddressSpacesAssumption DEF ImagePages, Pages, StackPage, TypeOK
    <3>1. CASE q = p /\ x = pg
      BY <1>11, <2>1, <3>0, <3>1
    <3>2. CASE ~(q = p /\ x = pg)
      <4>1. pte'[q][x] = pte[q][x] /\ pte[q][x].f # n /\ pte[q][x].f \in Frames
        BY <1>0, <1>4, <1>11, <2>3, <3>0, <3>2, UnusedFrame DEF TypeOK, PTEs
      <4>2. QED
        BY <2>1, <2>3, <3>0, <4>1 DEF FrameInv, Contents, Present
    <3>3. QED
      BY <3>1, <3>2
  <2>4. QED
    BY <2>2, <2>3 DEF Contents, Present
<1>15. QED
  BY <1>9, <1>12, <1>13, <1>14 DEF FrameInv

LEMMA LoadFrames ==
    ASSUME FrameInv, NEW p \in Procs,
           MapStackAndStart(p) \/ \E pg \in Pages : LoadPage(p, pg)
    PROVE  FrameInv'
<1>1. ASSUME NEW pg \in Pages, LoadPage(p, pg) PROVE FrameInv'
  <2>1. CASE UncheckedOOM
    BY <2>1, QuietSteps
  <2>2. CASE ~UncheckedOOM
    <3>1. /\ pstate[p] = "building" /\ pg \in ImagePages /\ ~Present(p, pg)
          /\ Left >= (IF table[p] = NoFrame THEN 2 ELSE 1)
          /\ MapPage(p, pg)
          /\ data' = [data EXCEPT ![Nth(1)] = ImageValue]
          /\ UNCHANGED <<pstate, dir, fbTable, hasKfb, kfb, fault>>
      BY <1>1, <2>2 DEF LoadPage
    <3>2. pg # StackPage /\ ImageValue \in Values
      BY <3>1, AddressSpacesAssumption DEF ImagePages, StackPage
    <3>3. UNCHANGED <<dir, fbTable, kfb, hasKfb, fault>> /\ pstate' = pstate
      BY <3>1
    <3>4. QED
      BY <3>1, <3>2, <3>3, MapPageFrames
  <2>3. QED
    BY <2>1, <2>2
<1>2. CASE MapStackAndStart(p)
  <2>1. CASE UncheckedOOM
    BY <2>1, QuietSteps
  <2>2. CASE ~UncheckedOOM
    <3>1. PICK v \in Values : data' = [data EXCEPT ![Nth(1)] = v]
      BY <1>2, <2>2 DEF MapStackAndStart
    <3>2. /\ pstate[p] = "building" /\ (\A x \in ImagePages : Present(p, x))
          /\ Left >= 1 /\ MapPage(p, StackPage)
          /\ pstate' = [pstate EXCEPT ![p] = "live"]
          /\ UNCHANGED <<dir, fbTable, hasKfb, kfb, fault>>
      BY <1>2, <2>2 DEF MapStackAndStart
    <3>3. StackPage \in Pages /\ ~Present(p, StackPage) /\ 1 \in ImagePages /\ 1 \in Pages
      BY <3>2, AddressSpacesAssumption DEF FrameInv, Lifecycle, Pages, StackPage, ImagePages
    <3>4. table[p] # NoFrame
      BY <3>2, <3>3 DEF FrameInv, Lifecycle
    <3>5. QED
      BY <3>1, <3>2, <3>3, <3>4, MapPageFrames
  <2>3. QED
    BY <2>1, <2>2
<1>3. QED
  BY <1>1, <1>2

----------------------------------------------------------------------------
(* Steps that change one page table entry of a running or dead process     *)

\* The frame of a mapped page is in use, counted, and nobody's table.
LEMMA MappedFrame ==
    ASSUME FrameInv, NEW p \in Procs, NEW pg \in Pages, NEW g, g = pte[p][pg].f, g # NoFrame
    PROVE  /\ g \in Frames /\ <<p, pg>> \in Mappings(g) /\ g \in used /\ refs[g] >= 1
           /\ refs[g] = Cardinality(Mappings(g)) /\ Structures(g) = {} /\ g # kfb
           /\ refs[g] = 1 => Mappings(g) = {<<p, pg>>}
           /\ Mappings(g) = {<<p, pg>>} => refs[g] = 1
<1>1. g \in Frames /\ <<p, pg>> \in Mappings(g)
  BY MappingsAre DEF FrameInv, TypeOK, PTEs
<1>2. FrameOK(g) /\ refs[g] \in Nat
  BY <1>1, RefsAreNat DEF FrameInv
<1>3. g \in used /\ refs[g] >= 1
  <2>1. g \in used
    BY <1>1, <1>2, UnusedIsBare
  <2>2. QED
    BY <1>2, <2>1 DEF FrameOK
<1>4. Structures(g) = {} /\ g # kfb /\ Cardinality(Structures(g)) = 0
  BY <1>1, <1>2, FS_EmptySet DEF FrameOK
<1>5. IsFiniteSet(Mappings(g)) /\ Cardinality(Mappings(g)) \in Nat
  BY MappingsAre, RefsAreFinite
<1>6. refs[g] = Cardinality(Mappings(g))
  BY <1>2, <1>4, <1>5 DEF FrameOK
<1>7. refs[g] = 1 => Mappings(g) = {<<p, pg>>}
  <2>1. /\ IsFiniteSet(Mappings(g) \ {<<p, pg>>})
        /\ Cardinality(Mappings(g) \ {<<p, pg>>}) = Cardinality(Mappings(g)) - 1
    BY <1>1, <1>5, FS_RemoveElement
  <2>2. refs[g] = 1 => Mappings(g) \ {<<p, pg>>} = {}
    BY <1>6, <2>1, FS_EmptySet
  <2>3. QED
    BY <1>1, <2>2
<1>8. Mappings(g) = {<<p, pg>>} => refs[g] = 1
  BY <1>6, FS_Singleton
<1>9. QED
  BY <1>1, <1>3, <1>4, <1>6, <1>7, <1>8

LEMMA MappedOnce ==
    ASSUME FrameInv, NEW p \in Procs, NEW pg \in Pages, NEW g, g = pte[p][pg].f, g # NoFrame
    PROVE  Mappings(g) = {<<p, pg>>} => refs[g] = 1
<1>1. <<p, pg>> \in Mappings(g) /\ refs[g] = Cardinality(Mappings(g))
  BY MappedFrame
<1>2. Cardinality({<<p, pg>>}) = 1
  BY FS_Singleton
<1>3. QED
  BY <1>1, <1>2

LEMMA OneEntryStep ==
    ASSUME FrameInv, NEW p \in Procs, NEW pg \in Pages, NEW e, EntryBecomes(p, pg, e),
           Present(p, pg), pstate[p] = "zombie" \/ (pstate[p] = "live" /\ e.f # NoFrame),
           UNCHANGED <<pstate, dir, table, fbTable>>, TypeOK',
           \A f \in Frames : FrameOK(f)', WritableIsPrivate',
           \A f \in Frames : Mappings(f)' = {} => data'[f] = ImageValue,
           \A q \in Procs \ {p}, x \in Pages, f \in Frames :
               f = pte[q][x].f /\ Mappings(f) = {<<q, x>>} => data'[f] = data[f]
    PROVE  FrameInv'
<1>0. TypeOK
  BY DEF FrameInv
<1>1. \A q \in Procs, x \in Pages : pte'[q][x] = IF q = p /\ x = pg THEN e ELSE pte[q][x]
  BY <1>0 DEF EntryBecomes, TypeOK
<1>2. Lifecycle'
  <2>1. ASSUME NEW q \in Procs, NEW x \in Pages
        PROVE  /\ ~Present(q, x) => ~Present(q, x)'
               /\ pstate[q] = "live" /\ Present(q, x) => Present(q, x)'
    BY <1>1 DEF Present
  <2>2. StackPage \in Pages
    BY AddressSpacesAssumption DEF Pages, StackPage
  <2>3. ASSUME NEW q \in Procs
        PROVE /\ pstate'[q] = "none" => /\ dir'[q] = NoFrame /\ table'[q] = NoFrame /\ fbTable'[q] = NoFrame
                                        /\ \A x \in Pages : ~Present(q, x)'
              /\ pstate'[q] # "none" => dir'[q] # NoFrame /\ dir'[q] # table'[q] /\ dir'[q] # fbTable'[q]
              /\ pstate'[q] = "live" => table'[q] # NoFrame /\ \A x \in Pages : Present(q, x)'
              /\ pstate'[q] = "building" => ~Present(q, StackPage)' /\ fbTable'[q] = NoFrame
              /\ \A x \in Pages : Present(q, x)' => table'[q] # NoFrame
    BY <2>1, <2>2 DEF FrameInv, Lifecycle
  <2>4. QED
    BY <2>3 DEF Lifecycle
<1>3. Contents'
  <2>1. ASSUME NEW q \in Procs, pstate'[q] = "building", NEW x \in ImagePages, pte'[q][x].f # NoFrame
        PROVE  pte'[q][x].rw = 1 /\ data'[pte'[q][x].f] = ImageValue
    <3>1. pstate[q] = "building" /\ q # p /\ x \in Pages
      BY <2>1, AddressSpacesAssumption DEF ImagePages, Pages, StackPage
    <3>2. pte'[q][x] = pte[q][x]
      BY <1>1, <3>1
    <3>3. PICK f : f = pte[q][x].f
      OBVIOUS
    <3>4. pte[q][x].rw = 1 /\ data[f] = ImageValue
      BY <2>1, <3>1, <3>2, <3>3 DEF FrameInv, Contents, Present
    <3>5. f \in Frames /\ Mappings(f) = {<<q, x>>}
      BY <1>0, <2>1, <3>1, <3>2, <3>3, <3>4 DEF FrameInv, WritableIsPrivate, Present, TypeOK, PTEs
    <3>6. data'[f] = data[f]
      BY <3>1, <3>3, <3>5
    <3>7. QED
      BY <3>2, <3>3, <3>4, <3>6
  <2>2. QED
    BY <2>1 DEF Contents, Present
<1>4. QED
  BY <1>2, <1>3 DEF FrameInv

\* pmm_free_frame for frames that have a reference.
LEMMA FreeFacts ==
    ASSUME TypeOK, NEW F \in SUBSET Frames, \A f \in F : refs[f] >= 1,
           used' = FreedUsed(F), refs' = FreedRefs(F)
    PROVE  /\ used' \subseteq Frames /\ refs' \in [Frames -> 0..(RefModulus - 1)]
           /\ \A f \in F : refs'[f] = refs[f] - 1 /\ (f \in used' <=> f \in used /\ refs[f] # 1)
           /\ \A f \in Frames \ F : refs'[f] = refs[f] /\ (f \in used' <=> f \in used)
<1>1. refs \in [Frames -> 0..(RefModulus - 1)] /\ used \subseteq Frames /\ RefModulus \in Nat
  BY AddressSpacesAssumption DEF TypeOK
<1>2. refs' = [f \in Frames |-> IF f \in F /\ refs[f] > 0 THEN refs[f] - 1 ELSE refs[f]]
  BY DEF FreedRefs
<1>3. ASSUME NEW f \in Frames
      PROVE  (IF f \in F /\ refs[f] > 0 THEN refs[f] - 1 ELSE refs[f]) \in 0..(RefModulus - 1)
  BY <1>1
<1>4. refs' \in [Frames -> 0..(RefModulus - 1)]
  BY <1>2, <1>3
<1>5. \A f \in F : refs[f] > 0 /\ f \in Frames
  BY <1>1
<1>6. QED
  BY <1>1, <1>2, <1>4, <1>5 DEF FreedUsed

\* A write fault that paging_handle_cow_fault resolves for the only owner.
LEMMA OwnFrames ==
    ASSUME FrameInv, NEW p \in Procs, NEW pg \in Pages, pstate[p] = "live",
           NEW g, g = pte[p][pg].f, refs[g] <= 1, EntryBecomes(p, pg, Private(g)),
           UNCHANGED <<frameVars, data, procVars, kfb, fault>>
    PROVE  FrameInv'
<1>0. TypeOK /\ Present(p, pg) /\ g # NoFrame
  BY DEF FrameInv, Lifecycle, Present
<1>1. UNCHANGED <<used, refs, data, pstate, dir, table, fbTable, hasKfb, kfb, fault>>
  BY DEF frameVars, procVars
<1>2. g \in Frames /\ refs[g] >= 1 /\ (refs[g] = 1 => Mappings(g) = {<<p, pg>>})
  BY <1>0, MappedFrame
<1>3. refs[g] \in Nat
  BY <1>0, <1>2, RefsAreNat
<1>4. Mappings(g) = {<<p, pg>>}
  BY <1>2, <1>3
<1>5. ASSUME NEW f \in Frames PROVE Mappings(f)' = Mappings(f)
  <2>1. /\ f = g => Mappings(f)' = Mappings(f) \cup {<<p, pg>>}
        /\ f # g => Mappings(f)' = Mappings(f) \ {<<p, pg>>}
    BY <1>0, EntryIsMade
  <2>2. <<p, pg>> \in Mappings(f) => f = g
    BY MappingsAre
  <2>3. QED
    BY <1>4, <2>1, <2>2
<1>6. ASSUME NEW f \in Frames PROVE FrameOK(f)'
  <2>1. FrameOK(f) /\ Structures(f)' = Structures(f)
    BY <1>1 DEF FrameInv, Structures, TablesOf
  <2>2. QED
    BY <1>1, <1>5, <2>1, FrameKept
<1>7. WritableIsPrivate'
  <2>1. \E h \in Frames : Private(g) = Private(h) /\ Mappings(h) \subseteq {<<p, pg>>}
    BY <1>2, <1>4
  <2>2. QED
    BY <1>0, <2>1, EntryKeepsPrivate DEF FrameInv
<1>8. Private(g) \in PTEs /\ Private(g).f = g
  BY <1>2 DEF Private, PTEs
<1>9. TypeOK'
  <2>1. pte' \in [Procs -> [Pages -> PTEs]]
    BY <1>0, <1>8 DEF EntryBecomes, TypeOK
  <2>2. QED
    BY <1>0, <1>1, <2>1 DEF TypeOK
<1>10. \A f \in Frames : Mappings(f)' = {} => data'[f] = ImageValue
  BY <1>1, <1>5 DEF FrameInv, Contents
<1>11. Private(g).f # NoFrame
  BY <1>0, <1>8
<1>12. QED
  BY <1>0, <1>1, <1>6, <1>7, <1>9, <1>10, <1>11, OneEntryStep

\* A write fault resolved by a copy.
LEMMA CopyFrames ==
    ASSUME FrameInv, NEW p \in Procs, NEW pg \in Pages, pstate[p] = "live",
           NEW g, g = pte[p][pg].f, ~(refs[g] <= 1), NEW n \in Frames, n \notin used,
           used' = used \cup {n}, refs' = [refs EXCEPT ![n] = 1, ![g] = @ - 1],
           data' = [data EXCEPT ![n] = data[g]], EntryBecomes(p, pg, Private(n)),
           UNCHANGED <<procVars, kfb, fault>>
    PROVE  FrameInv'
<1>0. TypeOK /\ Present(p, pg) /\ g # NoFrame
  BY DEF FrameInv, Lifecycle, Present
<1>1. UNCHANGED <<pstate, dir, table, fbTable, hasKfb, kfb, fault>>
  BY DEF procVars
<1>2. g \in Frames /\ <<p, pg>> \in Mappings(g) /\ g \in used /\ (Mappings(g) = {<<p, pg>>} => refs[g] = 1)
  BY <1>0, MappedFrame
<1>3. refs[g] \in Nat /\ refs[g] >= 2 /\ refs[g] # 1 /\ refs[g] \in 0..(RefModulus - 1) /\ g # n
  <2>1. refs[g] \in Nat
    BY <1>0, <1>2, RefsAreNat
  <2>2. QED
    BY <1>0, <1>2, <2>1 DEF TypeOK
<1>4. Mappings(n) = {} /\ Structures(n) = {} /\ n # kfb /\ n # NoFrame
  BY UnusedFrame
<1>5. /\ refs'[n] = 1 /\ refs'[g] = refs[g] - 1
      /\ \A f \in Frames \ {n, g} : refs'[f] = refs[f]
      /\ refs' \in [Frames -> 0..(RefModulus - 1)]
  <2>1. 1 \in 0..(RefModulus - 1) /\ refs[g] - 1 \in 0..(RefModulus - 1) /\ RefModulus \in Nat
    BY <1>3, AddressSpacesAssumption
  <2>2. refs \in [Frames -> 0..(RefModulus - 1)]
    BY <1>0 DEF TypeOK
  <2>3. \A f \in Frames : refs'[f] = IF f = g THEN refs[g] - 1 ELSE IF f = n THEN 1 ELSE refs[f]
    BY <1>2, <1>3, <2>2
  <2>4. QED
    BY <1>2, <1>3, <2>1, <2>2, <2>3
<1>6. ASSUME NEW f \in Frames
      PROVE  /\ f = n => Mappings(f)' = {<<p, pg>>}
             /\ f = g => Mappings(f)' = Mappings(f) \ {<<p, pg>>}
             /\ f # n /\ f # g => Mappings(f)' = Mappings(f)
  <2>1. /\ f = n => Mappings(f)' = Mappings(f) \cup {<<p, pg>>}
        /\ f # n => Mappings(f)' = Mappings(f) \ {<<p, pg>>}
    BY <1>0, EntryIsMade
  <2>2. <<p, pg>> \in Mappings(f) => f = g
    BY MappingsAre
  <2>3. QED
    BY <1>3, <1>4, <2>1, <2>2
<1>7. ASSUME NEW f \in Frames PROVE FrameOK(f)'
  <2>1. FrameOK(f) /\ Structures(f)' = Structures(f)
    BY <1>1 DEF FrameInv, Structures, TablesOf
  <2>2. CASE f = n
    <3>1. Mappings(f)' = {<<p, pg>>} /\ Structures(f)' = {} /\ f # kfb' /\ refs'[f] = 1 /\ f \in used'
      BY <1>1, <1>4, <1>5, <1>6, <2>1, <2>2
    <3>2. QED
      BY <3>1, FrameMapped
  <2>3. CASE f = g
    <3>1. /\ refs[f] \in Nat /\ <<p, pg>> \in Mappings(f) /\ Mappings(f)' = Mappings(f) \ {<<p, pg>>}
          /\ kfb' = kfb /\ refs'[f] = refs[f] - 1 /\ refs[f] # 1 /\ f \in used'
      BY <1>1, <1>2, <1>3, <1>5, <1>6, <2>3
    <3>2. QED
      BY <2>1, <3>1, FrameUnmapped
  <2>4. CASE f # n /\ f # g
    <3>1. Mappings(f)' = Mappings(f) /\ kfb' = kfb /\ refs'[f] = refs[f] /\ (f \in used' <=> f \in used)
      BY <1>1, <1>5, <1>6, <2>4
    <3>2. QED
      BY <2>1, <3>1, FrameKept
  <2>5. QED
    BY <2>2, <2>3, <2>4
<1>8. WritableIsPrivate'
  <2>1. \E h \in Frames : Private(n) = Private(h) /\ Mappings(h) \subseteq {<<p, pg>>}
    BY <1>4
  <2>2. QED
    BY <1>0, <2>1, EntryKeepsPrivate DEF FrameInv
<1>9. Private(n) \in PTEs /\ Private(n).f = n
  BY DEF Private, PTEs
<1>10. data \in [Frames -> Values] /\ data'[n] = data[g] /\ \A f \in Frames \ {n} : data'[f] = data[f]
  BY <1>0 DEF TypeOK
<1>11. TypeOK'
  <2>1. pte' \in [Procs -> [Pages -> PTEs]]
    BY <1>0, <1>9 DEF EntryBecomes, TypeOK
  <2>2. data' \in [Frames -> Values] /\ used' \subseteq Frames
    BY <1>0, <1>2, <1>10 DEF TypeOK
  <2>3. QED
    BY <1>0, <1>1, <1>5, <2>1, <2>2 DEF TypeOK
<1>12. \A f \in Frames : Mappings(f)' = {} => data'[f] = ImageValue
  <2>1. ASSUME NEW f \in Frames, Mappings(f)' = {} PROVE data'[f] = ImageValue
    <3>1. CASE f = g
      <4>1. Mappings(g) = {<<p, pg>>}
        BY <1>2, <1>6, <2>1, <3>1
      <4>2. QED
        BY <1>2, <1>3, <4>1
    <3>2. CASE f # g
      <4>1. f # n /\ Mappings(f) = {}
        BY <1>6, <2>1, <3>2
      <4>2. QED
        BY <1>10, <4>1 DEF FrameInv, Contents
    <3>3. QED
      BY <3>1, <3>2
  <2>2. QED
    BY <2>1
<1>13. \A q \in Procs \ {p}, x \in Pages, f \in Frames :
           f = pte[q][x].f /\ Mappings(f) = {<<q, x>>} => data'[f] = data[f]
  BY <1>4, <1>10
<1>14. Private(n).f # NoFrame
  BY <1>4, <1>9
<1>15. QED
  BY <1>0, <1>1, <1>7, <1>8, <1>11, <1>12, <1>13, <1>14, OneEntryStep

LEMMA CowFaultFrames ==
    ASSUME FrameInv, NEW p \in Procs, NEW pg \in Pages, CowFault(p, pg)
    PROVE  FrameInv'
<1>0. TypeOK
  BY DEF FrameInv
<1>1. PICK g : g = pte[p][pg].f
  OBVIOUS
<1>2. PICK n : n = Nth(1)
  OBVIOUS
<1>3. /\ pstate[p] = "live" /\ UNCHANGED <<procVars, kfb>>
      /\ \/ /\ refs[g] <= 1 /\ EntryBecomes(p, pg, Private(g))
            /\ UNCHANGED <<frameVars, data, fault>>
         \/ /\ ~(refs[g] <= 1) /\ Left >= 1 /\ EntryBecomes(p, pg, Private(n))
            /\ used' = used \cup {n} /\ refs' = [refs EXCEPT ![n] = 1, ![g] = @ - 1]
            /\ data' = [data EXCEPT ![n] = data[g]] /\ UNCHANGED fault
         \/ fault' = "halted" /\ UNCHANGED <<frameVars, data, pte>>
  BY <1>1, <1>2 DEF CowFault, SoleOwner, EntryBecomes
<1>4. CASE refs[g] <= 1 /\ EntryBecomes(p, pg, Private(g)) /\ UNCHANGED <<frameVars, data, fault>>
  <2>1. UNCHANGED <<frameVars, data, procVars, kfb, fault>>
    BY <1>3, <1>4
  <2>2. QED
    BY <1>1, <1>3, <1>4, <2>1, OwnFrames
<1>5. CASE /\ ~(refs[g] <= 1) /\ Left >= 1 /\ EntryBecomes(p, pg, Private(n))
           /\ used' = used \cup {n} /\ refs' = [refs EXCEPT ![n] = 1, ![g] = @ - 1]
           /\ data' = [data EXCEPT ![n] = data[g]] /\ UNCHANGED fault
  <2>1. n \in Frames /\ n \notin used
    BY <1>2, <1>5, LeftIsNat, FreshFrame
  <2>2. UNCHANGED <<procVars, kfb, fault>>
    BY <1>3, <1>5
  <2>3. QED
    BY <1>1, <1>3, <1>5, <2>1, <2>2, CopyFrames
<1>6. CASE fault' = "halted" /\ UNCHANGED <<frameVars, data, pte>>
  <2>1. /\ UNCHANGED <<used, refs, data, pstate, dir, table, fbTable, pte, kfb, hasKfb>>
        /\ UNCHANGED <<frameVars, dir, table, fbTable, pte, kfb, hasKfb>>
    BY <1>3, <1>6 DEF frameVars, procVars
  <2>2. TypeOK'
    BY <1>0, <1>6, <2>1 DEF TypeOK
  <2>3. QED
    BY <2>1, <2>2, QuietFrames
<1>7. QED
  BY <1>3, <1>4, <1>5, <1>6

\* paging_free_address_space drops one page of a dead process.
LEMMA ReapPageFrames ==
    ASSUME FrameInv, NEW p \in Procs, NEW pg \in Pages, ReapPage(p, pg)
    PROVE  FrameInv'
<1>1. PICK g : g = pte[p][pg].f
  OBVIOUS
<1>2. /\ pstate[p] = "zombie" /\ Present(p, pg) /\ g # NoFrame
      /\ used' = FreedUsed({g}) /\ refs' = FreedRefs({g}) /\ data' = Forget({g})
      /\ EntryBecomes(p, pg, Absent) /\ UNCHANGED <<pstate, dir, table, fbTable, hasKfb, kfb, fault>>
  BY <1>1 DEF ReapPage, Free, EntryBecomes, Present, procVars
<1>3. TypeOK
  BY DEF FrameInv
<1>4. /\ g \in Frames /\ <<p, pg>> \in Mappings(g) /\ g \in used /\ refs[g] >= 1
      /\ Mappings(g) = {<<p, pg>>} => refs[g] = 1
      /\ refs[g] = 1 => Mappings(g) = {<<p, pg>>}
  BY <1>1, <1>2, MappedFrame
<1>5. /\ used' \subseteq Frames /\ refs' \in [Frames -> 0..(RefModulus - 1)]
      /\ refs'[g] = refs[g] - 1 /\ (g \in used' <=> refs[g] # 1)
      /\ \A f \in Frames \ {g} : refs'[f] = refs[f] /\ (f \in used' <=> f \in used)
  <2>1. {g} \in SUBSET Frames /\ \A f \in {g} : refs[f] >= 1
    BY <1>4
  <2>2. QED
    BY <1>2, <1>3, <1>4, <2>1, FreeFacts
<1>6. Absent.f = NoFrame /\ Absent \in PTEs
  BY DEF Absent, PTEs
<1>7. ASSUME NEW f \in Frames PROVE Mappings(f)' = Mappings(f) \ {<<p, pg>>}
  <2>1. Absent.f # f
    BY <1>6, FramesFinite
  <2>2. QED
    BY <1>2, <1>3, <2>1, EntryChanges
<1>8. ASSUME NEW f \in Frames PROVE FrameOK(f)'
  <2>1. FrameOK(f) /\ Structures(f)' = Structures(f) /\ kfb' = kfb
    BY <1>2 DEF FrameInv, Structures, TablesOf
  <2>2. CASE f = g
    <3>1. /\ refs[f] \in Nat /\ <<p, pg>> \in Mappings(f) /\ Mappings(f)' = Mappings(f) \ {<<p, pg>>}
          /\ refs'[f] = refs[f] - 1 /\ (f \in used' <=> refs[f] # 1)
      BY <1>3, <1>4, <1>5, <1>7, <2>2, RefsAreNat
    <3>2. QED
      BY <2>1, <3>1, FrameUnmapped
  <2>3. CASE f # g
    <3>1. <<p, pg>> \notin Mappings(f)
      BY <1>1, <2>3, MappingsAre
    <3>2. Mappings(f)' = Mappings(f) /\ refs'[f] = refs[f] /\ (f \in used' <=> f \in used)
      BY <1>5, <1>7, <2>3, <3>1
    <3>3. QED
      BY <2>1, <3>2, FrameKept
  <2>4. QED
    BY <2>2, <2>3
<1>9. WritableIsPrivate'
  BY <1>2, <1>3, EntryKeepsPrivate DEF FrameInv
<1>10. \A f \in Frames : data'[f] = IF f = g /\ refs[g] = 1 THEN ImageValue ELSE data[f]
  BY <1>2, <1>4 DEF Forget
<1>11. TypeOK'
  <2>1. pte' \in [Procs -> [Pages -> PTEs]]
    BY <1>2, <1>3, <1>6 DEF EntryBecomes, TypeOK
  <2>2. data' \in [Frames -> Values]
    BY <1>2, <1>3, AddressSpacesAssumption DEF Forget, TypeOK
  <2>3. QED
    BY <1>2, <1>3, <1>5, <2>1, <2>2 DEF TypeOK
<1>12. \A f \in Frames : Mappings(f)' = {} => data'[f] = ImageValue
  <2>1. ASSUME NEW f \in Frames, Mappings(f)' = {} PROVE data'[f] = ImageValue
    <3>1. CASE f = g
      <4>1. Mappings(g) = {<<p, pg>>}
        BY <1>4, <1>7, <2>1, <3>1
      <4>2. QED
        BY <1>4, <1>10, <3>1, <4>1
    <3>2. CASE f # g
      <4>1. <<p, pg>> \notin Mappings(f)
        BY <1>1, <3>2, MappingsAre
      <4>2. Mappings(f) = {}
        BY <1>7, <2>1, <4>1
      <4>3. QED
        BY <1>10, <3>2, <4>2 DEF FrameInv, Contents
    <3>3. QED
      BY <3>1, <3>2
  <2>2. QED
    BY <2>1
<1>13. \A q \in Procs \ {p}, x \in Pages, f \in Frames :
           f = pte[q][x].f /\ Mappings(f) = {<<q, x>>} => data'[f] = data[f]
  <2>1. ASSUME NEW q \in Procs \ {p}, NEW x \in Pages, NEW f \in Frames, Mappings(f) = {<<q, x>>}
        PROVE  data'[f] = data[f]
    <3>1. f # g
      BY <1>4, <2>1
    <3>2. QED
      BY <1>10, <3>1
  <2>2. QED
    BY <2>1
<1>14. QED
  BY <1>2, <1>8, <1>9, <1>11, <1>12, <1>13, OneEntryStep

----------------------------------------------------------------------------
(* Steps that change directories and tables only                           *)

LEMMA NoPageChanges ==
    ASSUME FrameInv, pte' = pte,
           \A q \in Procs : pstate'[q] = "building" => pstate[q] = "building",
           \/ data' = data
           \/ \E p \in Procs, pg \in Pages, v \in Values :
                 pstate[p] = "live" /\ data' = [data EXCEPT ![pte[p][pg].f] = v]
    PROVE  WritableIsPrivate' /\ Contents' /\ (\A f : Mappings(f)' = Mappings(f))
<1>1. \A f : Mappings(f)' = Mappings(f)
  BY DEF Mappings
<1>2. WritableIsPrivate'
  BY DEF FrameInv, WritableIsPrivate, Present, Mappings
<1>3. Contents'
  <2>1. CASE data' = data
    BY <1>1, <2>1 DEF FrameInv, Contents, Present
  <2>2. QED
    BY <2>1, LiveStores
<1>4. QED
  BY <1>1, <1>2, <1>3

\* A frame that is a directory or a table.
LEMMA StructureFrame ==
    ASSUME FrameInv, NEW f \in Frames, NEW p \in Structures(f)
    PROVE  Structures(f) = {p} /\ Mappings(f) = {} /\ f # kfb /\ refs[f] = 1 /\ f \in used
<1>1. FrameOK(f)
  BY DEF FrameInv
<1>2. Structures(f) = {p} /\ Mappings(f) = {} /\ f # kfb
  BY <1>1 DEF FrameOK
<1>3. Cardinality({p}) = 1 /\ Cardinality({}) = 0
  BY FS_Singleton, FS_EmptySet
<1>4. refs[f] = 1
  BY <1>1, <1>2, <1>3 DEF FrameOK
<1>5. QED
  BY <1>1, <1>2, <1>4 DEF FrameOK

LEMMA ReapRestFrames ==
    ASSUME FrameInv, NEW p \in Procs, ReapRest(p)
    PROVE  FrameInv'
<1>0. TypeOK
  BY DEF FrameInv
<1>1. CASE fault' = "fbfreed" /\ UNCHANGED <<frameVars, procVars>>
  <2>1. /\ UNCHANGED <<used, refs, data, pstate, dir, table, fbTable, pte, kfb, hasKfb>>
        /\ UNCHANGED <<frameVars, dir, table, fbTable, pte, kfb, hasKfb>>
    BY <1>1 DEF ReapRest, frameVars, procVars
  <2>2. TypeOK'
    BY <1>0, <1>1, <2>1 DEF TypeOK
  <2>3. QED
    BY <2>1, <2>2, QuietFrames
<1>2. CASE ~(fault' = "fbfreed" /\ UNCHANGED <<frameVars, procVars>>)
  <2>1. PICK F : F = {dir[p], table[p], fbTable[p]} \ {NoFrame}
    OBVIOUS
  <2>2. /\ pstate[p] = "zombie" /\ (\A pg \in Pages : ~Present(p, pg))
        /\ used' = FreedUsed(F) /\ refs' = FreedRefs(F)
        /\ pstate' = [pstate EXCEPT ![p] = "none"]
        /\ dir' = [dir EXCEPT ![p] = NoFrame]
        /\ table' = [table EXCEPT ![p] = NoFrame]
        /\ fbTable' = [fbTable EXCEPT ![p] = NoFrame]
        /\ UNCHANGED <<hasKfb, fault, data, pte, kfb>>
    <3>1. pstate[p] = "zombie" => F = TablesOf(p) \cup {dir[p]}
      BY <2>1 DEF FrameInv, Lifecycle, TablesOf
    <3>2. QED
      BY <1>2, <3>1 DEF ReapRest, Free
  <2>3. F \in SUBSET Frames
    BY <1>0, <2>1 DEF TypeOK
  <2>4. ASSUME NEW f \in F
        PROVE  p \in Structures(f) /\ Structures(f) = {p} /\ Mappings(f) = {} /\ f # kfb /\ refs[f] = 1 /\ f \in used
    <3>1. p \in Structures(f) /\ f \in Frames
      BY <2>1, <2>3, FramesFinite, MappingsAre
    <3>2. QED
      BY <3>1, StructureFrame
  <2>5. /\ used' \subseteq Frames /\ refs' \in [Frames -> 0..(RefModulus - 1)]
        /\ \A f \in F : refs'[f] = refs[f] - 1 /\ f \notin used'
        /\ \A f \in Frames \ F : refs'[f] = refs[f] /\ (f \in used' <=> f \in used)
    <3>1. \A f \in F : refs[f] >= 1
      BY <2>4
    <3>2. QED
      BY <1>0, <2>2, <2>3, <2>4, <3>1, FreeFacts
  <2>6. WritableIsPrivate' /\ Contents' /\ (\A f : Mappings(f)' = Mappings(f))
    <3>1. \A q \in Procs : pstate'[q] = "building" => pstate[q] = "building"
      BY <1>0, <2>2 DEF TypeOK
    <3>2. QED
      BY <2>2, <3>1, NoPageChanges
  <2>7. ASSUME NEW f \in Frames PROVE FrameOK(f)'
    <3>1. FrameOK(f) /\ f # NoFrame /\ kfb' = kfb
      BY <2>2, FramesFinite DEF FrameInv
    <3>2. dir'[p] = NoFrame /\ table'[p] = NoFrame /\ fbTable'[p] = NoFrame
          /\ \A q \in Procs \ {p} : dir'[q] = dir[q] /\ table'[q] = table[q] /\ fbTable'[q] = fbTable[q]
      BY <1>0, <2>2 DEF TypeOK
    <3>3. Structures(f)' = Structures(f) \ {p}
      BY <3>1, <3>2, TablesChange
    <3>4. CASE f \in F
      BY <2>4, <2>5, <2>6, <3>1, <3>3, <3>4, FrameUnstructured
    <3>5. CASE f \notin F
      <4>1. p \notin Structures(f)
        BY <2>1, <3>1, <3>5, MappingsAre
      <4>2. Structures(f)' = Structures(f)
        BY <3>3, <4>1
      <4>3. QED
        BY <2>5, <2>6, <3>1, <3>5, <4>2, FrameKept
    <3>6. QED
      BY <3>4, <3>5
  <2>8. TypeOK'
    BY <1>0, <2>2, <2>5 DEF TypeOK
  <2>9. Lifecycle'
    BY <1>0, <2>2 DEF FrameInv, Lifecycle, Present, TypeOK
  <2>10. QED
    BY <2>6, <2>7, <2>8, <2>9 DEF FrameInv
<1>3. QED
  BY <1>1, <1>2

\* gui_init's table, and the table that map_fb gives a process: either may be
\* there already.
LEMMA FbFrames ==
    ASSUME FrameInv, NEW F \in SUBSET Frames, F \cap used = {}, Alloc(F),
           kfb' = kfb \/ (kfb = NoFrame /\ kfb' \in F),
           NEW p \in Procs,
           \/ fbTable' = fbTable /\ F \subseteq {kfb'}
           \/ \E t \in F : /\ pstate[p] = "live" /\ fbTable[p] = NoFrame /\ t # kfb'
                           /\ fbTable' = [fbTable EXCEPT ![p] = t] /\ F \subseteq {kfb', t},
           UNCHANGED <<pstate, dir, table, pte, hasKfb, fault>>,
           \/ data' = data
           \/ \E q \in Procs, pg \in Pages, v \in Values :
                 pstate[q] = "live" /\ data' = [data EXCEPT ![pte[q][pg].f] = v]
    PROVE  FrameInv'
<1>0. TypeOK
  BY DEF FrameInv
<1>1. WritableIsPrivate' /\ Contents' /\ (\A f : Mappings(f)' = Mappings(f))
  BY NoPageChanges
<1>2. ASSUME NEW f \in Frames PROVE FrameOK(f)'
  <2>1. FrameOK(f) /\ f # NoFrame
    BY FramesFinite DEF FrameInv
  <2>2. \A q \in Procs \ {p} : dir'[q] = dir[q] /\ table'[q] = table[q] /\ fbTable'[q] = fbTable[q]
    BY <1>0 DEF TypeOK
  <2>3. Structures(f)' = IF f \in {dir'[p], table'[p], fbTable'[p]} THEN Structures(f) \cup {p} ELSE Structures(f) \ {p}
    BY <2>2, TablesChange
  <2>4. p \in Structures(f) <=> f \in {dir[p], table[p], fbTable[p]}
    BY <2>1, MappingsAre
  <2>5. CASE f \in F
    <3>1. refs'[f] = 1 /\ f \in used'
      BY <1>0, <2>5, AllocFacts
    <3>2. /\ f # kfb /\ Mappings(f) = {} /\ Structures(f) = {} /\ f \notin {dir[p], table[p], fbTable[p]}
      BY <2>5, UnusedFrame
    <3>3. CASE f = kfb'
      <4>1. f \notin {dir'[p], table'[p], fbTable'[p]}
        BY <1>0, <3>2, <3>3 DEF TypeOK
      <4>2. Mappings(f)' = {} /\ Structures(f)' = {}
        BY <1>1, <2>3, <3>2, <4>1
      <4>3. QED
        BY <3>1, <3>3, <4>2, FrameForKernel
    <3>4. CASE f # kfb'
      <4>1. f = fbTable'[p]
        BY <1>0, <2>5, <3>4 DEF TypeOK
      <4>2. Mappings(f)' = {} /\ Structures(f)' = {p}
        BY <1>1, <2>3, <3>2, <4>1
      <4>3. QED
        BY <3>1, <3>4, <4>2, FrameStructured
    <3>5. QED
      BY <3>3, <3>4
  <2>6. CASE f \notin F
    <3>1. refs'[f] = refs[f] /\ (f \in used' <=> f \in used) /\ (f = kfb' <=> f = kfb)
      BY <1>0, <2>1, <2>6, AllocFacts
    <3>2. f \in {dir'[p], table'[p], fbTable'[p]} <=> f \in {dir[p], table[p], fbTable[p]}
      BY <1>0, <2>1, <2>6 DEF TypeOK
    <3>3. Mappings(f)' = Mappings(f) /\ Structures(f)' = Structures(f)
      BY <1>1, <2>3, <2>4, <3>2
    <3>4. QED
      BY <2>1, <3>1, <3>3, FrameKept
  <2>7. QED
    BY <2>5, <2>6
<1>3. TypeOK'
  <2>1. used' \subseteq Frames /\ refs' \in [Frames -> 0..(RefModulus - 1)]
    BY <1>0, AllocFacts
  <2>2. fbTable' \in [Procs -> Frames \cup {NoFrame}] /\ kfb' \in Frames \cup {NoFrame}
    BY <1>0 DEF TypeOK
  <2>3. data' \in [Frames -> Values]
    BY <1>0, LiveStores DEF TypeOK
  <2>4. QED
    BY <1>0, <2>1, <2>2, <2>3 DEF TypeOK
<1>4. Lifecycle'
  <2>1. ASSUME NEW t \in F PROVE \A q \in Procs : dir[q] # t
    BY <2>1, UnusedFrame
  <2>2. \A q \in Procs, x \in Pages : Present(q, x)' <=> Present(q, x)
    BY DEF Present
  <2>3. ASSUME NEW q \in Procs
        PROVE  /\ pstate[q] \in {"none", "building"} => fbTable'[q] = fbTable[q]
               /\ dir[q] # NoFrame /\ dir[q] # fbTable[q] => dir[q] # fbTable'[q]
    BY <1>0, <2>1 DEF TypeOK
  <2>4. StackPage \in Pages
    BY AddressSpacesAssumption DEF Pages, StackPage
  <2>5. QED
    BY <2>2, <2>3, <2>4 DEF FrameInv, Lifecycle
<1>5. QED
  BY <1>1, <1>2, <1>3, <1>4 DEF FrameInv

LEMMA GuiFrames ==
    ASSUME FrameInv, NEW p \in Procs, GuiInit \/ MapFb(p)
    PROVE  FrameInv'
<1>1. PICK n : n = Nth(1)
  OBVIOUS
<1>2. CASE GuiInit
  <2>1. /\ kfb = NoFrame /\ Left >= 1 /\ Alloc({n}) /\ kfb' = n
        /\ fbTable' = fbTable
        /\ UNCHANGED <<data, pstate, dir, table, pte, hasKfb, fault>>
    BY <1>1, <1>2 DEF GuiInit, KernelTables, procVars
  <2>2. n \in Frames /\ n \notin used
    BY <1>1, <2>1, LeftIsNat, FreshFrame
  <2>3. {n} \in SUBSET Frames /\ {n} \cap used = {} /\ kfb' \in {n} /\ {n} \subseteq {kfb'}
    BY <2>1, <2>2
  <2>4. QED
    BY <2>1, <2>3, FbFrames
<1>3. CASE MapFb(p) /\ UncheckedOOM
  BY <1>3, QuietSteps
<1>4. CASE MapFb(p) /\ ~UncheckedOOM /\ kfb # NoFrame
  <2>1. KernelTables = 0
    BY <1>4 DEF KernelTables
  <2>2. {Nth(i) : i \in 1..(KernelTables + 1)} = {n} /\ Nth(KernelTables + 1) = n
    BY <1>1, <2>1
  <2>3. /\ pstate[p] = "live" /\ fbTable[p] = NoFrame /\ Left >= 1 /\ Alloc({n}) /\ kfb' = kfb
        /\ fbTable' = [fbTable EXCEPT ![p] = n]
        /\ UNCHANGED <<pstate, dir, table, pte, hasKfb, fault>>
        /\ \E pg \in Pages, v \in Values : data' = [data EXCEPT ![pte[p][pg].f] = v]
    BY <1>4, <2>1, <2>2 DEF MapFb, StoreResult
  <2>4. n \in Frames /\ n \notin used
    BY <1>1, <2>3, LeftIsNat, FreshFrame
  <2>5. n # kfb'
    BY <2>3, <2>4, UnusedFrame
  <2>6. {n} \in SUBSET Frames /\ {n} \cap used = {} /\ n \in {n} /\ {n} \subseteq {kfb', n}
    BY <2>4
  <2>7. QED
    BY <2>3, <2>5, <2>6, FbFrames
<1>5. CASE MapFb(p) /\ ~UncheckedOOM /\ kfb = NoFrame
  <2>1. KernelTables = 1
    BY <1>5 DEF KernelTables
  <2>2. PICK t : t = Nth(2)
    OBVIOUS
  <2>3. {Nth(i) : i \in 1..(KernelTables + 1)} = {n, t} /\ Nth(KernelTables + 1) = t
    BY <1>1, <2>1, <2>2
  <2>4. /\ pstate[p] = "live" /\ fbTable[p] = NoFrame /\ Left >= 2 /\ Alloc({n, t}) /\ kfb' = n
        /\ fbTable' = [fbTable EXCEPT ![p] = t]
        /\ UNCHANGED <<pstate, dir, table, pte, hasKfb, fault>>
        /\ \E pg \in Pages, v \in Values : data' = [data EXCEPT ![pte[p][pg].f] = v]
    BY <1>1, <1>5, <2>1, <2>3 DEF MapFb, StoreResult
  <2>5. n \in Frames /\ n \notin used /\ t \in Frames /\ t \notin used /\ t # n
    <3>1. 1 \in 1..Left /\ 2 \in 1..Left
      BY <2>4, LeftIsNat
    <3>2. QED
      BY <1>1, <2>2, <3>1, FreshFrame, NthAreDistinct
  <2>6. {n, t} \in SUBSET Frames /\ {n, t} \cap used = {} /\ t \in {n, t} /\ kfb' \in {n, t} /\ {n, t} \subseteq {kfb', t}
    BY <2>4, <2>5
  <2>7. QED
    BY <1>5, <2>4, <2>5, <2>6, FbFrames
<1>6. QED
  BY <1>2, <1>3, <1>4, <1>5

----------------------------------------------------------------------------
(* fork                                                                    *)

\* A frame is mapped at most once by each process, so a count that is an
\* unsigned char cannot wrap around while there are fewer processes than its
\* values.
LEMMA CountsFit ==
    ASSUME FrameInv, Cardinality(Procs) < RefModulus, NEW q \in Procs, pstate[q] = "none",
           NEW f \in Frames, NEW m \in Mappings(f)
    PROVE  Addref(f) = refs[f] + 1 /\ refs[f] + 1 \in 0..(RefModulus - 1)
<1> DEFINE M == Mappings(f)
           R == Procs \ {q}
           owner == [x \in M |-> x[1]]
<1>0. M \in SUBSET (Procs \X Pages) /\ (\A x \in M : x = <<x[1], x[2]>> /\ x[1] \in Procs /\ x[2] \in Pages)
      /\ IsFiniteSet(M) /\ Cardinality(M) \in Nat
  BY MappingsAre, RefsAreFinite
<1>1. FrameOK(f) /\ TypeOK
  BY DEF FrameInv
<1>2. refs[f] = Cardinality(M)
  <2>1. Structures(f) = {} /\ f # kfb /\ Cardinality(Structures(f)) = 0
    BY <1>1, FS_EmptySet DEF FrameOK
  <2>2. QED
    BY <1>0, <1>1, <2>1 DEF FrameOK
<1>3. owner \in Injection(M, R)
  <2>1. ASSUME NEW x \in M PROVE x[1] \in R
    <3>1. pte[x[1]][x[2]].f = f /\ f # NoFrame
      BY FramesFinite DEF Mappings
    <3>2. x[1] # q
      BY <1>0, <3>1 DEF FrameInv, Lifecycle, Present
    <3>3. QED
      BY <1>0, <3>2
  <2>2. ASSUME NEW x \in M, NEW y \in M, x[1] = y[1] PROVE x = y
    <3>1. x[2] = y[2]
      BY <1>1 DEF FrameOK
    <3>2. QED
      BY <1>0, <2>2, <3>1
  <2> HIDE DEF M, R
  <2>3. owner \in [M -> R]
    BY <2>1
  <2>4. QED
    BY <2>2, <2>3 DEF Injection, IsInjective
<1>4. IsFiniteSet(R) /\ Cardinality(R) = Cardinality(Procs) - 1 /\ Cardinality(Procs) \in Nat
  BY AddressSpacesAssumption, FS_RemoveElement, FS_CardinalityType
<1>5. Cardinality(M) <= Cardinality(R)
  <2> HIDE DEF owner, M, R
  <2>1. QED
    BY <1>0, <1>3, <1>4, FS_Injection
<1>6. refs[f] \in Nat /\ refs[f] + 1 < RefModulus /\ RefModulus \in Nat
  <2> HIDE DEF M, R
  <2>1. QED
    BY <1>0, <1>2, <1>4, <1>5, AddressSpacesAssumption
<1>7. (refs[f] + 1) % RefModulus = refs[f] + 1
  BY <1>6
<1>8. QED
  BY <1>6, <1>7 DEF Addref

\* paging_clone_address_space: what the pages of p and of its child q become.
ForkedPages(p, q) == [pte EXCEPT ![p] = [pg \in Pages |-> ParentKeeps(pte[p][pg])],
                                 ![q] = [pg \in Pages |-> Shared(pte[p][pg].f)]]
ForkedRefs(p, F) == [f \in Frames |-> IF f \in F THEN 1
                                      ELSE IF f \in {pte[p][pg].f : pg \in Pages} THEN Addref(f)
                                      ELSE refs[f]]

LEMMA ForkMaps ==
    ASSUME FrameInv, NEW p \in Procs, NEW q \in Procs, pstate[p] = "live", pstate[q] = "none",
           pte' = ForkedPages(p, q)
    PROVE  /\ p # q
           /\ \A x \in Pages : pte'[p][x] = Shared(pte[p][x].f) /\ pte'[q][x] = Shared(pte[p][x].f)
           /\ \A r \in Procs \ {p, q} : pte'[r] = pte[r]
           /\ pte' \in [Procs -> [Pages -> PTEs]]
           /\ \A f \in Frames, x \in Pages : pte[p][x].f = f =>
                 /\ <<p, x>> \in Mappings(f) /\ <<q, x>> \notin Mappings(f)
                 /\ Mappings(f)' = Mappings(f) \cup {<<q, x>>}
           /\ \A f \in Frames : (\A x \in Pages : pte[p][x].f # f) => Mappings(f)' = Mappings(f)
<1>0. TypeOK /\ p # q
  BY DEF FrameInv
<1>1. pte \in [Procs -> [Pages -> PTEs]]
  BY <1>0 DEF TypeOK
<1>2. \A x \in Pages : Shared(pte[p][x].f) \in PTEs
  BY <1>1 DEF Shared, PTEs
<1>3. pte' = [r \in Procs |-> IF r \in {p, q} THEN [pg \in Pages |-> Shared(pte[p][pg].f)] ELSE pte[r]]
  <2>1. [pg \in Pages |-> ParentKeeps(pte[p][pg])] = [pg \in Pages |-> Shared(pte[p][pg].f)]
    BY DEF ParentKeeps
  <2> DEFINE row == [pg \in Pages |-> Shared(pte[p][pg].f)]
  <2>2. pte' = [pte EXCEPT ![p] = row, ![q] = row]
    BY <2>1, Zenon DEF ForkedPages
  <2> HIDE DEF row
  <2>3. pte' = [r \in Procs |-> IF r \in {p, q} THEN row ELSE pte[r]]
    BY <1>0, <1>1, <2>2
  <2>4. QED
    BY <2>3 DEF row
<1>4. /\ \A x \in Pages : pte'[p][x] = Shared(pte[p][x].f) /\ pte'[q][x] = Shared(pte[p][x].f)
      /\ \A r \in Procs \ {p, q} : pte'[r] = pte[r]
  BY <1>3
<1>5. pte' \in [Procs -> [Pages -> PTEs]]
  BY <1>1, <1>2, <1>3
<1>6. \A x \in Pages : pte'[p][x].f = pte[p][x].f /\ pte'[q][x].f = pte[p][x].f
  <2>1. \A g : Shared(g).f = g
    BY DEF Shared
  <2>2. QED
    BY <1>4, <2>1
<1>7. ASSUME NEW f \in Frames, NEW m \in Procs \X Pages
      PROVE  m \in Mappings(f)' <=> IF m[1] = q THEN <<p, m[2]>> \in Mappings(f) ELSE m \in Mappings(f)
  <2>1. m = <<m[1], m[2]>> /\ m[1] \in Procs /\ m[2] \in Pages
    OBVIOUS
  <2>2. m \in Mappings(f)' <=> pte'[m[1]][m[2]].f = f
    BY DEF Mappings
  <2>3. /\ m \in Mappings(f) <=> pte[m[1]][m[2]].f = f
        /\ <<p, m[2]>> \in Mappings(f) <=> pte[p][m[2]].f = f
    BY <2>1, MappingsAre
  <2>4. CASE m[1] = q
    BY <1>6, <2>1, <2>2, <2>3, <2>4
  <2>5. CASE m[1] = p
    BY <1>0, <1>6, <2>1, <2>2, <2>3, <2>5
  <2>6. CASE m[1] \notin {p, q}
    BY <1>4, <2>1, <2>2, <2>3, <2>6
  <2>7. QED
    BY <2>4, <2>5, <2>6
<1>8. \A f \in Frames, x \in Pages : <<q, x>> \notin Mappings(f)
  BY FramesFinite, MappingsAre DEF FrameInv, Lifecycle, Present
<1>9. ASSUME NEW f \in Frames
      PROVE  /\ Mappings(f)' \subseteq Procs \X Pages /\ Mappings(f) \subseteq Procs \X Pages
             /\ \A x, y \in Pages : <<p, x>> \in Mappings(f) /\ <<p, y>> \in Mappings(f) => x = y
             /\ \A m \in Procs \X Pages : m = <<m[1], m[2]>> /\ m[1] \in Procs /\ m[2] \in Pages
  <2>1. FrameOK(f)
    BY DEF FrameInv
  <2>2. \A x, y \in Pages : <<p, x>> \in Mappings(f) /\ <<p, y>> \in Mappings(f) => <<p, x>>[2] = <<p, y>>[2]
    BY <2>1 DEF FrameOK
  <2>3. QED
    BY <2>2 DEF Mappings
<1>10. ASSUME NEW f \in Frames, NEW x \in Pages, pte[p][x].f = f
       PROVE  <<p, x>> \in Mappings(f) /\ Mappings(f)' = Mappings(f) \cup {<<q, x>>}
  <2>1. <<p, x>> \in Mappings(f) /\ <<q, x>> \in Procs \X Pages
    BY <1>10, MappingsAre
  <2>2. ASSUME NEW m \in Procs \X Pages
        PROVE  m \in Mappings(f)' <=> m \in Mappings(f) \/ m = <<q, x>>
    <3>1. m = <<m[1], m[2]>> /\ m[1] \in Procs /\ m[2] \in Pages
      OBVIOUS
    <3>2. CASE m[1] = q
      <4>1. m \notin Mappings(f)
        BY <1>8, <3>1, <3>2
      <4>2. m = <<q, x>> <=> m[2] = x
        BY <3>1, <3>2
      <4>3. <<p, m[2]>> \in Mappings(f) <=> m[2] = x
        BY <1>9, <2>1, <3>1
      <4>4. QED
        BY <1>7, <3>2, <4>1, <4>2, <4>3
    <3>3. CASE m[1] # q
      <4>1. m # <<q, x>>
        BY <3>3
      <4>2. QED
        BY <1>7, <3>3, <4>1
    <3>4. QED
      BY <3>2, <3>3
  <2>3. QED
    BY <1>9, <2>1, <2>2
<1>11. ASSUME NEW f \in Frames, \A x \in Pages : pte[p][x].f # f
       PROVE  Mappings(f)' = Mappings(f)
  <2>1. ASSUME NEW m \in Procs \X Pages PROVE m \in Mappings(f)' <=> m \in Mappings(f)
    <3>1. m = <<m[1], m[2]>> /\ m[1] \in Procs /\ m[2] \in Pages
      OBVIOUS
    <3>2. <<p, m[2]>> \notin Mappings(f)
      BY <1>11, <3>1, MappingsAre
    <3>3. m[1] = q => m \notin Mappings(f)
      BY <1>8, <3>1
    <3>4. QED
      BY <1>7, <3>2, <3>3
  <2>2. QED
    BY <1>9, <2>1
<1>12. QED
  BY <1>0, <1>4, <1>5, <1>8, <1>10, <1>11

\* The directory d and the tables t and, for the framebuffer, b of the child.
LEMMA ForkedFrames ==
    ASSUME FrameInv, Cardinality(Procs) < RefModulus,
           NEW p \in Procs, NEW q \in Procs, pstate[p] = "live", pstate[q] = "none",
           NEW F \in SUBSET Frames, F \cap used = {},
           NEW d \in F, NEW t \in F, NEW b \in F \cup {NoFrame}, d # t, d # b, F \subseteq {d, t, b},
           used' = used \cup F, refs' = ForkedRefs(p, F), pte' = ForkedPages(p, q),
           dir' = [dir EXCEPT ![q] = d], table' = [table EXCEPT ![q] = t],
           fbTable' = [fbTable EXCEPT ![q] = b],
           hasKfb' = [hasKfb EXCEPT ![q] = IF kfb = NoFrame THEN 0 ELSE 1],
           pstate' = [pstate EXCEPT ![q] = "live"], UNCHANGED <<data, kfb, fault>>
    PROVE  FrameInv'
<1>0. TypeOK
  BY DEF FrameInv
<1>1. /\ p # q
      /\ \A x \in Pages : pte'[p][x] = Shared(pte[p][x].f) /\ pte'[q][x] = Shared(pte[p][x].f)
      /\ \A r \in Procs \ {p, q} : pte'[r] = pte[r]
      /\ pte' \in [Procs -> [Pages -> PTEs]]
      /\ \A f \in Frames, x \in Pages : pte[p][x].f = f =>
            /\ <<p, x>> \in Mappings(f) /\ <<q, x>> \notin Mappings(f)
            /\ Mappings(f)' = Mappings(f) \cup {<<q, x>>}
      /\ \A f \in Frames : (\A x \in Pages : pte[p][x].f # f) => Mappings(f)' = Mappings(f)
  BY ForkMaps
<1>2. ASSUME NEW f \in Frames
      PROVE  /\ f \in F => refs'[f] = 1 /\ f \in used'
             /\ f \notin F /\ (\E x \in Pages : pte[p][x].f = f) => refs'[f] = Addref(f)
             /\ f \notin F /\ ~(\E x \in Pages : pte[p][x].f = f) => refs'[f] = refs[f]
             /\ f \notin F => (f \in used' <=> f \in used)
  BY DEF ForkedRefs
<1>3. ASSUME NEW f \in F
      PROVE  /\ Mappings(f) = {} /\ Structures(f) = {} /\ f # kfb
             /\ \A r \in Procs, x \in Pages : pte[r][x].f # f
             /\ \A r \in Procs : dir[r] # f /\ table[r] # f /\ fbTable[r] # f
  BY UnusedFrame
<1>4. dir[q] = NoFrame /\ table[q] = NoFrame /\ fbTable[q] = NoFrame
  BY DEF FrameInv, Lifecycle
<1>5. dir'[q] = d /\ table'[q] = t /\ fbTable'[q] = b
      /\ \A r \in Procs \ {q} : dir'[r] = dir[r] /\ table'[r] = table[r] /\ fbTable'[r] = fbTable[r]
  BY <1>0 DEF TypeOK
<1>6. ASSUME NEW f \in Frames PROVE f # NoFrame /\ (f \in F <=> f \in {d, t, b})
  BY FramesFinite
<1>7. ASSUME NEW f \in Frames PROVE FrameOK(f)' /\ refs'[f] \in 0..(RefModulus - 1)
  <2>1. FrameOK(f) /\ kfb' = kfb /\ refs[f] \in 0..(RefModulus - 1) /\ refs[f] \in Nat
    BY <1>0, RefsAreNat DEF FrameInv, TypeOK
  <2>2. Structures(f)' = IF f \in F THEN Structures(f) \cup {q} ELSE Structures(f) \ {q}
    <3>1. Structures(f)' = IF f \in {dir'[q], table'[q], fbTable'[q]} THEN Structures(f) \cup {q} ELSE Structures(f) \ {q}
      BY <1>5, TablesChange
    <3>2. QED
      BY <1>5, <1>6, <3>1
  <2>3. q \notin Structures(f)
    BY <1>4, <1>6, MappingsAre
  <2>4. CASE f \in F
    <3>1. Mappings(f)' = {} /\ Structures(f)' = {q} /\ f # kfb' /\ refs'[f] = 1 /\ f \in used'
      BY <1>1, <1>2, <1>3, <2>1, <2>2, <2>4
    <3>2. FrameOK(f)'
      BY <3>1, FrameStructured
    <3>3. QED
      BY <3>1, <3>2, AddressSpacesAssumption
  <2>5. CASE f \notin F /\ \E x \in Pages : pte[p][x].f = f
    <3>1. PICK x \in Pages : pte[p][x].f = f
      BY <2>5
    <3>2. /\ <<p, x>> \in Mappings(f) /\ <<q, x>> \notin Mappings(f)
          /\ Mappings(f)' = Mappings(f) \cup {<<q, x>>} /\ Structures(f)' = Structures(f)
      BY <1>1, <2>2, <2>3, <2>5, <3>1
    <3>3. refs'[f] = refs[f] + 1 /\ refs[f] + 1 \in 0..(RefModulus - 1)
      BY <1>2, <2>5, <3>2, CountsFit
    <3>4. f \in used'
      <4>1. f \in used
        BY <3>1, UnusedFrame
      <4>2. QED
        BY <4>1
    <3>5. <<p, x>>[2] = <<q, x>>[2]
      OBVIOUS
    <3>6. FrameOK(f)'
      BY <2>1, <3>2, <3>3, <3>4, <3>5, FrameShared
    <3>7. QED
      BY <3>3, <3>6
  <2>6. CASE f \notin F /\ ~(\E x \in Pages : pte[p][x].f = f)
    <3>1. Mappings(f)' = Mappings(f) /\ Structures(f)' = Structures(f) /\ refs'[f] = refs[f] /\ (f \in used' <=> f \in used)
      BY <1>1, <1>2, <2>2, <2>3, <2>6
    <3>2. FrameOK(f)'
      BY <2>1, <3>1, FrameKept
    <3>3. QED
      BY <2>1, <3>1, <3>2
  <2>7. QED
    BY <2>4, <2>5, <2>6
<1>8. TypeOK'
  <2>1. refs' \in [Frames -> 0..(RefModulus - 1)]
    <3>1. DOMAIN refs' = Frames /\ refs' = [f \in Frames |-> refs'[f]]
      BY DEF ForkedRefs
    <3>2. QED
      BY <1>7, <3>1
  <2>2. used' \subseteq Frames
    BY <1>0 DEF TypeOK
  <2>3. QED
    BY <1>0, <1>1, <2>1, <2>2 DEF TypeOK
<1>9. \A g : Shared(g).f = g /\ Shared(g).rw = 0 /\ Shared(g).cow = 1
  BY DEF Shared
<1>10. Lifecycle'
  <2>1. d # NoFrame /\ t # NoFrame
    BY FramesFinite
  <2>2. \A x \in Pages : /\ Present(p, x)' <=> Present(p, x)
                         /\ Present(q, x)' <=> Present(p, x)
    BY <1>1, <1>9 DEF Present
  <2>3. \A r \in Procs \ {p, q}, x \in Pages : Present(r, x)' <=> Present(r, x)
    BY <1>1 DEF Present
  <2>4. \A x \in Pages : Present(p, x)
    BY DEF FrameInv, Lifecycle
  <2>5. pstate'[q] = "live" /\ \A r \in Procs \ {q} : pstate'[r] = pstate[r]
    BY <1>0 DEF TypeOK
  <2>6. StackPage \in Pages
    BY AddressSpacesAssumption DEF Pages, StackPage
  <2>7. ASSUME NEW r \in Procs
        PROVE /\ pstate'[r] = "none" => /\ dir'[r] = NoFrame /\ table'[r] = NoFrame /\ fbTable'[r] = NoFrame
                                        /\ \A x \in Pages : ~Present(r, x)'
              /\ pstate'[r] # "none" => dir'[r] # NoFrame /\ dir'[r] # table'[r] /\ dir'[r] # fbTable'[r]
              /\ pstate'[r] = "live" => table'[r] # NoFrame /\ \A x \in Pages : Present(r, x)'
              /\ pstate'[r] = "building" => ~Present(r, StackPage)' /\ fbTable'[r] = NoFrame
              /\ \A x \in Pages : Present(r, x)' => table'[r] # NoFrame
    <3>1. CASE r = q
      BY <1>5, <2>1, <2>2, <2>4, <2>5, <3>1
    <3>2. CASE r = p
      BY <1>1, <1>5, <2>2, <2>5, <3>2 DEF FrameInv, Lifecycle
    <3>3. CASE r \notin {p, q}
      BY <1>5, <2>3, <2>5, <2>6, <3>3 DEF FrameInv, Lifecycle
    <3>4. QED
      BY <3>1, <3>2, <3>3
  <2>8. QED
    BY <2>7 DEF Lifecycle
<1>11. ASSUME NEW r \in Procs \ {p, q}, NEW x \in Pages, pte'[r][x].f # NoFrame
       PROVE  /\ pte'[r][x] = pte[r][x] /\ (pte[r][x].rw = 1 <=> pte[r][x].cow = 0)
              /\ pte[r][x].rw = 1 => \A f : f = pte[r][x].f => Mappings(f)' = {<<r, x>>}
  <2>1. pte'[r][x] = pte[r][x]
    BY <1>1
  <2>2. pte[r][x].rw = 1 <=> pte[r][x].cow = 0
    BY <1>11, <2>1 DEF FrameInv, WritableIsPrivate, Present
  <2>3. ASSUME pte[r][x].rw = 1, NEW f, f = pte[r][x].f PROVE Mappings(f)' = {<<r, x>>}
    <3>1. Mappings(f) = {<<r, x>>} /\ f \in Frames
      BY <1>0, <1>11, <2>1, <2>3 DEF FrameInv, WritableIsPrivate, Present, TypeOK, PTEs
    <3>2. \A y \in Pages : pte[p][y].f # f
      BY <3>1, MappingsAre
    <3>3. QED
      BY <1>1, <3>1, <3>2
  <2>4. QED
    BY <2>1, <2>2, <2>3
<1>12. WritableIsPrivate'
  <2>1. WritableIsPrivate' <=>
          \A r \in Procs, x \in Pages : pte'[r][x].f # NoFrame =>
              /\ pte'[r][x].rw = 1 => {m \in Procs \X Pages : pte'[m[1]][m[2]].f = pte'[r][x].f} = {<<r, x>>}
              /\ pte'[r][x].rw = 1 <=> pte'[r][x].cow = 0
    BY DEF WritableIsPrivate, Present, Mappings
  <2>2. \A f : Mappings(f)' = {m \in Procs \X Pages : pte'[m[1]][m[2]].f = f}
    BY DEF Mappings
  <2>3. ASSUME NEW x \in Pages
        PROVE  pte'[p][x].rw = 0 /\ pte'[p][x].cow = 1 /\ pte'[q][x].rw = 0 /\ pte'[q][x].cow = 1
    <3>1. pte'[p][x] = Shared(pte[p][x].f) /\ pte'[q][x] = Shared(pte[p][x].f)
      BY <1>1
    <3>2. QED
      BY <1>9, <3>1
  <2>4. ASSUME NEW r \in Procs, NEW x \in Pages, pte'[r][x].f # NoFrame
        PROVE  /\ pte'[r][x].rw = 1 => {m \in Procs \X Pages : pte'[m[1]][m[2]].f = pte'[r][x].f} = {<<r, x>>}
               /\ pte'[r][x].rw = 1 <=> pte'[r][x].cow = 0
    <3>1. CASE r \in {p, q}
      BY <2>3, <3>1
    <3>2. CASE r \notin {p, q}
      BY <1>11, <2>2, <2>4, <3>2
    <3>3. QED
      BY <3>1, <3>2
  <2>5. QED
    BY <2>1, <2>4
<1>13. Contents'
  <2>1. \A f \in Frames : Mappings(f)' = {} => data'[f] = ImageValue
    <3>1. ASSUME NEW f \in Frames, Mappings(f)' = {} PROVE Mappings(f) = {}
      BY <1>1, <3>1
    <3>2. QED
      BY <3>1 DEF FrameInv, Contents
  <2>2. ASSUME NEW r \in Procs, pstate'[r] = "building", NEW x \in ImagePages, pte'[r][x].f # NoFrame
        PROVE  pte'[r][x].rw = 1 /\ data'[pte'[r][x].f] = ImageValue
    <3>1. r \notin {p, q} /\ pstate[r] = "building"
      BY <1>0, <2>2 DEF TypeOK
    <3>2. pte'[r][x] = pte[r][x]
      BY <1>1, <3>1
    <3>3. QED
      BY <2>2, <3>1, <3>2 DEF FrameInv, Contents, Present
  <2>3. QED
    BY <2>1, <2>2 DEF Contents, Present
<1>14. QED
  BY <1>7, <1>8, <1>10, <1>12, <1>13 DEF FrameInv

LEMMA ForkFrames ==
    ASSUME FrameInv, Cardinality(Procs) < RefModulus, NEW p \in Procs, NEW q \in Procs, Fork(p, q)
    PROVE  FrameInv'
<1>1. CASE UncheckedOOM
  BY <1>1, QuietSteps
<1>2. CASE ~UncheckedOOM
  <2>2. PICK need : need = IF fbTable[p] # NoFrame THEN 3 ELSE 2
    OBVIOUS
  <2>3. PICK F : F = {Nth(i) : i \in 1..need}
    OBVIOUS
  <2>4. PICK d, t, b : d = Nth(1) /\ t = Nth(2) /\ b = IF fbTable[p] # NoFrame THEN Nth(3) ELSE NoFrame
    OBVIOUS
  <2>5. /\ pstate[p] = "live" /\ pstate[q] = "none" /\ Left >= need
        /\ used' = used \cup F /\ refs' = ForkedRefs(p, F) /\ pte' = ForkedPages(p, q)
        /\ dir' = [dir EXCEPT ![q] = d] /\ table' = [table EXCEPT ![q] = t]
        /\ fbTable' = [fbTable EXCEPT ![q] = b]
        /\ hasKfb' = [hasKfb EXCEPT ![q] = IF kfb = NoFrame THEN 0 ELSE 1]
        /\ pstate' = [pstate EXCEPT ![q] = "live"] /\ UNCHANGED <<data, kfb, fault>>
    BY <1>2, <2>2, <2>3, <2>4 DEF Fork, ForkedRefs, ForkedPages
  <2>6. \A i \in 1..need : i \in 1..Left /\ Nth(i) \in Frames /\ Nth(i) \notin used /\ Nth(i) # NoFrame
    BY <2>2, <2>5, LeftIsNat, FreshFrame
  <2>7. \A i, j \in 1..need : Nth(i) = Nth(j) => i = j
    BY <2>6, NthAreDistinct
  <2>8. F \in SUBSET Frames /\ F \cap used = {}
    BY <2>3, <2>6
  <2>9. d \in F /\ t \in F /\ b \in F \cup {NoFrame} /\ d # t /\ d # b /\ F \subseteq {d, t, b}
    <3>1. CASE fbTable[p] # NoFrame
      <4>1. 1..need = {1, 2, 3}
        BY <2>2, <3>1
      <4>2. QED
        BY <2>3, <2>4, <2>7, <3>1, <4>1
    <3>2. CASE fbTable[p] = NoFrame
      <4>1. 1..need = {1, 2}
        BY <2>2, <3>2
      <4>2. QED
        BY <2>3, <2>4, <2>6, <2>7, <3>2, <4>1
    <3>3. QED
      BY <3>1, <3>2
  <2>10. QED
    BY <2>5, <2>8, <2>9, ForkedFrames
<1>3. QED
  BY <1>1, <1>2

----------------------------------------------------------------------------
(* exec                                                                    *)

\* The entries of one process change to frames of their own.
LEMMA RowIsMade ==
    ASSUME FrameInv, NEW p \in Procs, NEW page \in [Pages -> Frames],
           pte' = [pte EXCEPT ![p] = [pg \in Pages |-> Private(page[pg])]]
    PROVE  /\ \A x \in Pages : pte'[p][x] = Private(page[x]) /\ pte'[p][x].f = page[x]
           /\ \A r \in Procs \ {p} : pte'[r] = pte[r]
           /\ pte' \in [Procs -> [Pages -> PTEs]]
           /\ \A f \in Frames : Mappings(f)' = {m \in Mappings(f) : m[1] # p} \cup {<<p, x>> : x \in {y \in Pages : page[y] = f}}
<1>1. pte \in [Procs -> [Pages -> PTEs]]
  BY DEF FrameInv, TypeOK
<1>2. \A f \in Frames : Private(f) \in PTEs /\ Private(f).f = f
  BY DEF Private, PTEs
<1>3. pte' \in [Procs -> [Pages -> PTEs]]
  BY <1>1, <1>2
<1>4. /\ \A x \in Pages : pte'[p][x] = Private(page[x]) /\ pte'[p][x].f = page[x]
      /\ \A r \in Procs \ {p} : pte'[r] = pte[r]
  <2>1. \A x \in Pages : pte'[p][x] = Private(page[x])
    BY <1>1
  <2>2. \A r \in Procs \ {p} : pte'[r] = pte[r]
    BY <1>1
  <2>3. QED
    BY <1>2, <2>1, <2>2
<1>5. ASSUME NEW f \in Frames, NEW m \in Procs \X Pages
      PROVE  m \in Mappings(f)' <=> \/ m \in Mappings(f) /\ m[1] # p
                                    \/ \E x \in Pages : page[x] = f /\ m = <<p, x>>
  <2>1. m = <<m[1], m[2]>> /\ m[1] \in Procs /\ m[2] \in Pages
    OBVIOUS
  <2>2. m \in Mappings(f)' <=> pte'[m[1]][m[2]].f = f
    BY DEF Mappings
  <2>3. m \in Mappings(f) <=> pte[m[1]][m[2]].f = f
    BY <2>1, MappingsAre
  <2>4. CASE m[1] = p
    <3>1. \A x \in Pages : m = <<p, x>> <=> m[2] = x
      BY <2>1, <2>4
    <3>2. QED
      BY <1>4, <2>1, <2>2, <2>4, <3>1
  <2>5. CASE m[1] # p
    BY <1>4, <2>1, <2>2, <2>3, <2>5
  <2>6. QED
    BY <2>4, <2>5
<1>6. ASSUME NEW f \in Frames
      PROVE  Mappings(f)' = {m \in Mappings(f) : m[1] # p} \cup {<<p, x>> : x \in {y \in Pages : page[y] = f}}
  <2>1. Mappings(f)' \subseteq Procs \X Pages /\ Mappings(f) \subseteq Procs \X Pages
    BY DEF Mappings
  <2>2. \A x \in Pages : <<p, x>> \in Procs \X Pages
    OBVIOUS
  <2>3. QED
    BY <1>5, <2>1, <2>2
<1>7. QED
  BY <1>3, <1>4, <1>6

ExecedRefs(p, F) == [f \in Frames |-> IF f \in F THEN 1 ELSE FreedRefs(FramesOf(p))[f]]
ExecedPages(p, page) == [pte EXCEPT ![p] = [pg \in Pages |-> Private(page[pg])]]

\* What a frame of the old address space loses.
LEMMA OldFrames ==
    ASSUME FrameInv, NEW p \in Procs, NEW f \in Frames
    PROVE  /\ f \in FramesOf(p) <=> (\E x \in Pages : pte[p][x].f = f) \/ p \in Structures(f)
           /\ f \in FramesOf(p) => f \in used /\ refs[f] >= 1
           /\ refs[f] \in Nat
<1>1. f # NoFrame /\ refs[f] \in Nat
  BY FramesFinite, RefsAreNat DEF FrameInv
<1>2. f \in FramesOf(p) <=> (\E x \in Pages : pte[p][x].f = f) \/ p \in Structures(f)
  BY <1>1 DEF FramesOf, Structures, Present
<1>3. ASSUME NEW x \in Pages, pte[p][x].f = f PROVE f \in used
  BY <1>3, UnusedFrame
<1>4. ASSUME p \in Structures(f) PROVE f \in used
  BY <1>4, UnusedFrame
<1>5. f \in FramesOf(p) => f \in used
  BY <1>2, <1>3, <1>4
<1>6. f \in used => refs[f] >= 1
  BY <1>1 DEF FrameInv, FrameOK
<1>7. QED
  BY <1>1, <1>2, <1>5, <1>6

\* The new directory d, table t and pages.
LEMMA ExecedFrames ==
    ASSUME FrameInv, NEW p \in Procs, pstate[p] = "live",
           NEW F \in SUBSET Frames, F \cap used = {}, NEW d \in F, NEW t \in F, d # t,
           NEW page \in [Pages -> F], \A x, y \in Pages : page[x] = page[y] => x = y,
           \A x \in Pages : page[x] # d /\ page[x] # t,
           \A f \in F : f = d \/ f = t \/ \E x \in Pages : page[x] = f,
           used' = FreedUsed(FramesOf(p)) \cup F, refs' = ExecedRefs(p, F), pte' = ExecedPages(p, page),
           NEW v \in Values, data' = [Forget(FramesOf(p)) EXCEPT ![page[StackPage]] = v],
           dir' = [dir EXCEPT ![p] = d], table' = [table EXCEPT ![p] = t],
           fbTable' = [fbTable EXCEPT ![p] = NoFrame],
           hasKfb' = [hasKfb EXCEPT ![p] = IF kfb = NoFrame THEN 0 ELSE 1],
           UNCHANGED <<pstate, kfb, fault>>
    PROVE  FrameInv'
<1>0. TypeOK /\ page \in [Pages -> Frames]
  BY DEF FrameInv
<1>1. /\ \A x \in Pages : pte'[p][x] = Private(page[x]) /\ pte'[p][x].f = page[x]
      /\ \A r \in Procs \ {p} : pte'[r] = pte[r]
      /\ pte' \in [Procs -> [Pages -> PTEs]]
      /\ \A f \in Frames : Mappings(f)' = {m \in Mappings(f) : m[1] # p} \cup {<<p, x>> : x \in {y \in Pages : page[y] = f}}
  BY <1>0, RowIsMade DEF ExecedPages
<1>2. ASSUME NEW f \in Frames
      PROVE  /\ f \in F => refs'[f] = 1 /\ f \in used' /\ f \notin used /\ f \notin FramesOf(p)
             /\ f \in FramesOf(p) => refs'[f] = refs[f] - 1 /\ (f \in used' <=> refs[f] # 1)
             /\ f \notin F /\ f \notin FramesOf(p) => refs'[f] = refs[f] /\ (f \in used' <=> f \in used)
             /\ refs'[f] \in 0..(RefModulus - 1)
  <2>1. /\ f \in FramesOf(p) => f \in used /\ refs[f] >= 1
        /\ refs[f] \in Nat /\ refs[f] \in 0..(RefModulus - 1)
    BY <1>0, OldFrames DEF TypeOK
  <2>2. f \in F => f \notin used
    OBVIOUS
  <2>3. refs'[f] = IF f \in F THEN 1 ELSE IF f \in FramesOf(p) /\ refs[f] > 0 THEN refs[f] - 1 ELSE refs[f]
    BY DEF ExecedRefs, FreedRefs
  <2>4. f \in used' <=> f \in F \/ (f \in used /\ ~(f \in FramesOf(p) /\ refs[f] = 1))
    BY DEF FreedUsed
  <2>5. QED
    BY <2>1, <2>2, <2>3, <2>4, AddressSpacesAssumption
<1>3. ASSUME NEW f \in F
      PROVE  /\ Mappings(f) = {} /\ Structures(f) = {} /\ f # kfb
             /\ \A r \in Procs, x \in Pages : pte[r][x].f # f
  BY UnusedFrame
<1>4. dir'[p] = d /\ table'[p] = t /\ fbTable'[p] = NoFrame
      /\ \A r \in Procs \ {p} : dir'[r] = dir[r] /\ table'[r] = table[r] /\ fbTable'[r] = fbTable[r]
  BY <1>0 DEF TypeOK
<1>5. ASSUME NEW f \in Frames
      PROVE  Structures(f)' = IF f \in {d, t} THEN Structures(f) \cup {p} ELSE Structures(f) \ {p}
  <2>1. Structures(f)' = IF f \in {dir'[p], table'[p], fbTable'[p]} THEN Structures(f) \cup {p} ELSE Structures(f) \ {p}
    BY <1>4, TablesChange
  <2>2. QED
    BY <1>4, <2>1, FramesFinite
<1>6. ASSUME NEW f \in Frames, f \notin F, NEW x \in Pages, pte[p][x].f = f
      PROVE  <<p, x>> \in Mappings(f) /\ Mappings(f)' = Mappings(f) \ {<<p, x>>}
  <2>1. <<p, x>> \in Mappings(f) /\ Mappings(f) \subseteq Procs \X Pages /\ FrameOK(f)
    BY <1>6, MappingsAre DEF FrameInv
  <2>2. \A y \in Pages : page[y] # f
    BY <1>6
  <2>3. ASSUME NEW m \in Mappings(f) PROVE m[1] # p <=> m # <<p, x>>
    <3>1. m[2] = <<p, x>>[2] /\ m = <<m[1], m[2]>>
      BY <2>1 DEF FrameOK
    <3>2. QED
      BY <3>1
  <2>4. Mappings(f)' = {m \in Mappings(f) : m[1] # p}
    BY <1>1, <2>2
  <2>5. QED
    BY <2>1, <2>3, <2>4
<1>7. ASSUME NEW f \in Frames, f \notin F, \A x \in Pages : pte[p][x].f # f
      PROVE  Mappings(f)' = Mappings(f)
  <2>1. Mappings(f) \subseteq Procs \X Pages
    BY MappingsAre
  <2>2. \A y \in Pages : page[y] # f
    BY <1>7
  <2>3. ASSUME NEW m \in Mappings(f) PROVE m[1] # p
    BY <1>7, <2>1 DEF Mappings
  <2>4. Mappings(f)' = {m \in Mappings(f) : m[1] # p}
    BY <1>1, <2>2
  <2>5. QED
    BY <2>3, <2>4
<1>8. ASSUME NEW x \in Pages, NEW f, f = page[x] PROVE Mappings(f)' = {<<p, x>>}
  <2>1. f \in F /\ f \in Frames /\ Mappings(f) = {}
    BY <1>3, <1>8
  <2>2. {y \in Pages : page[y] = f} = {x}
    BY <1>8
  <2>3. Mappings(f)' = {m \in Mappings(f) : m[1] # p} \cup {<<p, y>> : y \in {x}}
    BY <1>1, <2>1, <2>2
  <2>4. QED
    BY <2>1, <2>3
<1>9. ASSUME NEW f \in Frames PROVE FrameOK(f)'
  <2>1. FrameOK(f) /\ kfb' = kfb /\ refs[f] \in Nat
    BY <1>0, RefsAreNat DEF FrameInv
  <2>2. CASE f \in {d, t}
    <3>1. f \in F /\ {y \in Pages : page[y] = f} = {}
      BY <2>2
    <3>2. Mappings(f)' = {}
      BY <1>1, <1>3, <3>1
    <3>3. Structures(f)' = {p} /\ f # kfb' /\ refs'[f] = 1 /\ f \in used'
      BY <1>2, <1>3, <1>5, <2>1, <2>2, <3>1
    <3>4. QED
      BY <3>2, <3>3, FrameStructured
  <2>3. CASE f \in F /\ f \notin {d, t}
    <3>1. PICK x \in Pages : page[x] = f
      BY <2>3
    <3>2. Mappings(f)' = {<<p, x>>} /\ Structures(f)' = {} /\ f # kfb' /\ refs'[f] = 1 /\ f \in used'
      BY <1>2, <1>3, <1>5, <1>8, <2>1, <2>3, <3>1
    <3>3. QED
      BY <3>2, FrameMapped
  <2>4. CASE f \notin F /\ \E x \in Pages : pte[p][x].f = f
    <3>1. PICK x \in Pages : pte[p][x].f = f
      BY <2>4
    <3>2. <<p, x>> \in Mappings(f) /\ Mappings(f)' = Mappings(f) \ {<<p, x>>}
      BY <1>6, <2>4, <3>1
    <3>3. Structures(f)' = Structures(f)
      <4>1. Structures(f) = {}
        BY <2>1, <3>2 DEF FrameOK
      <4>2. QED
        BY <1>5, <2>4, <4>1
    <3>4. f \in FramesOf(p)
      BY <3>1, OldFrames
    <3>5. refs'[f] = refs[f] - 1 /\ (f \in used' <=> refs[f] # 1)
      BY <1>2, <3>4
    <3>6. QED
      BY <2>1, <3>2, <3>3, <3>5, FrameUnmapped
  <2>5. CASE f \notin F /\ (\A x \in Pages : pte[p][x].f # f) /\ p \in Structures(f)
    <3>1. Mappings(f)' = Mappings(f) /\ Structures(f)' = Structures(f) \ {p}
      BY <1>5, <1>7, <2>5
    <3>2. f \in FramesOf(p) /\ refs[f] = 1
      BY <2>5, OldFrames, StructureFrame
    <3>3. refs'[f] = refs[f] - 1 /\ f \notin used'
      BY <1>2, <3>2
    <3>4. QED
      BY <2>1, <2>5, <3>1, <3>3, FrameUnstructured
  <2>6. CASE f \notin F /\ (\A x \in Pages : pte[p][x].f # f) /\ p \notin Structures(f)
    <3>1. Mappings(f)' = Mappings(f) /\ Structures(f)' = Structures(f)
      <4>1. Mappings(f)' = Mappings(f)
        BY <1>7, <2>6
      <4>2. f \notin {d, t}
        BY <2>6
      <4>3. Structures(f)' = Structures(f)
        <5>1. Structures(f)' = Structures(f) \ {p}
          BY <1>5, <4>2
        <5>2. QED
          BY <2>6, <5>1
      <4>4. QED
        BY <4>1, <4>3
    <3>2. f \notin FramesOf(p)
      BY <2>6, OldFrames
    <3>3. refs'[f] = refs[f] /\ (f \in used' <=> f \in used)
      BY <1>2, <2>6, <3>2
    <3>4. QED
      BY <2>1, <3>1, <3>3, FrameKept
  <2>7. QED
    BY <2>2, <2>3, <2>4, <2>5, <2>6
<1>10. StackPage \in Pages /\ page[StackPage] \in F /\ \A x \in ImagePages : x \in Pages /\ x # StackPage
  BY AddressSpacesAssumption DEF Pages, StackPage, ImagePages
<1>11. /\ \A f \in Frames \ {page[StackPage]} :
             data'[f] = IF f \in FramesOf(p) /\ refs[f] = 1 THEN ImageValue ELSE data[f]
       /\ data'[page[StackPage]] = v /\ data' \in [Frames -> Values]
  <2>1. data \in [Frames -> Values]
    BY <1>0 DEF TypeOK
  <2>2. Forget(FramesOf(p)) \in [Frames -> Values]
    BY <2>1, AddressSpacesAssumption DEF Forget
  <2>3. \A f \in Frames : Forget(FramesOf(p))[f] = IF f \in FramesOf(p) /\ refs[f] = 1 THEN ImageValue ELSE data[f]
    BY DEF Forget
  <2>4. QED
    BY <1>10, <2>2, <2>3
<1>12. TypeOK'
  <2>1. refs' \in [Frames -> 0..(RefModulus - 1)]
    <3>1. refs' = [f \in Frames |-> refs'[f]]
      BY DEF ExecedRefs
    <3>2. QED
      BY <1>2, <3>1
  <2>2. used' \subseteq Frames
    BY <1>0 DEF TypeOK, FreedUsed
  <2>3. QED
    BY <1>0, <1>1, <1>11, <2>1, <2>2 DEF TypeOK
<1>13. Lifecycle'
  <2>1. d # NoFrame /\ t # NoFrame /\ \A x \in Pages : page[x] # NoFrame
    BY <1>0, FramesFinite
  <2>2. \A x \in Pages : Present(p, x)'
    BY <1>1, <2>1 DEF Present
  <2>3. \A r \in Procs \ {p}, x \in Pages : Present(r, x)' <=> Present(r, x)
    BY <1>1 DEF Present
  <2>4. ASSUME NEW r \in Procs
        PROVE /\ pstate'[r] = "none" => /\ dir'[r] = NoFrame /\ table'[r] = NoFrame /\ fbTable'[r] = NoFrame
                                        /\ \A x \in Pages : ~Present(r, x)'
              /\ pstate'[r] # "none" => dir'[r] # NoFrame /\ dir'[r] # table'[r] /\ dir'[r] # fbTable'[r]
              /\ pstate'[r] = "live" => table'[r] # NoFrame /\ \A x \in Pages : Present(r, x)'
              /\ pstate'[r] = "building" => ~Present(r, StackPage)' /\ fbTable'[r] = NoFrame
              /\ \A x \in Pages : Present(r, x)' => table'[r] # NoFrame
    <3>1. CASE r = p
      BY <1>4, <2>1, <2>2, <3>1
    <3>2. CASE r # p
      BY <1>4, <1>10, <2>3, <3>2 DEF FrameInv, Lifecycle
    <3>3. QED
      BY <3>1, <3>2
  <2>5. QED
    BY <2>4 DEF Lifecycle
<1>14. ASSUME NEW r \in Procs \ {p}, NEW x \in Pages, NEW f, f = pte[r][x].f, f # NoFrame, pte[r][x].rw = 1
       PROVE  f \in Frames /\ f \notin F /\ Mappings(f)' = {<<r, x>>} /\ f \notin FramesOf(p)
  <2>1. Mappings(f) = {<<r, x>>}
    BY <1>14 DEF FrameInv, WritableIsPrivate, Present
  <2>2. f \in Frames /\ f \notin F
    BY <1>0, <1>3, <1>14 DEF TypeOK, PTEs
  <2>3. \A y \in Pages : pte[p][y].f # f
    BY <2>1, MappingsAre
  <2>4. Structures(f) = {}
    BY <2>1, <2>2 DEF FrameInv, FrameOK
  <2>5. f \notin FramesOf(p)
    BY <2>2, <2>3, <2>4, OldFrames
  <2>6. QED
    BY <1>7, <2>1, <2>2, <2>3, <2>5
<1>15. WritableIsPrivate'
  <2>1. WritableIsPrivate' <=>
          \A r \in Procs, x \in Pages : pte'[r][x].f # NoFrame =>
              /\ pte'[r][x].rw = 1 => {m \in Procs \X Pages : pte'[m[1]][m[2]].f = pte'[r][x].f} = {<<r, x>>}
              /\ pte'[r][x].rw = 1 <=> pte'[r][x].cow = 0
    BY DEF WritableIsPrivate, Present, Mappings
  <2>2. \A f : Mappings(f)' = {m \in Procs \X Pages : pte'[m[1]][m[2]].f = f}
    BY DEF Mappings
  <2>3. ASSUME NEW r \in Procs, NEW x \in Pages, pte'[r][x].f # NoFrame
        PROVE  /\ pte'[r][x].rw = 1 => {m \in Procs \X Pages : pte'[m[1]][m[2]].f = pte'[r][x].f} = {<<r, x>>}
               /\ pte'[r][x].rw = 1 <=> pte'[r][x].cow = 0
    <3>1. PICK f : f = pte'[r][x].f
      OBVIOUS
    <3>2. CASE r = p
      <4>1. pte'[p][x] = Private(page[x]) /\ f = page[x]
        BY <1>1, <3>1, <3>2
      <4>2. pte'[p][x].rw = 1 /\ pte'[p][x].cow = 0
        BY <4>1 DEF Private
      <4>3. Mappings(f)' = {<<p, x>>}
        BY <1>8, <4>1
      <4>4. QED
        BY <2>2, <3>1, <3>2, <4>2, <4>3
    <3>3. CASE r # p
      <4>1. pte'[r][x] = pte[r][x]
        BY <1>1, <3>3
      <4>2. pte[r][x].rw = 1 <=> pte[r][x].cow = 0
        BY <2>3, <4>1 DEF FrameInv, WritableIsPrivate, Present
      <4>3. pte[r][x].rw = 1 => Mappings(f)' = {<<r, x>>}
        BY <1>14, <2>3, <3>1, <3>3, <4>1
      <4>4. QED
        BY <2>2, <3>1, <4>1, <4>2, <4>3
    <3>4. QED
      BY <3>2, <3>3
  <2>4. QED
    BY <2>1, <2>3
<1>16. Contents'
  <2>1. ASSUME NEW f \in Frames, Mappings(f)' = {} PROVE data'[f] = ImageValue
    <3>1. f # page[StackPage]
      <4>1. ASSUME f = page[StackPage] PROVE Mappings(f)' = {<<p, StackPage>>}
        BY <1>8, <1>10, <4>1
      <4>2. QED
        BY <2>1, <4>1
    <3>2. CASE f \in F \/ Mappings(f) = {}
      BY <1>3, <1>11, <3>1, <3>2 DEF FrameInv, Contents
    <3>3. CASE f \notin F /\ Mappings(f) # {}
      <4>1. PICK x \in Pages : pte[p][x].f = f
        BY <1>7, <2>1, <3>3
      <4>2. Mappings(f) = {<<p, x>>}
        <5>1. <<p, x>> \in Mappings(f) /\ Mappings(f)' = Mappings(f) \ {<<p, x>>}
          BY <1>6, <3>3, <4>1
        <5>2. QED
          BY <2>1, <5>1
      <4>3. f = pte[p][x].f /\ f # NoFrame
        BY <4>1, FramesFinite
      <4>5. refs[f] = 1
        BY <4>2, <4>3, MappedOnce
      <4>6. f \in FramesOf(p)
        BY <4>1, OldFrames
      <4>7. QED
        BY <1>11, <3>1, <4>5, <4>6
    <3>4. QED
      BY <3>2, <3>3
  <2>2. ASSUME NEW r \in Procs, pstate'[r] = "building", NEW x \in ImagePages, pte'[r][x].f # NoFrame
        PROVE  pte'[r][x].rw = 1 /\ data'[pte'[r][x].f] = ImageValue
    <3>1. r # p /\ pstate[r] = "building" /\ x \in Pages
      BY <1>10, <2>2
    <3>2. pte'[r][x] = pte[r][x]
      BY <1>1, <3>1
    <3>3. PICK f : f = pte[r][x].f
      OBVIOUS
    <3>4. pte[r][x].rw = 1 /\ data[f] = ImageValue
      BY <2>2, <3>1, <3>2, <3>3 DEF FrameInv, Contents, Present
    <3>5. f \in Frames /\ f \notin F /\ f \notin FramesOf(p)
      BY <1>14, <2>2, <3>1, <3>2, <3>3, <3>4
    <3>6. QED
      BY <1>10, <1>11, <3>2, <3>3, <3>4, <3>5
  <2>3. QED
    BY <2>1, <2>2 DEF Contents, Present
<1>17. QED
  BY <1>9, <1>12, <1>13, <1>15, <1>16 DEF FrameInv

LEMMA ExecFrames ==
    ASSUME FrameInv, NEW p \in Procs, Exec(p)
    PROVE  FrameInv'
<1>1. CASE UncheckedOOM
  BY <1>1, QuietSteps
<1>2. CASE fault' = "fbfreed" /\ UNCHANGED <<frameVars, data, procVars, pte, kfb>>
  <2>1. /\ UNCHANGED <<used, refs, data, pstate, dir, table, fbTable, pte, kfb, hasKfb>>
        /\ UNCHANGED <<frameVars, dir, table, fbTable, pte, kfb, hasKfb>>
    BY <1>2 DEF frameVars, procVars
  <2>2. TypeOK'
    BY <1>2, <2>1 DEF FrameInv, TypeOK
  <2>3. QED
    BY <2>1, <2>2, QuietFrames
<1>3. CASE ~UncheckedOOM /\ ~(fault' = "fbfreed" /\ UNCHANGED <<frameVars, data, procVars, pte, kfb>>)
  <2>1. PICK F : F = {Nth(i) : i \in 1..ExecNeeds}
    OBVIOUS
  <2>2. PICK page : page = [pg \in Pages |-> Nth(IF pg = 1 THEN 2 ELSE pg + 2)]
    OBVIOUS
  <2>3. PICK d, t : d = Nth(1) /\ t = Nth(3)
    OBVIOUS
  <2>4. StackPage \in Pages /\ page[StackPage] = Nth(IF StackPage = 1 THEN 2 ELSE StackPage + 2)
        /\ \A pg \in Pages : page[pg] = Nth(IF pg = 1 THEN 2 ELSE pg + 2)
    BY <2>2, AddressSpacesAssumption DEF Pages, StackPage
  <2>5. [pg \in Pages |-> Private(Nth(IF pg = 1 THEN 2 ELSE pg + 2))] = [pg \in Pages |-> Private(page[pg])]
    BY <2>4
  <2>6. /\ pstate[p] = "live" /\ Left >= ExecNeeds
        /\ used' = FreedUsed(FramesOf(p)) \cup F /\ refs' = ExecedRefs(p, F)
        /\ pte' = ExecedPages(p, page)
        /\ \E v \in Values : data' = [Forget(FramesOf(p)) EXCEPT ![page[StackPage]] = v]
        /\ dir' = [dir EXCEPT ![p] = d] /\ table' = [table EXCEPT ![p] = t]
        /\ fbTable' = [fbTable EXCEPT ![p] = NoFrame]
        /\ hasKfb' = [hasKfb EXCEPT ![p] = IF kfb = NoFrame THEN 0 ELSE 1]
        /\ UNCHANGED <<pstate, kfb, fault>>
    BY <1>3, <2>1, <2>3, <2>4, <2>5 DEF Exec, ExecedRefs, ExecedPages
  <2>7. PICK v \in Values : data' = [Forget(FramesOf(p)) EXCEPT ![page[StackPage]] = v]
    BY <2>6
  <2>8. NImage \in Nat /\ NImage >= 1 /\ ExecNeeds = NImage + 3 /\ Pages = 1..(NImage + 1) /\ Left \in Nat
    BY LeftIsNat, AddressSpacesAssumption DEF ExecNeeds, Pages, StackPage
  <2>9. \A i \in 1..ExecNeeds : i \in 1..Left /\ Nth(i) \in Frames /\ Nth(i) \notin used
    BY <2>6, <2>8, FreshFrame
  <2>10. \A i, j \in 1..ExecNeeds : Nth(i) = Nth(j) => i = j
    BY <2>9, NthAreDistinct
  <2>11. F \in SUBSET Frames /\ F \cap used = {} /\ d \in F /\ t \in F /\ d # t
    <3>1. 1 \in 1..ExecNeeds /\ 3 \in 1..ExecNeeds
      BY <2>8
    <3>2. QED
      BY <2>1, <2>3, <2>9, <2>10, <3>1
  <2>12. ASSUME NEW x \in Pages
         PROVE  (IF x = 1 THEN 2 ELSE x + 2) \in 1..ExecNeeds /\ (IF x = 1 THEN 2 ELSE x + 2) \notin {1, 3}
    BY <2>8
  <2>13. page \in [Pages -> F]
    BY <2>1, <2>2, <2>12
  <2>14. \A x, y \in Pages : page[x] = page[y] => x = y
    <3>1. ASSUME NEW x \in Pages, NEW y \in Pages, page[x] = page[y] PROVE x = y
      <4>1. (IF x = 1 THEN 2 ELSE x + 2) = (IF y = 1 THEN 2 ELSE y + 2)
        BY <2>4, <2>10, <2>12, <3>1
      <4>2. QED
        BY <2>8, <4>1
    <3>2. QED
      BY <3>1
  <2>15. \A x \in Pages : page[x] # d /\ page[x] # t
    <3>1. 1 \in 1..ExecNeeds /\ 3 \in 1..ExecNeeds
      BY <2>8
    <3>2. QED
      BY <2>3, <2>4, <2>10, <2>12, <3>1
  <2>16. \A f \in F : f = d \/ f = t \/ \E x \in Pages : page[x] = f
    <3>1. ASSUME NEW i \in 1..ExecNeeds
          PROVE  i = 1 \/ i = 3 \/ \E x \in Pages : (IF x = 1 THEN 2 ELSE x + 2) = i
      <4>1. CASE i = 2
        BY <2>8, <4>1
      <4>2. CASE i \notin {1, 2, 3}
        <5>1. i - 2 \in Pages /\ i - 2 # 1 /\ (i - 2) + 2 = i
          BY <2>8, <4>2
        <5>2. QED
          BY <5>1
      <4>3. QED
        BY <4>1, <4>2
    <3>2. QED
      BY <2>1, <2>3, <2>4, <3>1
  <2>17. QED
    BY <2>6, <2>7, <2>11, <2>13, <2>14, <2>15, <2>16, ExecedFrames
<1>4. QED
  BY <1>1, <1>2, <1>3

----------------------------------------------------------------------------
LEMMA InitFrames == Init => FrameInv
<1> SUFFICES ASSUME Init PROVE FrameInv
  OBVIOUS
<1>1. \A p \in Procs, pg \in Pages : pte[p][pg] = Absent /\ pte[p][pg].f = NoFrame
  BY DEF Init, NoPages, Absent
<1>2. ASSUME NEW f \in Frames PROVE FrameOK(f) /\ Mappings(f) = {}
  <2>1. f # NoFrame
    BY FramesFinite
  <2>2. Mappings(f) = {}
    BY <1>1, <2>1 DEF Mappings
  <2>3. Structures(f) = {} /\ f # kfb
    BY <2>1 DEF Init, Structures, TablesOf
  <2>4. refs[f] = 0 /\ f \notin used
    BY DEF Init
  <2>5. Cardinality({}) = 0
    BY FS_EmptySet
  <2>6. QED
    BY <2>2, <2>3, <2>4, <2>5 DEF FrameOK
<1>3. TypeOK
  BY AddressSpacesAssumption DEF Init, TypeOK, NoPages, Absent, PTEs
<1>4. Lifecycle
  BY <1>1 DEF Init, Lifecycle, Present
<1>5. WritableIsPrivate
  BY <1>1 DEF WritableIsPrivate, Present
<1>6. Contents
  BY <1>1 DEF Init, Contents
<1>7. QED
  BY <1>2, <1>3, <1>4, <1>5, <1>6 DEF FrameInv

\* No step breaks the account of the frames, provided there are fewer address
\* spaces than an unsigned char counts.
LEMMA NextFrames ==
    ASSUME FrameInv, Cardinality(Procs) < RefModulus, [Next]_vars
    PROVE  FrameInv'
<1>1. CASE UNCHANGED vars
  <2>1. UNCHANGED <<used, refs, data, pstate, dir, table, fbTable, pte, kfb, hasKfb, fault>>
    BY <1>1 DEF vars
  <2>2. UNCHANGED <<frameVars, dir, table, fbTable, pte, kfb, hasKfb>> /\ TypeOK'
    BY <2>1 DEF FrameInv, TypeOK, frameVars
  <2>3. QED
    BY <2>1, <2>2, QuietFrames
<1>2. CASE GuiInit
  <2>1. PICK p \in Procs : TRUE
    BY AddressSpacesAssumption
  <2>2. QED
    BY <1>2, GuiFrames
<1>3. ASSUME NEW p \in Procs,
             \/ StartBuild(p) \/ LoadFails(p) \/ MapStackAndStart(p)
             \/ Exec(p) \/ ExecAborts(p) \/ Exit(p) \/ ReapRest(p) \/ MapFb(p)
      PROVE  FrameInv'
  BY <1>3, StartBuildFrames, QuietSteps, LoadFrames, ExecFrames, ReapRestFrames, GuiFrames
<1>4. ASSUME NEW p \in Procs, NEW q \in Procs, Fork(p, q) PROVE FrameInv'
  BY <1>4, ForkFrames
<1>5. ASSUME NEW p \in Procs, NEW pg \in Pages,
             \/ LoadPage(p, pg) \/ CowFault(p, pg) \/ ReapPage(p, pg)
             \/ \E v \in Values : Store(p, pg, v) \/ KernelStore(p, pg, v)
      PROVE  FrameInv'
  BY <1>5, LoadFrames, CowFaultFrames, ReapPageFrames, QuietSteps
<1>6. QED
  BY <1>1, <1>2, <1>3, <1>4, <1>5 DEF Next

LEMMA FrameInvImplies ==
    ASSUME FrameInv
    PROVE  FramesAreSound /\ WritableIsPrivate
<1>1. TypeOK /\ RefcountsExact
  BY DEF FrameInv, FrameOK, RefcountsExact
<1>2. StructuresAreExclusive
  <2>1. ASSUME NEW f \in Frames, Structures(f) # {} \/ f = kfb
        PROVE  /\ Mappings(f) = {}
               /\ Cardinality(Structures(f)) + (IF f = kfb THEN 1 ELSE 0) = 1
               /\ \A p \in Procs : dir[p] = f => f \notin TablesOf(p)
    <3>1. FrameOK(f) /\ f # NoFrame
      BY FramesFinite DEF FrameInv
    <3>2. Mappings(f) = {}
      BY <2>1, <3>1 DEF FrameOK
    <3>3. Cardinality(Structures(f)) + (IF f = kfb THEN 1 ELSE 0) = 1
      <4>1. CASE f = kfb
        <5>1. Structures(f) = {} /\ Cardinality({}) = 0
          BY <3>1, <4>1, FS_EmptySet DEF FrameOK
        <5>2. QED
          BY <4>1, <5>1
      <4>2. CASE f # kfb
        <5>1. PICK p : p \in Structures(f)
          BY <2>1, <4>2
        <5>2. Structures(f) = {p} /\ Cardinality({p}) = 1
          BY <2>1, <3>1, <5>1, FS_Singleton DEF FrameOK
        <5>3. QED
          BY <4>2, <5>2
      <4>3. QED
        BY <4>1, <4>2
    <3>4. ASSUME NEW p \in Procs, dir[p] = f PROVE f \notin TablesOf(p)
      <4>1. pstate[p] # "none"
        BY <3>1, <3>4 DEF FrameInv, Lifecycle
      <4>2. QED
        BY <3>4, <4>1 DEF FrameInv, Lifecycle, TablesOf
    <3>5. QED
      BY <3>2, <3>3, <3>4
  <2>2. QED
    BY <2>1 DEF StructuresAreExclusive
<1>3. QED
  BY <1>1, <1>2 DEF FramesAreSound, FrameInv

\* Every frame's count is the number of its mappings, directories and tables;
\* directories and tables are nobody else's; a frame is free exactly when
\* nothing refers to it (pmm.c, paging.c).  An unsigned char is enough for the
\* count because a frame is mapped at most once by each address space, and there
\* are fewer of those than RefModulus.
THEOREM FramesAreAccounted ==
    ASSUME Cardinality(Procs) < RefModulus
    PROVE  Spec => []FramesAreSound
<1>1. Init => FrameInv
  BY InitFrames
<1>2. FrameInv /\ [Next]_vars => FrameInv'
  BY NextFrames
<1>3. FrameInv => FramesAreSound
  BY FrameInvImplies
<1>4. QED
  BY <1>1, <1>2, <1>3, PTL DEF Spec

\* A page that a process can write is mapped by nobody else, and a page that it
\* cannot write is marked for paging_handle_cow_fault.
THEOREM WritablePagesArePrivate ==
    ASSUME Cardinality(Procs) < RefModulus
    PROVE  Spec => []WritableIsPrivate
<1>1. Init => FrameInv
  BY InitFrames
<1>2. FrameInv /\ [Next]_vars => FrameInv'
  BY NextFrames
<1>3. FrameInv => WritableIsPrivate
  BY FrameInvImplies
<1>4. QED
  BY <1>1, <1>2, <1>3, PTL DEF Spec

----------------------------------------------------------------------------
(* Refinement: what each process sees of its memory                        *)

\* A step does not change what q sees.
KeepsView(q) ==
    /\ pstate'[q] = "live" <=> pstate[q] = "live"
    /\ pstate[q] = "live" => \A x \in Pages : data'[pte'[q][x].f] = data[pte[q][x].f]

LEMMA ViewKept ==
    ASSUME NEW q \in Procs, KeepsView(q)
    PROVE  mem'[q] = mem[q]
<1>1. mem'[q] = IF pstate'[q] = "live" THEN [x \in Pages |-> data'[pte'[q][x].f]] ELSE NoMem
  BY DEF mem
<1>2. mem[q] = IF pstate[q] = "live" THEN [x \in Pages |-> data[pte[q][x].f]] ELSE NoMem
  BY DEF mem
<1>3. QED
  BY <1>1, <1>2 DEF KeepsView

LEMMA AllViewsKept ==
    ASSUME \A q \in Procs : KeepsView(q)
    PROVE  mem' = mem
<1>1. \A q \in Procs : mem'[q] = mem[q]
  BY ViewKept
<1>2. mem = [q \in Procs |-> mem[q]]
  BY DEF mem
<1>3. mem' = [q \in Procs |-> mem'[q]]
  BY DEF mem
<1>4. QED
  BY <1>1, <1>2, <1>3

LEMMA OneViewChanges ==
    ASSUME NEW p \in Procs, NEW m, mem'[p] = m, \A q \in Procs \ {p} : KeepsView(q)
    PROVE  mem' = [mem EXCEPT ![p] = m]
<1>1. \A q \in Procs \ {p} : mem'[q] = mem[q]
  BY ViewKept
<1>2. mem = [q \in Procs |-> mem[q]]
  BY DEF mem
<1>3. mem' = [q \in Procs |-> mem'[q]]
  BY DEF mem
<1>4. QED
  BY <1>1, <1>2, <1>3

LEMMA LiveMemory ==
    ASSUME FrameInv, NEW p \in Procs
    PROVE  /\ pstate[p] = "live" => /\ mem[p] \in [Pages -> Values] /\ mem[p] # NoMem
                                    /\ mem[p] = [x \in Pages |-> data[pte[p][x].f]]
                                    /\ \A x \in Pages : mem[p][x] = data[pte[p][x].f]
           /\ pstate[p] # "live" => mem[p] = NoMem
<1>1. mem[p] = IF pstate[p] = "live" THEN [x \in Pages |-> data[pte[p][x].f]] ELSE NoMem
  BY DEF mem
<1>2. ASSUME pstate[p] = "live", NEW x \in Pages PROVE data[pte[p][x].f] \in Values
  <2>1. pte[p][x].f \in Frames
    BY <1>2 DEF FrameInv, Lifecycle, Present, TypeOK, PTEs
  <2>2. QED
    BY <2>1 DEF FrameInv, TypeOK
<1>3. pstate[p] = "live" => mem[p] \in [Pages -> Values]
  BY <1>1, <1>2
<1>4. NoMem \notin [Pages -> Values]
  BY AddressSpacesAssumption DEF Pages, StackPage
<1>5. QED
  BY <1>1, <1>3, <1>4

\* The frames of a running process.
LEMMA LiveFrame ==
    ASSUME FrameInv, NEW q \in Procs, pstate[q] = "live", NEW x \in Pages, NEW f, f = pte[q][x].f
    PROVE  f \in Frames /\ f # NoFrame /\ f \in used /\ <<q, x>> \in Mappings(f)
<1>1. f # NoFrame
  BY DEF FrameInv, Lifecycle, Present
<1>2. QED
  BY <1>1, MappedFrame

LEMMA OtherView ==
    ASSUME FrameInv, NEW q \in Procs, pstate'[q] = pstate[q], pte'[q] = pte[q],
           \A f \in Frames, x \in Pages : f \in used /\ <<q, x>> \in Mappings(f) => data'[f] = data[f]
    PROVE  KeepsView(q)
<1>1. ASSUME pstate[q] = "live", NEW x \in Pages PROVE data'[pte'[q][x].f] = data[pte[q][x].f]
  <2>1. PICK f : f = pte[q][x].f
    OBVIOUS
  <2>2. f \in Frames /\ f \in used /\ <<q, x>> \in Mappings(f)
    BY <1>1, <2>1, LiveFrame
  <2>3. data'[f] = data[f]
    BY <2>2
  <2>4. QED
    BY <2>1, <2>3
<1>2. QED
  BY <1>1 DEF KeepsView

\* Steps that change no page.
LEMMA QuietViews ==
    ASSUME FrameInv, UNCHANGED <<data, pte>>,
           \A q \in Procs : pstate'[q] = "live" <=> pstate[q] = "live"
    PROVE  mem' = mem
<1>1. \A q \in Procs : KeepsView(q)
  BY DEF KeepsView
<1>2. QED
  BY <1>1, AllViewsKept

\* run: the pages that are loaded belong to a process that does not run yet.
LEMMA LoadViews ==
    ASSUME FrameInv, NEW p \in Procs, NEW pg \in Pages, LoadPage(p, pg)
    PROVE  mem' = mem
<1>0. TypeOK
  BY DEF FrameInv
<1>1. CASE UncheckedOOM
  BY <1>1, QuietViews DEF UncheckedOOM, procVars
<1>2. CASE ~UncheckedOOM
  <2>1. PICK n : n = Nth(1)
    OBVIOUS
  <2>2. /\ pstate[p] = "building" /\ pstate' = pstate /\ Left >= (IF table[p] = NoFrame THEN 2 ELSE 1)
        /\ pte' = [pte EXCEPT ![p][pg] = Private(n)] /\ data' = [data EXCEPT ![n] = ImageValue]
    BY <1>2, <2>1 DEF LoadPage, MapPage
  <2>3. n \in Frames /\ n \notin used
    BY <2>1, <2>2, LeftIsNat, FreshFrame
  <2>4. ASSUME NEW q \in Procs PROVE KeepsView(q)
    <3>1. CASE q = p
      BY <2>2, <3>1 DEF KeepsView
    <3>2. CASE q # p
      <4>1. pstate'[q] = pstate[q] /\ pte'[q] = pte[q]
        BY <1>0, <2>2, <3>2 DEF TypeOK
      <4>2. \A f \in Frames : f \in used => data'[f] = data[f]
        BY <1>0, <2>2, <2>3 DEF TypeOK
      <4>3. QED
        BY <4>1, <4>2, OtherView
    <3>3. QED
      BY <3>1, <3>2
  <2>5. QED
    BY <2>4, AllViewsKept
<1>3. QED
  BY <1>1, <1>2

LEMMA StartViews ==
    ASSUME FrameInv, FrameInv', NEW p \in Procs, MapStackAndStart(p), ~UncheckedOOM
    PROVE  PM!PMStart(p)
<1>0. TypeOK
  BY DEF FrameInv
<1>1. PICK n : n = Nth(1)
  OBVIOUS
<1>2. PICK v \in Values : data' = [data EXCEPT ![n] = v]
  BY <1>1 DEF MapStackAndStart
<1>3. /\ pstate[p] = "building" /\ pstate' = [pstate EXCEPT ![p] = "live"] /\ Left >= 1
      /\ pte' = [pte EXCEPT ![p][StackPage] = Private(n)] /\ \A x \in ImagePages : Present(p, x)
  BY <1>1 DEF MapStackAndStart, MapPage
<1>4. n \in Frames /\ n \notin used
  BY <1>1, <1>3, LeftIsNat, FreshFrame
<1>5. ASSUME NEW q \in Procs \ {p} PROVE KeepsView(q)
  <2>1. pstate'[q] = pstate[q] /\ pte'[q] = pte[q]
    BY <1>0, <1>3 DEF TypeOK
  <2>2. \A f \in Frames : f \in used => data'[f] = data[f]
    BY <1>0, <1>2, <1>4 DEF TypeOK
  <2>3. QED
    BY <2>1, <2>2, OtherView
<1>6. PICK m : m = mem'[p]
  OBVIOUS
<1>7. pstate'[p] = "live"
  BY <1>0, <1>3 DEF TypeOK
<1>8. m = [x \in Pages |-> data'[pte'[p][x].f]]
  BY <1>6, <1>7 DEF mem
<1>9. ASSUME NEW x \in Pages PROVE data'[pte'[p][x].f] \in Values
  <2>1. pte'[p][x].f \in Frames
    BY <1>7 DEF FrameInv, Lifecycle, Present, TypeOK, PTEs
  <2>2. QED
    BY <2>1 DEF FrameInv, TypeOK
<1>10. m \in [Pages -> Values]
  BY <1>8, <1>9
<1>11. ASSUME NEW x \in ImagePages PROVE m[x] = ImageValue
  <2>1. x \in Pages /\ x # StackPage
    BY AddressSpacesAssumption DEF ImagePages, Pages, StackPage
  <2>2. pte'[p][x] = pte[p][x]
    BY <1>0, <1>3, <2>1 DEF TypeOK
  <2>3. PICK f : f = pte[p][x].f
    OBVIOUS
  <2>4. data[f] = ImageValue /\ f # NoFrame
    BY <1>3, <2>3 DEF FrameInv, Contents, Present
  <2>5. f \in Frames /\ f \in used
    BY <2>1, <2>3, <2>4, MappedFrame
  <2>6. data'[f] = data[f]
    BY <1>0, <1>2, <1>4, <2>5 DEF TypeOK
  <2>7. QED
    BY <1>8, <2>1, <2>2, <2>3, <2>4, <2>6
<1>12. mem' = [mem EXCEPT ![p] = m]
  BY <1>5, <1>6, OneViewChanges
<1>13. mem[p] = NoMem
  BY <1>3, LiveMemory
<1>14. QED
  BY <1>10, <1>11, <1>12, <1>13 DEF PM!PMStart, PM!Loaded

LEMMA StoreViews ==
    ASSUME FrameInv, NEW p \in Procs, NEW pg \in Pages, NEW v \in Values, pstate[p] = "live",
           pte[p][pg].rw = 1, data' = [data EXCEPT ![pte[p][pg].f] = v], UNCHANGED <<pte, pstate>>
    PROVE  PM!PMStore(p, pg, v)
<1>0. TypeOK
  BY DEF FrameInv
<1>1. PICK g : g = pte[p][pg].f
  OBVIOUS
<1>2. g \in Frames /\ g # NoFrame /\ <<p, pg>> \in Mappings(g)
  BY <1>1, LiveFrame
<1>3. Mappings(g) = {<<p, pg>>}
  BY <1>1, <1>2 DEF FrameInv, WritableIsPrivate, Present
<1>4. data'[g] = v /\ \A f \in Frames \ {g} : data'[f] = data[f]
  BY <1>0, <1>1, <1>2 DEF TypeOK
<1>5. ASSUME NEW q \in Procs \ {p} PROVE KeepsView(q)
  <2>1. pstate'[q] = pstate[q] /\ pte'[q] = pte[q]
    OBVIOUS
  <2>2. \A x \in Pages : <<q, x>> \notin Mappings(g)
    BY <1>3
  <2>3. \A f \in Frames, x \in Pages : f \in used /\ <<q, x>> \in Mappings(f) => data'[f] = data[f]
    BY <1>4, <2>2
  <2>4. QED
    BY <2>1, <2>3, OtherView
<1>6. /\ mem[p] \in [Pages -> Values] /\ mem[p] # NoMem /\ \A x \in Pages : mem[p][x] = data[pte[p][x].f]
  BY LiveMemory
<1>7. mem'[p] = [x \in Pages |-> data'[pte[p][x].f]]
  BY DEF mem
<1>8. ASSUME NEW x \in Pages PROVE data'[pte[p][x].f] = IF x = pg THEN v ELSE mem[p][x]
  <2>1. PICK f : f = pte[p][x].f
    OBVIOUS
  <2>2. f \in Frames /\ <<p, x>> \in Mappings(f)
    BY <2>1, LiveFrame
  <2>3. f = g <=> x = pg
    BY <1>1, <1>3, <2>1, <2>2
  <2>4. QED
    BY <1>4, <1>6, <2>1, <2>2, <2>3
<1>9. mem'[p] = [mem[p] EXCEPT ![pg] = v]
  BY <1>6, <1>7, <1>8
<1>10. PICK m : m = [mem[p] EXCEPT ![pg] = v]
  OBVIOUS
<1>11. mem' = [mem EXCEPT ![p] = m]
  BY <1>5, <1>9, <1>10, OneViewChanges
<1>12. mem' = [mem EXCEPT ![p][pg] = v]
  BY <1>10, <1>11
<1>13. QED
  BY <1>6, <1>12 DEF PM!PMStore

\* A write fault moves the page to a frame with the same contents, or stays.
LEMMA CowViews ==
    ASSUME FrameInv, NEW p \in Procs, NEW pg \in Pages, CowFault(p, pg)
    PROVE  mem' = mem
<1>0. TypeOK
  BY DEF FrameInv
<1>1. PICK g : g = pte[p][pg].f
  OBVIOUS
<1>2. PICK n : n = Nth(1)
  OBVIOUS
<1>3. /\ pstate[p] = "live" /\ pstate' = pstate
      /\ \/ pte' = [pte EXCEPT ![p][pg] = Private(g)] /\ data' = data
         \/ /\ Left >= 1 /\ pte' = [pte EXCEPT ![p][pg] = Private(n)]
            /\ data' = [data EXCEPT ![n] = data[g]]
         \/ data' = data /\ pte' = pte
  BY <1>1, <1>2 DEF CowFault, procVars
<1>4. \A h : Private(h).f = h
  BY DEF Private
<1>5. CASE pte' = [pte EXCEPT ![p][pg] = Private(g)] /\ data' = data
  <2>1. \A q \in Procs, x \in Pages : pte'[q][x] = IF q = p /\ x = pg THEN Private(g) ELSE pte[q][x]
    BY <1>0, <1>5 DEF TypeOK
  <2>2. \A q \in Procs, x \in Pages : pte'[q][x].f = pte[q][x].f
    BY <1>1, <1>4, <2>1
  <2>3. \A q \in Procs : KeepsView(q)
    BY <1>3, <1>5, <2>2 DEF KeepsView
  <2>4. QED
    BY <2>3, AllViewsKept
<1>6. CASE /\ Left >= 1 /\ pte' = [pte EXCEPT ![p][pg] = Private(n)]
           /\ data' = [data EXCEPT ![n] = data[g]]
  <2>1. \A q \in Procs, x \in Pages : pte'[q][x] = IF q = p /\ x = pg THEN Private(n) ELSE pte[q][x]
    BY <1>0, <1>6 DEF TypeOK
  <2>2. n \in Frames /\ n \notin used
    BY <1>2, <1>6, LeftIsNat, FreshFrame
  <2>3. data'[n] = data[g] /\ \A f \in Frames \ {n} : data'[f] = data[f]
    BY <1>0, <1>6, <2>2 DEF TypeOK
  <2>4. ASSUME NEW q \in Procs, pstate[q] = "live", NEW x \in Pages
        PROVE  data'[pte'[q][x].f] = data[pte[q][x].f]
    <3>1. CASE q = p /\ x = pg
      BY <1>1, <1>4, <2>1, <2>3, <3>1
    <3>2. CASE ~(q = p /\ x = pg)
      <4>1. PICK f : f = pte[q][x].f
        OBVIOUS
      <4>2. f \in Frames /\ f \in used
        BY <2>4, <4>1, LiveFrame
      <4>3. pte'[q][x] = pte[q][x]
        BY <2>1, <3>2
      <4>4. QED
        BY <2>2, <2>3, <4>1, <4>2, <4>3
    <3>3. QED
      BY <3>1, <3>2
  <2>5. \A q \in Procs : KeepsView(q)
    BY <1>3, <2>4 DEF KeepsView
  <2>6. QED
    BY <2>5, AllViewsKept
<1>7. CASE data' = data /\ pte' = pte
  BY <1>3, <1>7, QuietViews
<1>8. QED
  BY <1>3, <1>5, <1>6, <1>7

\* What is freed with a dead process is in nobody else's memory.
LEMMA ReapViews ==
    ASSUME FrameInv, NEW p \in Procs, NEW pg \in Pages, ReapPage(p, pg)
    PROVE  mem' = mem
<1>0. TypeOK
  BY DEF FrameInv
<1>1. PICK g : g = pte[p][pg].f
  OBVIOUS
<1>2. /\ pstate[p] = "zombie" /\ g # NoFrame /\ data' = Forget({g})
      /\ pte' = [pte EXCEPT ![p][pg] = Absent] /\ pstate' = pstate
  BY <1>1 DEF ReapPage, Present, procVars
<1>3. <<p, pg>> \in Mappings(g) /\ (refs[g] = 1 => Mappings(g) = {<<p, pg>>})
  BY <1>1, <1>2, MappedFrame
<1>4. \A f \in Frames : data'[f] = IF f = g /\ refs[g] = 1 THEN ImageValue ELSE data[f]
  BY <1>2 DEF Forget
<1>5. ASSUME NEW q \in Procs PROVE KeepsView(q)
  <2>1. CASE q = p
    BY <1>2, <2>1 DEF KeepsView
  <2>2. CASE q # p
    <3>1. pstate'[q] = pstate[q] /\ pte'[q] = pte[q]
      BY <1>0, <1>2, <2>2 DEF TypeOK
    <3>2. \A x \in Pages : refs[g] = 1 => <<q, x>> \notin Mappings(g)
      BY <1>3, <2>2
    <3>3. \A f \in Frames, x \in Pages : f \in used /\ <<q, x>> \in Mappings(f) => data'[f] = data[f]
      BY <1>4, <3>2
    <3>4. QED
      BY <3>1, <3>3, OtherView
  <2>3. QED
    BY <2>1, <2>2
<1>6. QED
  BY <1>5, AllViewsKept

\* fork copies the memory by sharing its frames.
LEMMA ForkViews ==
    ASSUME FrameInv, NEW p \in Procs, NEW q \in Procs, Fork(p, q), ~UncheckedOOM
    PROVE  PM!PMFork(p, q)
<1>0. TypeOK
  BY DEF FrameInv
<1>1. /\ pstate[p] = "live" /\ pstate[q] = "none" /\ pte' = ForkedPages(p, q) /\ data' = data
      /\ pstate' = [pstate EXCEPT ![q] = "live"]
  BY DEF Fork, ForkedPages
<1>2. /\ p # q
      /\ \A x \in Pages : pte'[p][x] = Shared(pte[p][x].f) /\ pte'[q][x] = Shared(pte[p][x].f)
      /\ \A r \in Procs \ {p, q} : pte'[r] = pte[r]
  BY <1>1, ForkMaps
<1>3. \A x \in Pages : pte'[p][x].f = pte[p][x].f /\ pte'[q][x].f = pte[p][x].f
  <2>1. \A g : Shared(g).f = g
    BY DEF Shared
  <2>2. QED
    BY <1>2, <2>1
<1>4. \A r \in Procs \ {q} : pstate'[r] = pstate[r]
  BY <1>0, <1>1 DEF TypeOK
<1>5. ASSUME NEW r \in Procs \ {q} PROVE KeepsView(r)
  <2>1. CASE r = p
    BY <1>1, <1>3, <1>4, <2>1 DEF KeepsView
  <2>2. CASE r # p
    BY <1>1, <1>2, <1>4, <2>2 DEF KeepsView
  <2>3. QED
    BY <2>1, <2>2
<1>6. /\ mem[p] # NoMem /\ mem[q] = NoMem /\ mem[p] = [x \in Pages |-> data[pte[p][x].f]]
  BY <1>1, LiveMemory
<1>7. PICK m : m = mem[p]
  OBVIOUS
<1>8. mem'[q] = m
  <2>1. pstate'[q] = "live"
    BY <1>0, <1>1 DEF TypeOK
  <2>2. mem'[q] = [x \in Pages |-> data'[pte'[q][x].f]]
    BY <2>1 DEF mem
  <2>3. QED
    BY <1>1, <1>3, <1>6, <1>7, <2>2
<1>9. mem' = [mem EXCEPT ![q] = m]
  BY <1>5, <1>8, OneViewChanges
<1>10. QED
  BY <1>6, <1>7, <1>9 DEF PM!PMFork

LEMMA ExitViews ==
    ASSUME FrameInv, NEW p \in Procs, Exit(p)
    PROVE  PM!PMExit(p)
<1>1. /\ pstate[p] = "live" /\ pstate' = [pstate EXCEPT ![p] = "zombie"] /\ UNCHANGED <<data, pte>>
  BY DEF Exit
<1>2. pstate'[p] # "live" /\ \A r \in Procs \ {p} : pstate'[r] = pstate[r]
  BY <1>1 DEF FrameInv, TypeOK
<1>3. \A r \in Procs \ {p} : KeepsView(r)
  BY <1>1, <1>2 DEF KeepsView
<1>4. mem'[p] = NoMem
  BY <1>2 DEF mem
<1>5. mem' = [mem EXCEPT ![p] = NoMem]
  BY <1>3, <1>4, OneViewChanges
<1>6. QED
  BY <1>1, <1>5, LiveMemory DEF PM!PMExit

\* exec gives the process a freshly loaded memory and leaves the others theirs.
LEMMA ExecViews ==
    ASSUME FrameInv, FrameInv', NEW p \in Procs, Exec(p), ~UncheckedOOM,
           ~(fault' = "fbfreed" /\ UNCHANGED <<frameVars, data, procVars, pte, kfb>>)
    PROVE  PM!PMExec(p)
<1>0. TypeOK
  BY DEF FrameInv
<1>1. PICK page : page = [pg \in Pages |-> Nth(IF pg = 1 THEN 2 ELSE pg + 2)]
  OBVIOUS
<1>2. StackPage \in Pages /\ \A pg \in Pages : page[pg] = Nth(IF pg = 1 THEN 2 ELSE pg + 2)
  BY <1>1, AddressSpacesAssumption DEF Pages, StackPage
<1>3. /\ pstate[p] = "live" /\ Left >= ExecNeeds /\ pstate' = pstate
      /\ pte' = [pte EXCEPT ![p] = [pg \in Pages |-> Private(page[pg])]]
      /\ \E v \in Values : data' = [Forget(FramesOf(p)) EXCEPT ![page[StackPage]] = v]
  <2>1. [pg \in Pages |-> Private(Nth(IF pg = 1 THEN 2 ELSE pg + 2))] = [pg \in Pages |-> Private(page[pg])]
    BY <1>2
  <2>2. QED
    BY <1>2, <2>1 DEF Exec
<1>4. PICK v \in Values : data' = [Forget(FramesOf(p)) EXCEPT ![page[StackPage]] = v]
  BY <1>3
<1>5. NImage \in Nat /\ NImage >= 1 /\ ExecNeeds = NImage + 3 /\ Pages = 1..(NImage + 1) /\ Left \in Nat
  BY LeftIsNat, AddressSpacesAssumption DEF ExecNeeds, Pages, StackPage
<1>6. ASSUME NEW x \in Pages
      PROVE  (IF x = 1 THEN 2 ELSE x + 2) \in 1..Left
  BY <1>3, <1>5
<1>7. ASSUME NEW x \in Pages
      PROVE  page[x] \in Frames /\ page[x] \notin used /\ data[page[x]] = ImageValue
  <2>1. PICK k \in 1..Left : k = IF x = 1 THEN 2 ELSE x + 2
    BY <1>6
  <2>2. page[x] = Nth(k)
    BY <1>2, <2>1
  <2>3. QED
    BY <2>2, FreshFrame
<1>8. ASSUME NEW x \in ImagePages PROVE x \in Pages /\ page[x] # page[StackPage]
  <2>1. x \in Pages /\ x # StackPage
    BY AddressSpacesAssumption DEF Pages, StackPage, ImagePages
  <2>2. (IF x = 1 THEN 2 ELSE x + 2) # (IF StackPage = 1 THEN 2 ELSE StackPage + 2)
    BY <1>2, <1>5, <2>1
  <2>3. QED
    BY <1>2, <1>6, <2>1, <2>2, NthAreDistinct
<1>9. page \in [Pages -> Frames]
  BY <1>1, <1>7
<1>10. /\ \A x \in Pages : pte'[p][x].f = page[x]
       /\ \A r \in Procs \ {p} : pte'[r] = pte[r]
  BY <1>3, <1>9, RowIsMade
<1>11. /\ \A f \in Frames \ {page[StackPage]} :
             data'[f] = IF f \in FramesOf(p) /\ refs[f] = 1 THEN ImageValue ELSE data[f]
       /\ data'[page[StackPage]] = v
  <2>1. DOMAIN Forget(FramesOf(p)) = Frames
    BY DEF Forget
  <2>2. \A f \in Frames : Forget(FramesOf(p))[f] = IF f \in FramesOf(p) /\ refs[f] = 1 THEN ImageValue ELSE data[f]
    BY DEF Forget
  <2>3. QED
    BY <1>2, <1>4, <1>7, <2>1, <2>2
<1>12. ASSUME NEW q \in Procs \ {p} PROVE KeepsView(q)
  <2>1. pstate'[q] = pstate[q] /\ pte'[q] = pte[q]
    BY <1>3, <1>10
  <2>2. ASSUME NEW f \in Frames, NEW x \in Pages, f \in used, <<q, x>> \in Mappings(f)
        PROVE  data'[f] = data[f]
    <3>1. f # page[StackPage]
      BY <1>2, <1>7, <2>2
    <3>2. ~(f \in FramesOf(p) /\ refs[f] = 1)
      <4>1. ASSUME f \in FramesOf(p), refs[f] = 1 PROVE FALSE
        <5>1. p \notin Structures(f)
          BY <2>2, StructureFrame
        <5>2. PICK y \in Pages : f = pte[p][y].f
          BY <4>1, <5>1, OldFrames
        <5>3. f # NoFrame
          BY FramesFinite
        <5>4. <<p, y>> \in Mappings(f) /\ (refs[f] = 1 => Mappings(f) = {<<p, y>>})
          BY <5>2, <5>3, MappedFrame
        <5>5. QED
          BY <2>2, <4>1, <5>4
      <4>2. QED
        BY <4>1
    <3>3. QED
      BY <1>11, <3>1, <3>2
  <2>3. QED
    BY <2>1, <2>2, OtherView
<1>13. PICK m : m = mem'[p]
  OBVIOUS
<1>14. m = [x \in Pages |-> data'[pte'[p][x].f]]
  BY <1>3, <1>13 DEF mem
<1>15. ASSUME NEW x \in Pages PROVE data'[pte'[p][x].f] \in Values
  BY <1>7, <1>10 DEF FrameInv, TypeOK
<1>16. ASSUME NEW x \in ImagePages PROVE m[x] = ImageValue
  <2>1. pte'[p][x].f = page[x] /\ page[x] \in Frames /\ page[x] # page[StackPage] /\ data[page[x]] = ImageValue
    BY <1>7, <1>8, <1>10
  <2>2. data'[page[x]] = ImageValue
    BY <1>11, <2>1
  <2>3. QED
    BY <1>8, <1>14, <2>1, <2>2
<1>17. mem' = [mem EXCEPT ![p] = m]
  BY <1>12, <1>13, OneViewChanges
<1>18. m \in [Pages -> Values] /\ mem[p] # NoMem
  BY <1>3, <1>14, <1>15, LiveMemory
<1>19. QED
  BY <1>16, <1>17, <1>18 DEF PM!PMExec, PM!Loaded

\* Every step of the system is a step of the private memories, or none.
LEMMA StepRefines ==
    ASSUME FrameInv, FrameInv', ResultsOnSharedPage = FALSE, [Next]_vars
    PROVE  [PM!PMNext]_mem
<1>0. TypeOK
  BY DEF FrameInv
<1>1. CASE UNCHANGED vars
  BY <1>1, QuietViews DEF vars
<1>2. ASSUME \/ UncheckedOOM
             \/ fault' = "fbfreed" /\ UNCHANGED <<frameVars, data, procVars, pte, kfb>>
      PROVE  mem' = mem
  BY <1>2, QuietViews DEF UncheckedOOM, procVars
<1>3. CASE GuiInit
  BY <1>3, QuietViews DEF GuiInit, procVars
<1>4. ASSUME NEW p \in Procs, StartBuild(p) \/ LoadFails(p) \/ ReapRest(p) \/ ExecAborts(p),
             ~UncheckedOOM
      PROVE  mem' = mem
  <2>1. /\ UNCHANGED <<data, pte>>
        /\ \/ pstate' = pstate
           \/ pstate[p] # "live" /\ \E s \in {"building", "lost", "none"} : pstate' = [pstate EXCEPT ![p] = s]
    BY <1>4 DEF StartBuild, LoadFails, ReapRest, ExecAborts, procVars
  <2>2. \A q \in Procs : pstate'[q] = "live" <=> pstate[q] = "live"
    BY <1>0, <2>1 DEF TypeOK
  <2>3. QED
    BY <2>1, <2>2, QuietViews
<1>5. ASSUME NEW p \in Procs,
             \/ StartBuild(p) \/ LoadFails(p) \/ MapStackAndStart(p)
             \/ Exec(p) \/ ExecAborts(p) \/ Exit(p) \/ ReapRest(p)
      PROVE  mem' = mem \/ PM!PMStart(p) \/ PM!PMExec(p) \/ PM!PMExit(p)
  BY <1>2, <1>4, <1>5, StartViews, ExecViews, ExitViews
<1>6. ASSUME NEW p \in Procs, NEW q \in Procs, Fork(p, q) PROVE mem' = mem \/ PM!PMFork(p, q)
  BY <1>2, <1>6, ForkViews
<1>7. ASSUME NEW p \in Procs, NEW pg \in Pages, LoadPage(p, pg) \/ CowFault(p, pg) \/ ReapPage(p, pg)
      PROVE  mem' = mem
  BY <1>7, LoadViews, CowViews, ReapViews
<1>8. ASSUME NEW p \in Procs, NEW pg \in Pages, NEW v \in Values, Store(p, pg, v) \/ KernelStore(p, pg, v)
      PROVE  PM!PMStore(p, pg, v)
  <2>1. /\ pstate[p] = "live" /\ pte[p][pg].rw = 1 /\ data' = [data EXCEPT ![pte[p][pg].f] = v]
        /\ UNCHANGED <<pte, pstate>>
    BY <1>8 DEF Store, KernelStore, StoreResult, procVars
  <2>2. QED
    BY <2>1, StoreViews
<1>9. ASSUME NEW p \in Procs, MapFb(p)
      PROVE  mem' = mem \/ \E pg \in Pages, v \in Values : PM!PMStore(p, pg, v)
  <2>1. \/ UncheckedOOM
        \/ /\ pstate[p] = "live" /\ UNCHANGED <<pte, pstate>>
           /\ \E pg \in Pages, v \in Values :
                 pte[p][pg].rw = 1 /\ data' = [data EXCEPT ![pte[p][pg].f] = v]
    BY <1>9 DEF MapFb, StoreResult
  <2>2. QED
    BY <1>2, <2>1, StoreViews
<1>10. QED
  BY <1>1, <1>3, <1>5, <1>6, <1>7, <1>8, <1>9 DEF Next, PM!PMNext

\* Sharing frames between forked processes is invisible: the system implements
\* one private memory per process, as long as no result of a system call is stored
\* into a shared page (the kernel's own store ignores the read-only bit).
THEOREM AddressSpacesArePrivate ==
    ASSUME Cardinality(Procs) < RefModulus, ResultsOnSharedPage = FALSE
    PROVE  Spec => ImplementsPrivateMemory
<1>1. Init => FrameInv
  BY InitFrames
<1>2. FrameInv /\ [Next]_vars => FrameInv'
  BY NextFrames
<1>3. Init => PM!PMInit
  BY DEF Init, PM!PMInit, mem
<1>4. FrameInv /\ FrameInv' /\ [Next]_vars => [PM!PMNext]_mem
  BY StepRefines
<1>5. QED
  BY <1>1, <1>2, <1>3, <1>4, PTL DEF Spec, ImplementsPrivateMemory, PM!PMSpec
=============================================================================
