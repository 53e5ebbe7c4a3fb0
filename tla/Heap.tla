-------------------------------- MODULE Heap --------------------------------
(***************************************************************************)
(* The kernel heap (kernel/heap.c) on top of pmm.c and paging.c: a list of *)
(* blocks, first-fit kmalloc with splitting, kfree with coalescing, and    *)
(* growth by whole pages.  heap_lock is taken with interrupts off, so each *)
(* call is one step.                                                       *)
(*                                                                         *)
(* Sizes are in 4-byte words, addresses are word offsets from HEAP_START.  *)
(* Of the PMM only the number of free frames matters here: heap_extend     *)
(* maps whichever frames it gets at the end of the heap.                   *)
(***************************************************************************)
EXTENDS Integers, Sequences, SequencesExt, FiniteSetsExt

CONSTANTS
    PageSize,      \* words in a page: 1024
    HeaderSize,    \* words in a block_header: 3
    SplitSlack,    \* words a split must leave besides the header: 4
    InitialPages,  \* HEAP_INITIAL_PAGES
    NFrames,       \* frames of physical memory
    Requests,      \* sizes in bytes that callers pass to kmalloc
    MaxLive        \* bound: allocations held at the same time

ASSUME HeapAssumption ==
    /\ PageSize \in Nat /\ HeaderSize \in Nat \ {0} /\ SplitSlack \in Nat \ {0}
    /\ InitialPages \in Nat \ {0} /\ PageSize * InitialPages > HeaderSize
    /\ NFrames \in Nat /\ NFrames >= InitialPages
    /\ Requests \subseteq Nat \ {0} /\ MaxLive \in Nat

VARIABLES
    heap_end,  \* first word not yet mapped
    blocks,    \* the list from heap_head: address, usable size, free flag
    live,      \* what callers hold: the pointer and the words they asked for
    frames,    \* how many frames are free in the PMM
    overrun    \* a block was placed where heap_extend had failed to map

vars == <<heap_end, blocks, live, frames, overrun>>

HeapFrames == heap_end \div PageSize

Block(a, s, f) == [addr |-> a, size |-> s, free |-> f]
Pointer(b) == b.addr + HeaderSize

----------------------------------------------------------------------------
\* heap_extend: one frame per page until the PMM has none left.
heap_extend(npages) ==
    LET got == Min({npages, frames})
    IN /\ frames' = frames - got
       /\ heap_end' = heap_end + got * PageSize

\* heap_init.
Init ==
    /\ heap_end = InitialPages * PageSize
    /\ blocks = <<Block(0, InitialPages * PageSize - HeaderSize, 1)>>
    /\ live = {}
    /\ frames = NFrames - InitialPages
    /\ overrun = 0

\* "align to 4 bytes"
Words(bytes) == (bytes + 3) \div 4

Splits(b, words) == b.size >= words + HeaderSize + SplitSlack

\* A free block that serves a request: itself, or two blocks.
Carve(b, words) ==
    IF Splits(b, words)
    THEN <<Block(b.addr, words, 0),
           Block(b.addr + HeaderSize + words, b.size - words - HeaderSize, 1)>>
    ELSE <<Block(b.addr, b.size, 0)>>

Fits(words) == {i \in DOMAIN blocks : blocks[i].free = 1 /\ blocks[i].size >= words}

PagesFor(words) == (words + HeaderSize + PageSize - 1) \div PageSize

\* kmalloc finds the first block that fits ...
kmallocFit(words) ==
    /\ Fits(words) # {}
    /\ LET i == Min(Fits(words))
       IN /\ blocks' = SubSeq(blocks, 1, i - 1) \o Carve(blocks[i], words)
                         \o SubSeq(blocks, i + 1, Len(blocks))
          /\ live' = live \cup {[ptr |-> Pointer(blocks[i]), words |-> words]}
    /\ UNCHANGED <<heap_end, frames, overrun>>

\* ... or grows the heap, and does not learn whether heap_extend succeeded.
\* The whole of the new block is handed out.
kmallocGrow(words) ==
    /\ Fits(words) = {}
    /\ LET npages == PagesFor(words)
           fresh == Block(heap_end, npages * PageSize - HeaderSize, 0)
       IN /\ heap_extend(npages)
          /\ blocks' = Append(blocks, fresh)
          /\ live' = live \cup {[ptr |-> Pointer(fresh), words |-> words]}
          /\ overrun' = IF frames < npages THEN 1 ELSE 0

kmalloc(bytes) ==
    /\ overrun = 0 /\ Cardinality(live) < MaxLive
    /\ kmallocFit(Words(bytes)) \/ kmallocGrow(Words(bytes))

\* Mutant of Absorb: the absorbed block's header is not counted.
AbsorbWithoutHeader(done, b) ==
    IF done # <<>> /\ Last(done).free = 1 /\ b.free = 1
    THEN Front(done) \o <<[Last(done) EXCEPT !.size = @ + b.size]>>
    ELSE Append(done, b)

\* Mutant of Absorb: the second block's flag is not looked at.
AbsorbHeld(done, b) ==
    IF done # <<>> /\ Last(done).free = 1
    THEN Front(done) \o <<[Last(done) EXCEPT !.size = @ + HeaderSize + b.size]>>
    ELSE Append(done, b)

\* kfree's pass over the list: a free block absorbs the free blocks after it.
Absorb(done, b) ==
    IF done # <<>> /\ Last(done).free = 1 /\ b.free = 1
    THEN Front(done) \o <<[Last(done) EXCEPT !.size = @ + HeaderSize + b.size]>>
    ELSE Append(done, b)

Coalesce(list) ==
    LET done[k \in 0..Len(list)] == IF k = 0 THEN <<>> ELSE Absorb(done[k - 1], list[k])
    IN done[Len(list)]

kfree(a) ==
    /\ overrun = 0 /\ a \in live
    /\ live' = live \ {a}
    /\ blocks' = Coalesce([i \in DOMAIN blocks |->
                      IF Pointer(blocks[i]) = a.ptr THEN [blocks[i] EXCEPT !.free = 1]
                      ELSE blocks[i]])
    /\ UNCHANGED <<heap_end, frames, overrun>>

\* pmm_alloc_frame and pmm_free_frame for page directories, page tables and
\* user pages.
FrameForOthers ==
    /\ overrun = 0 /\ frames > 0
    /\ frames' = frames - 1
    /\ UNCHANGED <<heap_end, blocks, live, overrun>>

FrameBack ==
    /\ overrun = 0 /\ frames + HeapFrames < NFrames
    /\ frames' = frames + 1
    /\ UNCHANGED <<heap_end, blocks, live, overrun>>

Next ==
    \/ \E bytes \in Requests : kmalloc(bytes)
    \/ \E a \in live : kfree(a)
    \/ FrameForOthers \/ FrameBack

Spec == Init /\ [][Next]_vars

----------------------------------------------------------------------------
(* Properties                                                              *)

TypeOK ==
    /\ heap_end \in Nat
    /\ blocks \in Seq([addr : Nat, size : Nat \ {0}, free : {0, 1}])
    /\ live \subseteq [ptr : Nat, words : Nat \ {0}]
    /\ frames \in 0..NFrames /\ frames + HeapFrames <= NFrames
    /\ overrun \in {0, 1}

\* Where the block after b starts.
EndOf(b) == b.addr + HeaderSize + b.size

\* The list walks the heap without a gap or an overlap, from HEAP_START to
\* heap_end, through every split, growth and merge.
BlocksTile ==
    overrun = 0 =>
        /\ blocks[1].addr = 0
        /\ \A i \in 1..(Len(blocks) - 1) : EndOf(blocks[i]) = blocks[i + 1].addr
        /\ EndOf(Last(blocks)) = heap_end

\* The blocks in use are exactly the pointers callers hold, each at least as
\* large as was asked for: kmalloc never hands out a block twice, and a merge
\* never swallows one.
HeldBlocksAreInUse ==
    /\ \A a \in live : \E i \in DOMAIN blocks :
            Pointer(blocks[i]) = a.ptr /\ blocks[i].free = 0 /\ blocks[i].size >= a.words
    /\ Cardinality(live) = Cardinality({i \in DOMAIN blocks : blocks[i].free = 0})

\* One pass is enough (heap.c:112 calls it "good enough for now"): after every
\* kfree no two neighbours are free, so free memory is never fragmented into
\* pieces that belong together.
NoFreeNeighbours ==
    \A i \in 1..(Len(blocks) - 1) : blocks[i].free = 0 \/ blocks[i + 1].free = 0

\* The list of blocks is sound after any sequence of calls.
HeapIsSound == TypeOK /\ BlocksTile /\ HeldBlocksAreInUse /\ NoFreeNeighbours

\* Memory handed out is never resized or moved by somebody else's call: a block
\* that is in use before and after a step is the same block.
HeldBlocksStayPut ==
    [][\A a \in live \cap live' : \A i \in DOMAIN blocks :
          Pointer(blocks[i]) = a.ptr => \E j \in DOMAIN blocks' : blocks'[j] = blocks[i]]_vars
=============================================================================
