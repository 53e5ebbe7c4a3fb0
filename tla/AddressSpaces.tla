--------------------------- MODULE AddressSpaces ---------------------------
(***************************************************************************)
(* Physical frames with reference counts (kernel/pmm.c), user address      *)
(* spaces with copy-on-write (kernel/paging.c), and the operations that    *)
(* build, share, replace and tear them down: the shell's run command, the  *)
(* fork, exec, wait, exit and map_fb system calls, and elf_load.           *)
(*                                                                         *)
(* System calls and page faults run with interrupts off, so each is one    *)
(* step.  The run command and the reaping of a dead process also happen in *)
(* shells, with interrupts on: there every page is a step, and other       *)
(* processes fork, fault and exit in between.                              *)
(*                                                                         *)
(* Frames are numbered from 1 in the order pmm_alloc_frame's scan finds    *)
(* them; 0 is the physical address it returns when memory is exhausted.    *)
(***************************************************************************)
EXTENDS Integers, FiniteSets

CONSTANTS
    NFrames,     \* physical frames available to pmm_alloc_frame
    Procs,       \* address spaces that may exist at the same time
    NImage,      \* pages of the program image that elf_load maps
    Values,      \* page contents
    ImageValue,  \* contents of a page as loaded from the file
    NoMem,       \* the memory of a process that is not running
    HasVbe,      \* is there a Bochs VBE display, so that gui_init can succeed
    RefModulus,  \* refcounts are unsigned char: 256
    ResultsOnSharedPage  \* may a program pass a system call a page it shares since
                         \* fork, for the kernel to store its result in

ASSUME AddressSpacesAssumption ==
    /\ NFrames \in Nat \ {0} /\ NImage \in Nat \ {0}
    /\ IsFiniteSet(Procs) /\ Procs # {}
    /\ ImageValue \in Values
    /\ RefModulus \in Nat \ {0, 1}
    /\ HasVbe \in BOOLEAN /\ ResultsOnSharedPage \in BOOLEAN
    /\ NoMem \notin [1..(NImage + 1) -> Values]

Frames == 1..NFrames
NoFrame == 0
ImagePages == 1..NImage
StackPage == NImage + 1   \* the page at USER_STACK_VADDR
Pages == 1..StackPage

VARIABLES
    used,    \* the frames whose bit is set in frame_bitmap
    refs,    \* frame_refcount
    data,    \* contents of each frame while it holds a user page (else ImageValue)
    pstate,  \* "none", "building", "live", "zombie", "lost"
    dir,     \* the process's page directory frame
    table,   \* its page table for image and stack (one 4 MiB region)
    fbTable, \* its page table at USER_FB_VADDR, if it called map_fb
    pte,     \* its page table entries: frame, writable, copy-on-write
    kfb,     \* the kernel's page table for the framebuffer, NoFrame before gui_init
    hasKfb,  \* the directory was copied after gui_init, so it points at kfb too
    fault    \* "none", "oom", "halted" or "fbfreed"

vars == <<used, refs, data, pstate, dir, table, fbTable, pte, kfb, hasKfb, fault>>
frameVars == <<used, refs>>
procVars == <<pstate, dir, table, fbTable, hasKfb>>

Absent == [f |-> NoFrame, rw |-> 0, cow |-> 0]
Private(f) == [f |-> f, rw |-> 1, cow |-> 0]
Shared(f) == [f |-> f, rw |-> 0, cow |-> 1]
NoPages == [pg \in Pages |-> Absent]

Present(p, pg) == pte[p][pg].f # NoFrame
Unused == Frames \ used

\* The frame that the k-th of several successive pmm_alloc_frame calls returns:
\* each takes the lowest clear bit.
Nth(k) == CHOOSE f \in Unused : Cardinality({g \in Unused : g < f}) = k - 1
Left == Cardinality(Unused)

Init ==
    /\ used = {}
    /\ refs = [f \in Frames |-> 0]
    /\ data = [f \in Frames |-> ImageValue]
    /\ pstate = [p \in Procs |-> "none"]
    /\ dir = [p \in Procs |-> NoFrame]
    /\ table = [p \in Procs |-> NoFrame]
    /\ fbTable = [p \in Procs |-> NoFrame]
    /\ pte = [p \in Procs |-> NoPages]
    /\ kfb = NoFrame
    /\ hasKfb = [p \in Procs |-> 0]
    /\ fault = "none"

----------------------------------------------------------------------------
(* pmm.c                                                                   *)

\* pmm_alloc_frame for every frame of F.
Alloc(F) ==
    /\ used' = used \cup F
    /\ refs' = [f \in Frames |-> IF f \in F THEN 1 ELSE refs[f]]

\* pmm_free_frame once for every frame of F: frames whose count was not zero
\* lose a reference, and are returned when the last one goes.
FreedRefs(F) == [f \in Frames |-> IF f \in F /\ refs[f] > 0 THEN refs[f] - 1 ELSE refs[f]]
FreedUsed(F) == used \ {f \in F : refs[f] = 1}
Free(F) == used' = FreedUsed(F) /\ refs' = FreedRefs(F)

\* Mutant of Addref: the new reference is not counted.
AddrefForgotten(f) == refs[f]

\* pmm_frame_addref: an unsigned char wraps around.
Addref(f) == (refs[f] + 1) % RefModulus

\* What a freed frame keeps of its contents is not tracked.
Forget(F) == [f \in Frames |-> IF f \in F /\ refs[f] = 1 THEN ImageValue ELSE data[f]]

\* An allocation whose result 0 nobody checks: frame 0 is used as if it had
\* been allocated.  Nothing after that is modelled.
UncheckedOOM == fault' = "oom" /\ UNCHANGED <<frameVars, data, procVars, pte, kfb>>

----------------------------------------------------------------------------
(* The run command: cmd_run, paging_clone_kernel_directory, elf_load       *)

\* paging_clone_kernel_directory: the kernel's framebuffer entry comes along.
StartBuild(p) ==
    /\ fault = "none" /\ pstate[p] = "none"
    /\ \/ Left = 0 /\ UncheckedOOM
       \/ /\ Left >= 1
          /\ Alloc({Nth(1)})
          /\ dir' = [dir EXCEPT ![p] = Nth(1)]
          /\ hasKfb' = [hasKfb EXCEPT ![p] = IF kfb = NoFrame THEN 0 ELSE 1]
          /\ pstate' = [pstate EXCEPT ![p] = "building"]
          /\ UNCHANGED <<data, table, fbTable, pte, kfb, fault>>

\* pmm_alloc_frame() for a page and paging_map_user_page(dir, page, pg, RW),
\* which allocates the table on the first use of the region.
MapPage(p, pg) ==
    /\ pte' = [pte EXCEPT ![p][pg] = Private(Nth(1))]
    /\ \/ /\ table[p] # NoFrame
          /\ Alloc({Nth(1)})
          /\ UNCHANGED table
       \/ /\ table[p] = NoFrame
          /\ Alloc({Nth(1), Nth(2)})
          /\ table' = [table EXCEPT ![p] = Nth(2)]

\* One round of elf_load's page loop: allocate, clear, copy the file's bytes,
\* map.  The page's frame is checked (LoadFails), the table's is not.
LoadPage(p, pg) ==
    /\ fault = "none" /\ pstate[p] = "building"
    /\ pg \in ImagePages /\ ~Present(p, pg) /\ \A x \in 1..(pg - 1) : Present(p, x)
    /\ \/ /\ Left >= (IF table[p] = NoFrame THEN 2 ELSE 1)
          /\ MapPage(p, pg)
          /\ data' = [data EXCEPT ![Nth(1)] = ImageValue]
          /\ UNCHANGED <<pstate, dir, fbTable, hasKfb, kfb, fault>>
       \/ /\ table[p] = NoFrame /\ Left = 1
          /\ UncheckedOOM

\* elf_load fails (not an ELF file, or out of memory): cmd_run returns without
\* freeing anything, and the frames allocated so far stay allocated.
LoadFails(p) ==
    /\ fault = "none" /\ pstate[p] = "building"
    /\ \/ \A pg \in Pages : ~Present(p, pg)
       \/ Left = 0 /\ \E pg \in ImagePages : ~Present(p, pg)
    /\ pstate' = [pstate EXCEPT ![p] = "lost"]
    /\ UNCHANGED <<frameVars, data, dir, table, fbTable, hasKfb, pte, kfb, fault>>

\* The stack frame (not checked, and not cleared: it holds anything), then
\* task_create_user: the process runs.
MapStackAndStart(p) ==
    /\ fault = "none" /\ pstate[p] = "building"
    /\ \A pg \in ImagePages : Present(p, pg)
    /\ \/ Left = 0 /\ UncheckedOOM
       \/ /\ Left >= 1
          /\ MapPage(p, StackPage)
          /\ \E v \in Values : data' = [data EXCEPT ![Nth(1)] = v]
          /\ pstate' = [pstate EXCEPT ![p] = "live"]
          /\ UNCHANGED <<dir, fbTable, hasKfb, kfb, fault>>

----------------------------------------------------------------------------
(* Stores                                                                  *)

\* A user store to a page the CPU lets it write.
Store(p, pg, v) ==
    /\ fault = "none" /\ pstate[p] = "live"
    /\ pte[p][pg].rw = 1
    /\ data' = [data EXCEPT ![pte[p][pg].f] = v]
    /\ UNCHANGED <<frameVars, procVars, pte, kfb, fault>>

\* Mutant of SoleOwner: one other reference is overlooked.
SoleOwnerOrTwo(f) == refs[f] <= 2

SoleOwner(f) == refs[f] <= 1

\* The write faults that isr_handler does not get resolved: the machine halts.
Unresolved(p, pg) ==
    pte[p][pg].cow = 0 \/ (~SoleOwner(pte[p][pg].f) /\ Left = 0)

\* A user store to a page it may not write: isr_handler passes the fault to
\* paging_handle_cow_fault, and the store is tried again afterwards.
CowFault(p, pg) ==
    /\ fault = "none" /\ pstate[p] = "live"
    /\ pte[p][pg].rw = 0
    /\ LET old == pte[p][pg].f IN
       \/ /\ pte[p][pg].cow = 1 /\ SoleOwner(old)
          /\ pte' = [pte EXCEPT ![p][pg] = Private(old)]
          /\ UNCHANGED <<frameVars, data, fault>>
       \/ /\ pte[p][pg].cow = 1 /\ ~SoleOwner(old)
          /\ Left >= 1
          /\ LET new == Nth(1) IN
                /\ used' = used \cup {new}
                /\ refs' = [refs EXCEPT ![new] = 1, ![old] = @ - 1]
                /\ data' = [data EXCEPT ![new] = data[old]]
                /\ pte' = [pte EXCEPT ![p][pg] = Private(new)]
          /\ UNCHANGED fault
       \/ /\ Unresolved(p, pg)
          /\ fault' = "halted"
          /\ UNCHANGED <<frameVars, data, pte>>
    /\ UNCHANGED <<procVars, kfb>>

\* The kernel stores a result through the caller's pointer in ring 0, and with
\* CR0.WP clear the CPU ignores a read-only page table entry there.  (Bound: the
\* pointer is to one of the program's pages, and the result does not straddle two.)
StoreResult(p, pg, v) ==
    /\ Present(p, pg)
    /\ ResultsOnSharedPage \/ pte[p][pg].rw = 1
    /\ data' = [data EXCEPT ![pte[p][pg].f] = v]

\* SYS_WAIT stores the exit status, SYS_MOUSE_STATE the mouse's, and SYS_MAP_FB of a
\* process that has the framebuffer already its description once more.
KernelStore(p, pg, v) ==
    /\ fault = "none" /\ pstate[p] = "live"
    /\ StoreResult(p, pg, v)
    /\ UNCHANGED <<frameVars, procVars, pte, kfb, fault>>

----------------------------------------------------------------------------
(* fork, exec, exit                                                        *)

\* The tables an address space has.
TablesOf(p) == {table[p], fbTable[p]} \ {NoFrame}

\* Mutant of ParentKeeps: only the child's entry becomes read-only.
ParentKeepsAll(e) == e

\* What a fork leaves the parent of a page table entry.
ParentKeeps(e) == Shared(e.f)

\* SYS_FORK, paging_clone_address_space: every present page of the parent gets
\* a second reference and loses write access on both sides.  The child's
\* directory and tables are allocated without checking.
Fork(p, q) ==
    /\ fault = "none" /\ pstate[p] = "live" /\ pstate[q] = "none"
    /\ LET fb == fbTable[p] # NoFrame
           need == IF fb THEN 3 ELSE 2
           fresh == {Nth(i) : i \in 1..need}
           shared == {pte[p][pg].f : pg \in Pages}
       IN \/ Left < need /\ UncheckedOOM
          \/ /\ Left >= need
             /\ used' = used \cup fresh
             /\ refs' = [f \in Frames |-> IF f \in fresh THEN 1
                                          ELSE IF f \in shared THEN Addref(f)
                                          ELSE refs[f]]
             /\ dir' = [dir EXCEPT ![q] = Nth(1)]
             /\ table' = [table EXCEPT ![q] = Nth(2)]
             /\ fbTable' = [fbTable EXCEPT ![q] = IF fb THEN Nth(3) ELSE NoFrame]
             /\ pte' = [pte EXCEPT ![p] = [pg \in Pages |-> ParentKeeps(pte[p][pg])],
                                  ![q] = [pg \in Pages |-> Shared(pte[p][pg].f)]]
             /\ hasKfb' = [hasKfb EXCEPT ![q] = IF kfb = NoFrame THEN 0 ELSE 1]
             /\ pstate' = [pstate EXCEPT ![q] = "live"]
             /\ UNCHANGED <<data, kfb, fault>>

\* Frames for a directory, a table, the image and the stack.
ExecNeeds == NImage + 3

\* What a process's address space is made of.
FramesOf(p) == {pte[p][pg].f : pg \in {x \in Pages : Present(p, x)}}
                  \cup TablesOf(p) \cup {dir[p]}

\* SYS_EXEC of a valid program: the new address space is built first, then the
\* old one is freed, all in one system call.  The directory's, the table's and
\* the stack's allocations are not checked.
Exec(p) ==
    /\ fault = "none" /\ pstate[p] = "live"
    /\ \/ Left \in {0, 2, ExecNeeds - 1} /\ UncheckedOOM
       \/ /\ Left >= ExecNeeds /\ hasKfb[p] = 1
          /\ fault' = "fbfreed"
          /\ UNCHANGED <<frameVars, data, procVars, pte, kfb>>
       \/ /\ Left >= ExecNeeds /\ hasKfb[p] = 0
          /\ LET old == FramesOf(p)
                 fresh == {Nth(i) : i \in 1..ExecNeeds}
                 page(pg) == Nth(IF pg = 1 THEN 2 ELSE pg + 2)
             IN /\ used' = FreedUsed(old) \cup fresh
                /\ refs' = [f \in Frames |-> IF f \in fresh THEN 1 ELSE FreedRefs(old)[f]]
                /\ \E v \in Values : data' = [Forget(old) EXCEPT ![page(StackPage)] = v]
                /\ pte' = [pte EXCEPT ![p] = [pg \in Pages |-> Private(page(pg))]]
          /\ dir' = [dir EXCEPT ![p] = Nth(1)]
          /\ table' = [table EXCEPT ![p] = Nth(3)]
          /\ fbTable' = [fbTable EXCEPT ![p] = NoFrame]
          /\ hasKfb' = [hasKfb EXCEPT ![p] = IF kfb = NoFrame THEN 0 ELSE 1]
          /\ UNCHANGED <<pstate, kfb, fault>>

\* SYS_EXEC of an invalid program, or out of memory in elf_load: the aborted
\* address space is freed again, which changes nothing unless its directory
\* holds a pointer to the kernel's framebuffer table.
ExecAborts(p) ==
    /\ fault = "none" /\ pstate[p] = "live"
    /\ Left >= 1 /\ kfb # NoFrame
    /\ fault' = "fbfreed"
    /\ UNCHANGED <<frameVars, data, procVars, pte, kfb>>

\* SYS_EXIT: the address space stays until the zombie is reaped.
Exit(p) ==
    /\ fault = "none" /\ pstate[p] = "live"
    /\ pstate' = [pstate EXCEPT ![p] = "zombie"]
    /\ UNCHANGED <<frameVars, data, dir, table, fbTable, hasKfb, pte, kfb, fault>>

----------------------------------------------------------------------------
(* Reaping: task_wait_specific, paging_free_address_space                  *)

\* One page, in ascending order: drop its frame's reference, clear the entry.
ReapPage(p, pg) ==
    /\ fault = "none" /\ pstate[p] = "zombie"
    /\ Present(p, pg) /\ \A x \in 1..(pg - 1) : ~Present(p, x)
    /\ Free({pte[p][pg].f})
    /\ data' = Forget({pte[p][pg].f})
    /\ pte' = [pte EXCEPT ![p][pg] = Absent]
    /\ UNCHANGED <<procVars, kfb, fault>>

\* The tables, the directory.  The loop runs over every entry above the
\* identity map: a directory copied after gui_init also points at the kernel's
\* framebuffer table, which is cleared and freed with the rest.
ReapRest(p) ==
    /\ fault = "none" /\ pstate[p] = "zombie"
    /\ \A pg \in Pages : ~Present(p, pg)
    /\ \/ /\ hasKfb[p] = 1
          /\ fault' = "fbfreed"
          /\ UNCHANGED <<frameVars, procVars>>
       \/ /\ hasKfb[p] = 0
          /\ Free(TablesOf(p) \cup {dir[p]})
          /\ pstate' = [pstate EXCEPT ![p] = "none"]
          /\ dir' = [dir EXCEPT ![p] = NoFrame]
          /\ table' = [table EXCEPT ![p] = NoFrame]
          /\ fbTable' = [fbTable EXCEPT ![p] = NoFrame]
          /\ UNCHANGED <<hasKfb, fault>>
    /\ UNCHANGED <<data, pte, kfb>>

----------------------------------------------------------------------------
(* The framebuffer                                                         *)

\* What paging_map_kernel_page allocates for the framebuffer: a page table
\* outside the identity map, once.
KernelTables == IF kfb = NoFrame THEN 1 ELSE 0

\* gui_init through the desktop command.  It returns at once if it has succeeded
\* before, and directories that exist already do not get a pointer to the table.
GuiInit ==
    /\ fault = "none" /\ HasVbe /\ KernelTables = 1
    /\ Left >= 1
    /\ Alloc({Nth(1)}) /\ kfb' = Nth(1)
    /\ UNCHANGED <<data, procVars, pte, fault>>

\* SYS_MAP_FB: gui_init if nobody did (it can fail, and nothing changes), then
\* the framebuffer in the process's own directory, whose table is allocated
\* without checking, and its description for the program.  The framebuffer's own
\* frames are outside pmm.c's range.
MapFb(p) ==
    /\ fault = "none" /\ HasVbe /\ pstate[p] = "live" /\ fbTable[p] = NoFrame
    /\ LET need == KernelTables + 1
       IN \/ Left = need - 1 /\ UncheckedOOM
          \/ /\ Left >= need
             /\ Alloc({Nth(i) : i \in 1..need})
             /\ kfb' = IF KernelTables = 1 THEN Nth(1) ELSE kfb
             /\ fbTable' = [fbTable EXCEPT ![p] = Nth(need)]
             /\ \E pg \in Pages, v \in Values : StoreResult(p, pg, v)
             /\ UNCHANGED <<pstate, dir, table, hasKfb, pte, fault>>

----------------------------------------------------------------------------
Next ==
    \/ GuiInit
    \/ \E p \in Procs :
         \/ StartBuild(p) \/ LoadFails(p) \/ MapStackAndStart(p)
         \/ Exec(p) \/ ExecAborts(p) \/ Exit(p) \/ ReapRest(p) \/ MapFb(p)
         \/ \E q \in Procs : Fork(p, q)
         \/ \E pg \in Pages : \/ LoadPage(p, pg) \/ CowFault(p, pg) \/ ReapPage(p, pg)
                              \/ \E v \in Values : Store(p, pg, v) \/ KernelStore(p, pg, v)

Spec == Init /\ [][Next]_vars

----------------------------------------------------------------------------
(* Properties                                                              *)

PTEs == [f : Frames \cup {NoFrame}, rw : {0, 1}, cow : {0, 1}]

TypeOK ==
    /\ used \subseteq Frames
    /\ refs \in [Frames -> 0..(RefModulus - 1)]
    /\ data \in [Frames -> Values]
    /\ pstate \in [Procs -> {"none", "building", "live", "zombie", "lost"}]
    /\ dir \in [Procs -> Frames \cup {NoFrame}]
    /\ table \in [Procs -> Frames \cup {NoFrame}]
    /\ fbTable \in [Procs -> Frames \cup {NoFrame}]
    /\ pte \in [Procs -> [Pages -> PTEs]]
    /\ kfb \in Frames \cup {NoFrame}
    /\ hasKfb \in [Procs -> {0, 1}]
    /\ fault \in {"none", "oom", "halted", "fbfreed"}

Mappings(f) == {m \in Procs \X Pages : pte[m[1]][m[2]].f = f}
Structures(f) == {p \in Procs : f \in TablesOf(p) \cup {dir[p]}}

\* Frame accounting (pmm.c:30-35): a frame's count is the number of user
\* mappings of it, one more if it is a directory or a table; a frame is free
\* exactly when nothing refers to it.  No frame is freed while in use, and none
\* is leaked except by a failed run command ("lost" still refers to its frames).
RefcountsExact ==
    \A f \in Frames :
        /\ refs[f] = Cardinality(Mappings(f)) + Cardinality(Structures(f))
                       + (IF f = kfb THEN 1 ELSE 0)
        /\ f \in used <=> refs[f] > 0

\* A frame that serves as a directory or table serves nothing else: no user
\* page, and no second directory or table.
StructuresAreExclusive ==
    \A f \in Frames :
        (Structures(f) # {} \/ f = kfb) =>
            /\ Mappings(f) = {}
            /\ Cardinality(Structures(f)) + (IF f = kfb THEN 1 ELSE 0) = 1
            /\ \A p \in Procs : dir[p] = f => f \notin TablesOf(p)

\* Every frame is accounted for, through forks, faults, exits and the reaping of
\* one process in the middle of the others' steps.
FramesAreSound == TypeOK /\ RefcountsExact /\ StructuresAreExclusive

\* Copy-on-write: a page a process can write is mapped by nobody else, and a
\* page it cannot write is marked so that the fault handler will resolve it.
WritableIsPrivate ==
    \A p \in Procs, pg \in Pages :
        Present(p, pg) => /\ pte[p][pg].rw = 1 => Mappings(pte[p][pg].f) = {<<p, pg>>}
                          /\ pte[p][pg].rw = 1 <=> pte[p][pg].cow = 0

\* The memory of each live process as its own loads see it.
mem == [p \in Procs |-> IF pstate[p] = "live"
                        THEN [pg \in Pages |-> data[pte[p][pg].f]]
                        ELSE NoMem]

PM == INSTANCE PrivateMemory

\* Sharing frames between forked processes is invisible: the system implements
\* one private memory per process.  cow_test.c:1 and paging.c:190-200 promise
\* no less.
ImplementsPrivateMemory == PM!PMSpec
=============================================================================
