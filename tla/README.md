# A TLA+ model of Kronked OS

Kronked OS is a small single-core x86 kernel in C: a preemptive scheduler, processes with
copy-on-write fork, a heap, a FAT16 file system over an ATA disk, a blocking mutex, a console, a
small BASIC, a game, and a windowed desktop with a mouse that hosts shells and editors. This
directory holds TLA+ specifications of the parts that carry its logic, TLC configurations that check
them on small instances, and TLAPS proofs.

## 1. The system

| component | state | operations | interacts with |
|---|---|---|---|
| tasks, scheduler (`task.c`, `context_switch.s`, `timer.c`, `isr_stubs.s`) | circular list of task structs (state, parent, saved stack pointer), `current_task`, EFLAGS.IF | create, fork, block, unblock, exit, force-terminate, wait, timer tick | everything that sleeps or is preempted |
| mutex (`mutex.c`) | flag, array of 16 waiters | lock, try_lock, unlock | scheduler; used by `mutextest` in `shell.c` |
| physical memory (`pmm.c`) | bitmap, 8-bit reference counts | alloc, free, addref | paging, heap |
| address spaces (`paging.c`, `elf.c`, `syscall.c`, `gui.c`) | directories, page tables, COW bits, the kernel's framebuffer table | run, fork, exec, fault, exit, reap, map_fb, gui_init | pmm, scheduler |
| heap (`heap.c`) | block list, `heap_end` | kmalloc, kfree, heap_extend | pmm, paging |
| FAT16 (`fat16.c`) | two table copies, root directory, clusters | write, delete, find + read | ATA; shell, editor, exec; no lock |
| ATA (`ata.c`) | the drive's registers, its state, words transferred | read sectors, write sectors, two polling loops with a limit | FAT16; no lock |
| keyboard (`keyboard.c`) | ring buffer filled by an interrupt | has_char, getchar | desktop, SYS_GETCHAR_NB |
| mouse (`mouse.c`) | bytes of a packet, position, buttons, dirty flag | init, interrupt handler, consume_dirty | desktop |
| desktop (`desktop.c`, input rings and redirects of `task.c`) | windows, stacking order, focus, drag, one ring and one dirty flag per hosted task | open, close, click, drag, route keys, redraw, quit | keyboard, mouse, console, scheduler |
| console (`vga.c`) | text screen, graphics buffer and what is drawn of it, one buffer per window, a cursor for each | putc, backspace, scroll, clear, put_at, set_cursor | shell, snake, SYS_WRITE, desktop |
| shell (`shell.c`), editor | line buffer | commands | all of the above |
| Kronk (`kronk.c`) | static program, variables and error flags | load, execute a line, evaluate | shell, FAT16 |
| snake (`snake.c`) | body, food, direction | keys, step, draw | console |
| serial, framebuffer, PCI, VBE, GDT, IDT, boot | devices | I/O | |

What makes it hard: kernel tasks run with interrupts on, so a tick may fall between any two of their
instructions; system calls and faults run with interrupts off; a spinlock is only "interrupts off";
`context_switch` does not save the interrupt flag; memory exhaustion is seldom checked; disk
operations are several accesses with no lock, and each access is a sequence of port accesses; flags
are tested in one statement and cleared in another; several shells share the interpreter's static
tables; and windows are closed by killing their task wherever it is. `PROJECT.json` lists each
hazard at its line.

What makes each component correct:

- scheduler: one ring of tasks, nobody dead or asleep runs, every resumable task has a saved
  context, no lost wake-up, no starvation;
- mutex: exclusion, no lost update, sleepers are woken, the lock is released;
- memory: reference counts equal references, nothing writable is shared, a process sees only its own
  stores;
- heap: blocks tile the heap, live blocks never overlap or move, free neighbours merge;
- FAT16: saved files stay intact, no cluster has two owners or none, both copies agree, operations
  end;
- ATA: an access moves the sectors it was asked for, the boot area is never written, a dead drive
  does not hang the caller;
- desktop: consistent window stack, no task without a window, each key once and in order; what
  changes is drawn;
- mouse: packets are found again after a lost byte or a restart, and no button stays pressed;
- console and shell: the screen shows the line that the command gets; nothing is stored past a
  buffer;
- Kronk: a program does what its text says, and ends;
- snake: a path that does not cross itself, drawn as it is.

## 2. Modules

| module | models | checked by |
|---|---|---|
| `Mutex`, `CountingLock` | mutex.c and cmd_mutextest; the lock it implements | `MCMutex` |
| `Sched` | task.c, the timer, the stack switch, the interrupt flag | `MCSched` |
| `Sched_proofs` | theorems about `Sched` | TLAPS |
| `AddressSpaces`, `PrivateMemory` | pmm.c, paging.c, elf_load, fork/exec/exit/wait/map_fb; processes with private memories | `MCAddressSpaces` |
| `AddressSpaces_proofs` | theorems about `AddressSpaces` and its refinement | TLAPS |
| `Heap` | heap.c over the frames of pmm.c | `MCHeap` |
| `Heap_proofs` | theorems about `Heap` | TLAPS |
| `Fat16` | fat16.c, one step per ATA access | `MCFat16` |
| `Fat16_proofs` | theorems about `Fat16` | TLAPS |
| `Ata` | ata.c, one step per port access, with the drive | `MCAta` |
| `Ata_proofs` | theorems about `Ata` | TLAPS |
| `Desktop` | keyboard.c, the input rings of task.c, the windows of desktop.c | `MCDesktop` |
| `Desktop_proofs` | theorems about `Desktop` | TLAPS |
| `Mouse`, `Compositor` | mouse.c; the frames of desktop.c and the redirects' dirty flags, over `Mouse` | `MCCompositor` |
| `Compositor_proofs` | theorems about both | TLAPS |
| `Console`, `Snake`, `Terminal` | vga.c; snake.c; read_line and dispatch of shell.c, which put the two together | `MCTerminal` |
| `Kronk`, `KronkLang` | kronk_run of kronk.c, loader and loop; exec_line with the expressions, and what they mean | `MCKronk` |
| `Shell_proofs` | theorems about `Mutex`, `Console`, `Snake`, `Terminal` and `Kronk` | TLAPS |

Each `MC` module only names sets of model values, symmetries and views. Each module has definitions
commented "Mutant of X": changed forms of a definition, used to confirm that a property fails when
the code is wrong; nothing else refers to them.

**Mutex.** A guarded section is one step; each other access another task can see is a step of its
own: `Lock` (lines 30-48 of mutex.c) and `Block` (line 50) are separate, which is where a wake-up
can get lost, and so are `Unlock` and `Wake`. The test task reads and writes the counter in two
steps and increments `done_count` in two steps. Shells start tests (resetting the globals) and
report. `clash` is a history variable: a test was started while another was going.

**Sched.** A slot is the address of a task struct, and may be reused. `current` is `current_task`,
`cpu` is the task whose stack is really in use; they differ between `current_task = next` and
`context_switch`. `saved[t]` says what `t->esp` points at and thereby how the task resumes: a fresh
task and an interrupted one turn interrupts on, one that slept in `task_block` keeps the flag of
whoever switched to it. `Picks` is the loop of `schedule()`. Kernel code that runs with interrupts
on is split at every point where a tick matters: `task_block` into `BlockMark`, `BlockPick`,
`BlockSwitch`; `task_create*` into `AllocCommon` (in `Run`, `OpenWindow`) and `FinishBuild`; waiting
into `WaitCheck`/`WaitScan`, `Unlink`, `FreeTask`. `fault` records the end of the machine: "hung"
(hlt with interrupts off), "halfbuilt", "misfiled", "halted"; nothing happens after it. The desktop
is started from the console shell only. The two tasks of `mutextest` are there as far as the
scheduler is concerned: they block, wake each other and end in a `hlt` of their own (`TestStep`,
`TestWakes`); what the mutex guarantees is in `Mutex`. A parent that was reaped before its child
leaves a pointer to freed memory (task.c:354, 414); the struct is taken to be as it was until another
task gets it.

**AddressSpaces.** One page table for image and stack (they lie in one 4 MiB region), one more for a
user framebuffer mapping. System calls and faults are one step; the run command and reaping happen
in shells with interrupts on and take one step per page. A frame has contents only while it holds a
user page. Allocations whose result the code does not check end in `fault = "oom"`, which is where
the model stops; checked ones follow the code's error path. Freeing the kernel's framebuffer table
ends in "fbfreed". Three system calls store a result through a pointer of the program's (wait,
syscall.c:169; map_fb, 198-202; mouse_state, 212-214; `StoreResult`); `ResultsOnSharedPage` says
whether programs pass them a pointer into a page they share since fork.

**Heap.** Sizes are in words (the header is three), pages are scaled. Of the physical allocator only
the number of free frames is kept; its other users take and return frames in between. When
`heap_extend` gets fewer frames than it asked for, `kmalloc` hands out a block that reaches past
`heap_end`: `overrun` records it and the model stops.

**Fat16.** Files are versions of a given number of clusters; a cluster holds <<version, index>>.
Every ATA access of an operation is one step; between two, other tasks run, an access may fail
(`AtaError` follows each caller's reaction) or the task is killed (`Kill`). The numbers that the code
follows (2 to 0xFFF7, `Clusters`) are more than the volume has (`DataClusters`): a corrupt table may
lead past its end, where every number still has a table entry, and data that is only read. Buffers
are counted in whole clusters; the editor's (`EditorLimit`) may be shorter than the file it opens.
`saved` is what each file should hold, and how far its chain reaches: fat16.c:384 ignores that a link
was not written, and the save reports success. `stale` are the names whose rewrite or delete was
given up after their chain had been freed: the directory entry still leads to those clusters.
`spoiled` is set when a later operation on such a name frees clusters that are in use again.

**Desktop.** Keys are numbered as typed. The compositor's read (`Route`, `Advance`) and push
(`Push`, `Store`) are two steps each since SYS_GETCHAR_NB and the start of the hosted task
interleave with them; `torn` records that this happened. A click may hit any window.

**Ata.** A task can be preempted between any two port accesses, so each write to a register, each
poll of the status and each word is a step. Addresses are kept as the two digits that go into
LBA_LOW and LBA_MID; of the data only its place is kept. The drive is external: it is busy as long
as it likes, may fail any command, and does what it likes with a register or command written while
it is busy or has data. `disturbed` records that one access fell into another or was given up by a
timeout, after which the drive may serve the next access with what the last one asked for.

**Mouse, Compositor.** The device is external; it sends three bytes per packet and acknowledges
commands. `Mouse` has the handler and the steps of `mouse_init`, each of which the interrupt can
separate: an acknowledgement may reach the handler as data, the device may be in the middle of a
packet when `packet_index` is reset, and before the handler is installed a byte that arrives jams
the controller (`jammed`, mouse.c:170) until the next `mouse_init`. `quiet` counts movements without
bit 3 since the last loss. `Compositor` adds the loop of `desktop_run`: the test and the clearing of
each flag are two steps, as are storing a character and marking the window, and the two coordinates
of the cursor are read one after the other. `stale` and `shownX`, `shownY` are history: what the
screen does not show yet.

**Console, Snake, Terminal.** A grid is a function from positions to characters. `Console` gives the
effect of a character on the text screen, on the graphics buffer with its picture, and on a window;
`overran` counts characters stored past a grid. A character that leaves the last row and the
scrolling that follows are two steps (`pending`), since a system call of a user program may fall
between them. Such a program may write (`OtherWrites`), or engage graphics mode with SYS_MAP_FB and
draw on the framebuffer itself, past the console (`ProgramDraws`; `painted` is history: it has drawn
since the console last drew the whole screen). `Terminal` runs one shell at a time: the console's,
or, inside `desktop`, the window's. The texts it prints are parameters.

**Kronk, KronkLang.** `Kronk` is the machine: it loads lines, runs them and jumps among them. What a
statement does by itself (to the variables, the output and the flags, and where it goes on) is the
operator parameter `Effect`; `KronkLang` has the translation, `exec_line`, which the run puts in its
place. Lines are token sequences; spelling and blanks are left out. The parser's operators compute
while they parse, as the code does. `Meaning` gives the value of an expression
without a parser (split at the last operator of the lowest rank outside parentheses), and `Run`
executes a program with it: both are references, not translations. A statement is one step, INPUT
two; storing a line is separate from the test for room, because the program and its index are static
and shells share them. Left out are lines longer than `MAX_LINE_LEN` (kronk.c:303-304 cuts them off
at 99 characters) and the number 0. `mixed` records that two runs overlapped. An int is one of
`-IntRange..IntRange - 1`.

## 3. Runs

A property that is a conjunction is named for what its parts say together; the parts, each a
definition with its own comment, are in brackets.

| run | properties | bounds |
|---|---|---|
| mutex | MutualExclusion, NeverReportsFail, WaitersAreSleepers, CounterNeverLosesAnUpdate, ImplementsCountingLock, AlwaysReleased | 1 shell, 3 tasks (one polling with try_lock), 3 iterations, 1 waiter slot, so that the array overflows |
| sched | OneRing, OnlySoundTasksRun (OnlyReadyTasksRun, SleepersHaveContexts), UserModeIsPreemptible, ChildStaysWithItsWaiter, FaultsOnlyInKnownWindows, DeathIsFinal, ReadyTaskRuns | 2 boot tasks and 3 reusable structs: two children at once, the two tasks of mutextest, grandchildren, orphans, reuse |
| addressspaces | FramesAreSound (TypeOK, RefcountsExact, StructuresAreExclusive), WritableIsPrivate, ImplementsPrivateMemory | 3 processes, 2 page contents, an image page and a stack page, 9 frames (an address space takes 4: exec and three sharers fit, three separate ones do not), counts modulo 4, the largest of which is reached |
| heap | HeapIsSound (TypeOK, BlocksTile, HeldBlocksAreInUse, NoFreeNeighbours), HeldBlocksStayPut | 5 frames of 16 words, 3 live blocks, 4 sizes (no split, split, most of a page, over a page) |
| fat16 | SavedFilesIntact, ReadReturnsSaved, TablesAreSound (TypeOK, NoClusterLeaks, CopiesAgree) | 1 task, 3 files of at most 2 clusters, 2 directory slots, 3 clusters, 4 operations, 1 error, 1 kill, an editor's buffer of 1 cluster: full disk, full directory, reuse |
| fat16_ends | OperationsEnd | every table over 2 clusters and one number beyond the volume, cyclic ones included, every first entry of the directory; any number of failed accesses |
| ata | BootAreaUntouched, AccessesAreExact (TypeOK, ReadsAreExact, WritesAreExact), AccessesEnd | 2 tasks, registers of 3 values, the partition at sector 3 of 9, accesses of one and of two sectors whose digits all differ, 1 word per sector, 2 polls |
| desktop | WindowsAreSound (TypeOK, StackIsConsistent, NoTaskLingers), KeysArriveOnceInOrder, KeyboardDrains | 2 windows, 2 tasks, 3 keys, 1 raw read, rings that hold 2 keys and overflow |
| compositor | ResyncsAfterQuietMoves, NoPhantomButtons, NothingIsForgotten (CTypeOK, CursorIsNeverForgotten, TextIsNeverForgotten), ScreenCatchesUp | 2 by 1 pixels (the theorem has any screen), 1 window, status bytes 8 and 57 (left button, both signs), movements 1 and 8 (which looks like a status byte) |
| terminal | ScreenIsFaithful (TerminalTypeOK, EchoMatchesLine, ScreenShowsBuffer), SnakeIsSound (NeverTurnsBack, SnakeIsAPath), GameIsDrawn, WritesStayInside | text screen of 6 by 7, graphics of 7 by 7, window of 3 by 4, so that a line of 6 wraps and scrolls; a field of 2 by 5, a snake of at most 4; 2 commands and system calls of programs together (a character written, or the framebuffer mapped and three cells drawn on) |
| kronk | RunsAsWritten, TablesAreSound (KronkTypeOK, LoadsStayInside), RunsEnd | 2 shells, 3-bit integers, 1 variable, room for 3 lines, 4 steps, 20 programs: every pair of operators in every grouping, every relation, overflow, the failing divisions, malformed lines, jumps, loops, input |

One run has a counterexample, against a sentence of the repository that its finding quotes:
`mutex_wakeup`, an unlock between the guard's release and `task_block`, after which the waiter
sleeps forever.

**Other disagreements with the repository's own words** are reachable states of the models, without
a run of their own:

- keyboard.c:79 says that waiting for a key "Blocks (via hlt, so other tasks keep running via
  preemption)". `context_switch` (context_switch.s:12) does not save the interrupt flag, so a task
  that wakes in `task_block` may go on with interrupts off, and its `hlt` never ends: `fault =
  "hung"` in `Sched`.
- cow_test.c:9 says that each side gets its own copy of a page it writes, "without the two ever
  corrupting each other's view". `wait`, `map_fb` and `mouse_state` store their results in ring 0
  (syscall.c:169, 198-202, 212-214), where a read-only page does not fault: with
  `ResultsOnSharedPage = TRUE`, `ImplementsPrivateMemory` fails.
- paging.c:291-292 says that "the shared kernel range is never touched" when an address space is
  destroyed. A directory made before `gui_init` has no entry for the framebuffer, one made later has
  it, and paging.c:309 frees that table with the first such process: `fault = "fbfreed"` in
  `AddressSpaces`.
- fat16.c:286 says of a free cluster that has been found: "claim it immediately". The search
  (fat16.c:284) and the claim are several disk accesses apart, without a lock: with two tasks in
  `Fat16`, two writers get one cluster.

**Other defects** that the models reach, recorded there and in the hazards: a tick before `t->esp`
is stored ("halfbuilt") or between `current_task = next` and the stack switch ("misfiled"); a child
exiting between its parent's check and `task_block` (task.c:391); orphans whose parent's struct was
reused; the lost update of `mutex_test_done_count`; two overlapping tests (`clash`); a reference
count that reaches its modulus; a heap block past `heap_end` (`overrun`); a ring reset in the middle
of a push, or read in the middle of another read (`torn`); a timeout after which the drive serves
the next access with the abandoned command's data, and two accesses that mix their registers
(`disturbed`); the mouse's byte that arrives before its handler is installed; two Kronk programs
loaded at once, which can pass the end of `program[]`; the least integer divided by -1, a processor
exception in the kernel; SYS_WRITE before the shell has scrolled, and snake's cursor on row 24 of a
window with 20 rows, the two ways in which a character is stored past a buffer.

When a program engages graphics mode with SYS_MAP_FB (syscall.c:176), the first character of the
console blanks the screen (vga.c:124-129): what was on the text screen, the line typed so far
included, is not seen again. Later the console does not know what a program draws: the next prompt
stands in the program's picture until a clear or a scroll.

In fat16.c: a link that is not written is ignored (line 384), so a save reports success for a file
that ends there; after a rewrite or delete that failed or was killed half-way, the entry leads to
freed clusters, and the next write or delete of that name may free another file's; with its buffer
full, a read goes on to the end of the chain with `to_read` 0 (lines 174-177), for ever if the editor
opens a file of more than 4095 bytes on a cyclic chain; `fat_free_chain` ignores that an entry was
not written (line 299) and runs round a cyclic chain for as long as the writes fail; and both follow
numbers beyond the end of the volume (lines 174, 296).

The passing runs state what holds in spite of all this. After a `clash`, a `fault`, a torn ring
access, a disturbed disk access or overlapping Kronk runs (`mixed`) the affected guarantee is not
claimed, so that the properties do not cover these cases themselves; of a `stale` file nothing is
claimed, and of none once `spoiled`. `FaultsOnlyInKnownWindows` says that the scheduler fails nowhere
else: not for want of a READY task, and by a `hlt` with interrupts off only in a shell (at its prompt
or waiting in mutextest), the desktop's loop, or a finished task of mutextest (shell.c:231), which
`mutex_lock` may have left with interrupts off. `WritesStayInside` says that no other write leaves a
buffer, and `OperationsEnd` that no other file operation goes on for ever. `BootAreaUntouched` is claimed always: the
partition starts at a multiple of 256 sectors, so that no mix of two addresses' bytes lies in front
of it.

**Reductions.** Processes, tasks and file names are interchangeable, and their permutations are used
as SYMMETRY in runs without liveness. In `sched`, `ReadyTaskRuns` is checked for one of the spare
addresses, which stands for all of them. The view `UpToFrameNames` describes each frame by
everything that refers to it, its count, its bit and its contents; two states with one view are
equal up to a renaming of frames. The allocator takes the lowest free frame, but free frames differ
in nothing else (their contents are not tracked), and no action or property compares frame numbers
otherwise, so renaming is a bisimulation. The safety properties of AddressSpaces were also checked
without a view on 7 frames.

**Deadlock** checking is off where the model may end: bounded numbers of tasks, operations and keys
are used up, finished test tasks halt for good, and a fault state has no successor.

**Fairness.** Mutex: weak fairness of each task's steps, since round robin gives every READY task
the CPU again and again; none for the user typing a command. Sched: weak fairness of kernel code
that waits for nothing, the final `hlt` with interrupts off included, as no key can arrive then;
strong fairness of the tick, as the PIC holds one tick that arrives while interrupts are off and
`irq_handler` acknowledges it before it calls the scheduler. Fat16: each task's steps (ATA waits are
bounded loops); none for failures. Desktop: the compositor's routing only, since it empties the
keyboard's ring in each of its rounds; none for user input and none for the hosted tasks, as a shell
may wait for ever for a program that does not exit (shell.c:193) or in mutextest (shell.c:248).
Compositor: weak fairness of the loop's steps that wait for nothing; strong fairness of the end of a
frame, and of each poll while the mouse is quiet, since a frame polls every flag many times before
its ticks are over and so does not miss one in every frame (the polls themselves are taken also while
packets arrive); none for mouse, keyboard and windows. Ata: each task's
steps (round robin); none for the drive, which may be busy forever. Kronk: the steps of a run; none
for the user who has to answer INPUT. In these three, fairness is written out as what enables the
action and what only it changes, which is the same and quicker to evaluate.

## 4. Proofs

Nearly every theorem has the form `Spec => []P`, where `P` is a property of a run and an inductive
invariant implies it; the others are step properties and two refinements, from the same invariants.
The invariants are named below with what they add to the property. What a run shows on an instance
the theorem states for every value of the constants that the module's assumption allows.

`Shell_proofs`, on `Mutex`, is for every set of tasks and shells, every number of iterations and every size of
the waiter array (`MutexAssumption`):

- `MutexTypeCorrect`: `Spec => []TypeOK`, by one lemma per step of the module.
- `MutexExcludes`: `MutualExclusion`. The invariant `MutexInv` is the conjunction of `TypeOK`,
  `MutualExclusion` (at most one holder, and the flag set exactly while there is one, both unless a
  test was started on top of another) and `TmpIsFresh`: a task about to write the counter back holds
  the counter's present value in `tmp`. Waiters and wake-ups play no part in it: a woken task
  re-checks the flag under the guard.
- `MutexLosesNoUpdate`: the action property `CounterNeverLosesAnUpdate`, from the same invariant:
  the value being replaced is `tmp[t]`, so the write adds one to it.
- `WaitersOnlySleep`: `WaitersAreSleepers`. `WakersAreSound` says that a task which `mutex_unlock`
  has taken out of the array, and not woken yet, still sleeps, is not in the array and is going to
  be woken by one task only; so it cannot register a second time in between.
- `MutexTestPasses`: `NeverReportsFail`. `TestInv` names the set of the tasks of the test that is
  going on (`TestOf`): the counter is the number of pairs of such a task and an iteration it has
  finished, and `done_count`, which may lose updates, is at most the number of tasks that have
  ended, as is every copy of it still to be written back. So when it reaches the number of tasks,
  all have ended and the counter is complete.
- `OneShellNeverClashes` and `MutexImplementsCountingLock`: with one shell (the theorems'
  hypothesis; it is also that of the run) no test starts on top of another, and every step is a step
  of `CountingLock` or leaves it alone. The abstract owner is the one holder (`OwnerIsHolder`).

`Shell_proofs`, on `Terminal` (with `Console` and `Snake`), is for every size of the screens, of the
window and of the field, every character set and text, any number of commands and any number of
characters of other programs. `ConsoleAssumption`, `SnakeAssumption` and `TerminalAssumption` say
that the text screen fits into the framebuffer's grid, that the field has room for a snake that
cannot fill it and lies between the score and the help on the text screen, that the prompt and the
help end no line, and that a prompt and a whole line fit into a screen or window less one row, which
scrolling takes (in the code, 127 characters and a prompt into 60 by 19).

- `SnakeStaysSound`: `SnakeIsSound`. `GameSound` says of the game that its body is a path without
  repetition, that the neck lies behind the head, as the direction of the last step has it, and that
  the requested direction does not point there (keys are compared with the last step's direction, so
  two of them within one step cannot combine), and where the food is. `GameInv` has it from the command to the key that ends the game.
- `WritesAreInside`: the action property `WritesStayInside`, from `TerminalInv`, which adds to
  `GameInv` the types of the grids and cursors: the cursor is one row below the screen only while
  scrolling is pending, and below a window only once snake has placed it there.
- `GameStaysDrawn`: `GameIsDrawn`. `DrawnInv` says that the field is drawn from the moment the game
  starts, while the help is still being printed; that needs the help to stay on the last row
  (`HelpFits`), and the console to have been initialised, since the first character that finds it
  not so would blank the picture. A step is the difference of two pictures: lemmas say for each cell
  what is drawn last on it.
- `ScreenStaysFaithful`: `ScreenIsFaithful`. Cells are numbered along the rows (`Index`), so that a
  line that wraps is contiguous, a scroll subtracts a row from every number, and the proofs need two
  facts about products only: numbers tell cells apart and grow along the grid. `EchoInv` is about a
  text that is still being printed, and that may print anything before its end: the prompt and line
  are the end of what is to be printed (`Follows`), the part of them already printed is in front of
  the cursor (`Shows`), all behind the cursor is blank. A backspace is the one text that shortens it
  (`Rubbing`). `BufferInv` is about graphics mode: the buffer is initialised before the shell goes
  on, so the framebuffer stays its picture, but for the cells of a program
  that has drawn since the console last drew the whole screen (`painted`).

`Shell_proofs`, on `Kronk`, is for every set of terminals, every disk of programs, every width of an
int, every `MAX_LINES` and `MAX_STEPS`, and any statements: `KronkAssumption` asks of `Effect` only
that it leaves ints in the variables and prints ints, which TLC evaluates for `exec_line` on the
programs of `MCKronk`, in all their variables' values.

- `KronkTablesStaySound`: `TablesAreSound`. `KronkInv` says that of two runs at a time both know it
  (`Alone`), so that a run which does not know of another has the statics to itself; that the room
  such a run has tested for is still there when it stores (`RoomIsKept`); and that the places a run
  keeps over a wait or a step, the line to load and the INPUT it asks for, are lines of a file
  (`RunSound`). Running another program resets the statics under a run, but not these.

`Sched_proofs` is for every finite set of task structs (`SchedAssumption`):

- `SchedTypeCorrect` and `UserModeStaysPreemptible` follow from `SchedInv`. The flag a task gets is
  its own unless it slept in `task_block()`, so the invariant says where sleepers are
  (`SleepersAreInKernel`: in the kernel, which they leave through `iret`); that fact survives only
  if no live struct is handed out or freed (`CpuIsCurrent`, `ChildrenAreOthers`), and typing the
  list needs every reaper to have a child (`WaitersHaveChildren`).
- `TasksFormOneRing`: `OneRing`. A ring is a statement about walks of any length, which insertion
  and removal do not preserve in an evident way. `RingInv` says instead that no proper part of the
  list is closed under `next` (`RingIsConnected`); insertion and unlinking preserve that for any
  set, and from it a lemma derives that a walk of as many steps as there are tasks visits every one.
- `SoundTasksRun` (`OnlySoundTasksRun`), `WaitersKeepTheirChildren` (`ChildStaysWithItsWaiter`) and
  `FaultsHaveKnownCauses` (`FaultsOnlyInKnownWindows`) need the whole of `AllInv`: `FamilyInv` says
  which code a task can be in, that the child a task builds, waits for or reaps is its own, and that
  what is unlinked and freed is dead; `RunInv` says that only the task on the CPU is between
  `current_task = next` and the stack switch, that the editor never runs with interrupts off, and
  that a task building another one is not freed. Of `schedule()` it is
  used that its walk ends at a READY task or at its caller (`PicksReady`), and, since the ring is
  connected and the background task is always READY, that `task_exit_current` finds somebody to run.
- `DeadTasksStayDead`: the action property `DeathIsFinal`.

`Ata_proofs` is for every set of tasks and requests, every register width, disk size and polling
limit (`AtaAssumption`, which says that the partition starts at a multiple of the register width and
fits into two digits):

- `AtaTypeCorrect`, `BootAreaIsSafe`: `AtaInv` adds to `BootAreaUntouched` that every request lies in
  the partition, that LBA_MID never points in front of its start (`RegistersPointBehind`), whoever
  wrote it and whatever LBA_LOW holds, and that an occupied drive is behind it (`DriveIsBehind`).
  The arithmetic, that a larger address has a quotient at least as large, is in lemmas about the two
  digits.
- `AccessesMoveWhatWasAsked`: `AccessesAreExact`. `ExactInv` holds until an access falls into
  another: at most one task is past its first register (`OneAtATime`), the registers hold what it
  has written so far (`RegistersHold`), and the drive is at the very sector and word that the task
  is at, or still commits the sector before, or has failed (`Follows`, `Rests`).

`AddressSpaces_proofs` is for any number of frames, image pages and page contents
(`AddressSpacesAssumption`), and for fewer processes than the reference count has values
(`Cardinality(Procs) < RefModulus`, 256 in the code; with more, the count of a page that all of them
share wraps around, the hazard at pmm.c:151):

- `FramesAreAccounted`: `FramesAreSound`; `WritablePagesArePrivate`: `WritableIsPrivate`. `FrameInv`
  says of each frame that its count is the number of its references, that a directory or table is
  one process's or the kernel's and is nobody's page, and that a frame is mapped at one page number
  only (`FrameOK`); of each process what it has in each stage of its life (`Lifecycle`); and that
  frames without a page are as good as cleared (`Contents`). `FrameOK` mentions one page number
  because that bounds the count by the number of processes. Every action is a sequence of a few
  changes of a frame's references (mapped, shared, unmapped, made a table, given back), each of them
  a lemma.
- `AddressSpacesArePrivate`: `ImplementsPrivateMemory`, if in addition no system call stores its result in
  a shared page (`ResultsOnSharedPage = FALSE`): the store in ring 0 is a real violation, see section
  3. A process sees the contents of the frames that its entries name, and each step changes what one
  process sees, in the way `PrivateMemory` has it, or nothing (`KeepsView`).

`Heap_proofs` is for every page and header size, any amount of memory and any sizes of requests
(`HeapAssumption`):

- `HeapStaysSound`: `HeapIsSound`; `HeldBlocksAreLeftAlone`: the action property
  `HeldBlocksStayPut`. `HeapInv` puts the counting part of `HeldBlocksAreInUse` as a correspondence
  (`Held`): every pointer held is that of a block in use which is large enough, every block in use
  has a holder, no two holders have one pointer. Since blocks follow each other without a gap,
  addresses grow along the list, so a pointer tells blocks apart. `kmalloc` is a lemma about a list
  in which one block is replaced by one or two (`Carves`), `kfree`'s pass one about the list after
  the first k blocks (`Coalesced`): it is tidy and merged, ends where block k ends, and has the
  blocks in use among those k, unchanged. `HeapInv` also says that `heap_end` is a whole number of
  pages, without which the frames under the heap could not be counted.

`Fat16_proofs` is for every number of clusters, directory slots, names, operations, failed accesses
and kills, files of any size and editors of any buffer. `Fat16Assumption` keeps the volume's cluster
numbers below 0xFFF8, where the end marks of a chain begin; the numbers between the two are followed
like any other. `Types` (`Spec => []TypeOK`) is for any number of tasks on any disk and any table:
what the loops follow they have checked against 2 and 0xFFF8, and data is written to clusters that
`fat_alloc_cluster` found, which are the volume's. The other three have the hypothesis `OneTask`, that
no two tasks are in the file system: fat16.c takes no lock, and two tasks in it do give one cluster to
two files (see 3). They speak of the files that are not `stale` and hold until `spoiled` is set, and
follow from one inductive invariant, `TypeInv` and `FileInv`:

- `FilesStayIntact`: `SavedFilesIntact`. A chain cannot be described by the path that follows it,
  which every step of an unrelated operation could change; `Rest` describes it from its clusters: a
  cluster tagged <<version, i>> leads to the one tagged <<version, i + 1>>, and the last one to a
  given end. `VersionsFresh` says that versions are given once and no tag is on two clusters, so the
  chains of two versions are disjoint. `FilesSound` says it of each file that is `Kept`, that is,
  neither `stale` nor the one whose old chain may be being freed at the moment, up to where its chain
  reaches; `ReachSound` that this is the whole file while no access has failed and never nothing.
  `FreeingSound` is about the part of a chain not yet freed, `Emptied` that what a stale
  entry leads to is free already, so that freeing it once more frees nothing else; `BuildingSound` about the part already built, whose last
  cluster leads to the cluster just claimed or to the end mark. Once a link has been lost
  (`loc.reach`), the clusters behind it are a chain of their own that nothing leads to. `ClaimSound`
  says that the cluster being claimed is in none of them. `SlotFound` ties
  the operation to its directory entry across the accesses in between, and `DirectorySound` says that
  there is one entry for each saved file and none after the end of the directory.
- `ReadsAreWhole`: `ReadReturnsSaved`. `ReadingSound` says that what was read is the beginning of
  what was saved, as far as the buffer takes it, and that the cluster in hand is the one that comes
  next.
- `TablesStaySound`: `TablesAreSound`. `CopiesInv` lets the copies differ in the entry that is being
  written only, as long as no access has failed and no task was killed; `NothingLeaked` accounts for
  each cluster that is in use: it belongs to a kept file, to the part of a chain still to be freed,
  to the chain being built, or it is the cluster just claimed.

`Walk`, the function of `Fat16` that follows a chain, is recursive; that it exists and follows
`Rest` is proved by a least counterexample, see below. `MCFat16` checks the
three properties with one task.

`Desktop_proofs` is for every number of windows, tasks and keys and rings of any size from two cells
(`DesktopAssumption`):

- `WindowsStaySound`: `WindowsAreSound`. `WinInv` adds that no window is in the stack twice, that
  windows and live tasks correspond (`Hosting`), and that a key in hand is for the task of an open
  window (`Routing`): the desktop routes all keys before it looks at the mouse.
- `KeysAreDeliveredOnce`: `KeysArriveOnceInOrder`. The cells of a ring have a rank, their distance
  from the tail, whether or not the ring has wrapped around; `KeysInOrder` says that keys grow with
  their rank, that what a task has read is below what waits in its ring, which is below the key in
  the compositor's hand, which is below what waits in the keyboard's ring, and that no key is with
  two tasks. It is claimed while no ring access was torn.

`Compositor_proofs` is for every set of status bytes (with bit 3) and movement bytes, every screen
and every number of windows (`MouseAssumption`, `WindowsAssumption`):

- `DriverResyncs`, `CompositorResyncs`: `ResyncsAfterQuietMoves`, of the driver alone and under the
  desktop. `QuietCloses` gives each pair of positions a distance, the number of quiet movements
  after which driver and device agree, and says that it and the movements counted so far are at most
  three.
- `ButtonsAreNotImagined`: `NoPhantomButtons`. `ButtonInv` bounds how long the buttons can stay
  wrong for each reason: a packet to be thrown away, one begun with a byte that is not the device's
  status.
- `NothingGetsForgotten`: `NothingIsForgotten`, with the types. The property about text is not
  inductive, since the end of a frame forgets `need_redraw`; `StoredSinceDrawn` adds that what was
  stored since the windows were drawn has its own flag, or is about to get it.

Where an argument goes by induction over numbers (the walks of `Sched`, the pass of `kfree`, the
chains of `Fat16`, the growth of addresses), or takes the first of some lines (`find_line_index`), the proofs take a least counterexample: every nonempty set of naturals has a
least element, which is proved from the library's theorem that finite sets are well founded under
strict inclusion. The induction theorems themselves take an operator as a parameter, which the
provers cannot instantiate.

Only model-checked: the liveness properties (`AlwaysReleased`, `ReadyTaskRuns`, `OperationsEnd`,
`AccessesEnd`, `KeyboardDrains`, `ScreenCatchesUp`, `RunsEnd`), which are outside
the prover's reach, and `RunsAsWritten`. That property compares two recursive evaluations, an
induction over expressions; it is in `KronkLang`, with the RECURSIVE operators, for which the prover
has no backend, and the run checks it over the programs of `MCKronk`.

## 5. Not modelled, and the plan

Not modelled: pixels, fonts, VBE, PCI, serial, banner, cpuinfo, descriptor tables and boot (I/O and
constants); the build tools; what the user programs compute (a process may make any system call at
any time); what the kernel does after an unchecked exhaustion put frame 0 to use; ELF header
contents; pids; a second desktop started inside a terminal window; scrolling cell by cell, and the
two stores of one character and its colour; the compositor's redraw over a game; snake's score and
random numbers; the editor's text buffer.

Planned, in this order:

1. The identity map shared by `Heap` and `AddressSpaces`: as the heap grows, its window covers
   physical addresses at which page tables are accessed (heap.c:38).
2. The editor's buffer on `Console`, with its saves as the writes of `Fat16`.
