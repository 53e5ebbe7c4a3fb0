------------------------------- MODULE Sched -------------------------------
(***************************************************************************)
(* Tasks and the preemptive round-robin scheduler of kernel/task.c, with   *)
(* the parts of the CPU it relies on: the interrupt flag, the timer        *)
(* interrupt (timer.c, isr_stubs.s) and the stack switch of                *)
(* context_switch.s.                                                       *)
(*                                                                         *)
(* A slot stands for the heap address of a struct task; a reaped task's    *)
(* slot may be handed out again by kmalloc, as addresses are.  There is    *)
(* one CPU.  `current` is the kernel's current_task; `cpu` is the task     *)
(* whose stack the CPU is really on.  They differ between the assignment   *)
(* to current_task in schedule() and the stack switch a few instructions   *)
(* later, which a timer interrupt can hit when schedule() was entered with *)
(* interrupts on.                                                          *)
(*                                                                         *)
(* context_switch does not save EFLAGS, so a task that went to sleep in    *)
(* task_block() wakes up with the interrupt flag of whoever switched to    *)
(* it, while a task preempted by the timer returns through iret and gets   *)
(* its own flag back.                                                      *)
(***************************************************************************)
EXTENDS Integers, FiniteSets

CONSTANTS
    Slots,  \* addresses a struct task can have
    Main,   \* task 0: kernel_main, then the console shell
    Bg,     \* the background kernel task, which never blocks
    Null

ASSUME SchedAssumption ==
    /\ Main \in Slots /\ Bg \in Slots /\ Main # Bg
    /\ Null \notin Slots
    /\ IsFiniteSet(Slots)

VARIABLES
    current,     \* current_task
    cpu,         \* the task whose kernel stack the CPU is executing on
    ints,        \* EFLAGS.IF: 1 when interrupts are enabled
    next, prev,  \* the circular task list
    state,       \* "FREE" (no struct here), "READY", "BLOCKED" or "ZOMBIE"
    parent,      \* t->parent
    isUser,      \* t->is_user
    saved,       \* what t->esp points at, see Contexts
    pc,          \* where the task's own code is, see PCs
    child,       \* the task a creator is building or a waiter is waiting for
    hosted,      \* tasks hosted in desktop windows
    task_count,
    fault        \* "none", or how the machine stopped making sense

vars == <<current, cpu, ints, next, prev, state, parent, isUser, saved, pc,
          child, hosted, task_count, fault>>
cpuVars == <<current, cpu, ints, saved, fault>>
ringVars == <<next, prev, task_count>>
taskVars == <<parent, isUser>>

\* "none": nothing valid (not built yet, or stale because the task is running);
\* "new": task_trampoline; "forked": syscall_return_tail over a copied frame;
\* "irq": suspended inside the timer interrupt; "call": inside task_block().
Contexts == {"none", "new", "forked", "irq", "call"}

PCs == {"spin",      \* bg_task_entry
        "prompt",    \* a shell waiting for a key in keyboard_getchar
        "edit",      \* an editor window waiting for a key
        "desktop",   \* desktop_run's event loop
        "closing",   \* desktop_run closing every window on the way out
        "build",     \* in task_create*, after task_alloc_common
        "first", "second",  \* the same, for the tasks of cmd_mutextest
        "more",      \* cmd_mutextest between the two
        "await",     \* cmd_mutextest waiting for both, in its hlt loop
        "test",      \* mutex_test_task's loop
        "idle",      \* mutex_test_task's own hlt, at the end
        "user",      \* ring 3
        "check",     \* the while condition of task_wait_specific
        "scan",      \* the guarded scan of task_wait_any
        "block",     \* about to call task_block()
        "sched",     \* in task_block(), state set, about to pick a task
        "switch",    \* in schedule(), current_task set, stack not switched
        "unlink", "free",  \* reaping
        "exit"}      \* in task_exit_current, already marked ZOMBIE

\* A struct is in the list and has no stack yet.
Building == {"build", "first", "second"}

Linked == {s \in Slots : next[s] # Null}
Free == {s \in Slots : state[s] = "FREE"}

\* kernel_main: itself, and the background task it creates.
Booted == {Main, Bg}

Init ==
    /\ current = Main /\ cpu = Main
    /\ ints = 1
    /\ next = [s \in Slots |-> CASE s = Main -> Bg [] s = Bg -> Main [] OTHER -> Null]
    /\ prev = [s \in Slots |-> CASE s = Main -> Bg [] s = Bg -> Main [] OTHER -> Null]
    /\ state = [s \in Slots |-> IF s \in Booted THEN "READY" ELSE "FREE"]
    /\ parent = [s \in Slots |-> IF s = Bg THEN Main ELSE Null]
    /\ isUser = [s \in Slots |-> 0]
    /\ saved = [s \in Slots |-> IF s = Bg THEN "new" ELSE "none"]
    /\ pc = [s \in Slots |-> IF s = Bg THEN "spin" ELSE "prompt"]
    /\ child = [s \in Slots |-> Null]
    /\ hosted = {}
    /\ task_count = Cardinality(Booted)
    /\ fault = "none"

----------------------------------------------------------------------------
(* schedule() and context_switch                                           *)

\* The list as the loop of schedule() walks it: Walk(p)[i] is the task reached
\* after following i next pointers from p.
Walk(p) ==
    LET w[i \in 0..Cardinality(Slots)] == IF i = 0 THEN p ELSE next[w[i - 1]] IN w

\* Mutant of Picks: only BLOCKED tasks are skipped.
PicksZombies(st, p, n) ==
    \E i \in 1..Cardinality(Slots) :
        /\ Walk(p)[i] = n
        /\ st[n] # "BLOCKED" \/ n = p
        /\ \A j \in 1..(i - 1) : st[Walk(p)[j]] = "BLOCKED" /\ Walk(p)[j] # p

\* Mutant of Picks: the walk starts at the head of the list every time.
PicksFromMain(st, p, n) ==
    \E i \in 1..Cardinality(Slots) :
        /\ Walk(Main)[i] = n
        /\ st[n] = "READY" \/ n = p
        /\ \A j \in 1..(i - 1) : st[Walk(Main)[j]] # "READY" /\ Walk(Main)[j] # p

\* schedule() called with current_task = p picks n: the first READY task after
\* p, or p itself when the loop comes back round.  st is the state array.
Picks(st, p, n) ==
    \E i \in 1..Cardinality(Slots) :
        /\ Walk(p)[i] = n
        /\ st[n] = "READY" \/ n = p
        /\ \A j \in 1..(i - 1) : st[Walk(p)[j]] # "READY" /\ Walk(p)[j] # p

\* EFLAGS.IF once a task runs again: every way out of an interrupt or a system
\* call, and of the trampoline, ends with interrupts on; a return from
\* task_block() leaves the flag f as it was.
FlagAfter(context, f) == IF context = "call" THEN f ELSE 1

\* Mutant of SwitchTo: task_trampoline and the interrupt return leave the flag.
SwitchKeepsFlag(n, f, sv) ==
    /\ current' = n /\ cpu' = n
    /\ ints' = f
    /\ saved' = [sv EXCEPT ![n] = "none"]
    /\ fault' = IF sv[n] = "none" THEN "halfbuilt" ELSE fault

\* The stack switch to task n, entered with interrupt flag f and the outgoing
\* task's context already stored in sv.  Loading an esp that nobody stored is
\* undefined.
SwitchTo(n, f, sv) ==
    /\ current' = n /\ cpu' = n
    /\ \/ /\ sv[n] = "none"
          /\ fault' = "halfbuilt"
          /\ ints' = f /\ saved' = sv
       \/ /\ sv[n] # "none"
          /\ ints' = FlagAfter(sv[n], f)
          /\ saved' = [sv EXCEPT ![n] = "none"]
          /\ UNCHANGED fault

\* Mutant of Unblock: whatever the state was, READY it is.
UnblockAnything(st, t) == [s \in Slots |-> IF s = t /\ st[s] # "FREE" THEN "READY" ELSE st[s]]

\* task_unblock(t) applied to the state array.  A parent that was reaped before its
\* child leaves a dangling pointer, and task_unblock() reads freed memory through
\* it: the new task if one has the address by now, else, here, the dead one (kfree
\* leaves the field alone).  Another use of that memory is not modelled.
Unblock(st, t) == [s \in Slots |-> IF s = t /\ st[s] = "BLOCKED" THEN "READY" ELSE st[s]]

\* irq_handler() runs for the timer: it acknowledges the interrupt before it calls
\* the routine, so that ticks keep coming whichever task runs next.
TimerInterrupt == fault = "none" /\ ints = 1

\* timer_callback() calls schedule() with interrupts off.  The interrupted
\* stack is stored under current_task, which is only right if it is cpu's.
Tick ==
    /\ TimerInterrupt
    /\ \E n \in Slots :
          /\ Picks(state, current, n) /\ n # current
          /\ \/ /\ cpu = current
                /\ SwitchTo(n, 0, [saved EXCEPT ![cpu] = "irq"])
             \/ /\ cpu # current
                /\ fault' = "misfiled"
                /\ UNCHANGED <<current, cpu, ints, saved>>
    /\ UNCHANGED <<ringVars, taskVars, state, pc, child, hosted>>

----------------------------------------------------------------------------
(* task_block()                                                            *)

\* s runs its own code.
Runs(s, where) == fault = "none" /\ cpu = s /\ pc[s] = where

Goto(s, where) == pc' = [pc EXCEPT ![s] = where]

\* current_task->state = TASK_BLOCKED.
BlockMark(s) ==
    /\ Runs(s, "block")
    /\ state' = [state EXCEPT ![s] = "BLOCKED"]
    /\ Goto(s, "sched")
    /\ UNCHANGED <<cpuVars, ringVars, taskVars, child, hosted>>

\* Where a task is once schedule() returns to it: back at the head of its wait
\* loop, in mutex_lock(), or in the hlt loop that ends task_exit_current().
\* Kernel tasks other than shells have no child.
Retry(s) == CASE state[s] = "ZOMBIE" -> "exit"
              [] state[s] # "ZOMBIE" /\ isUser[s] = 1 -> "scan"
              [] state[s] # "ZOMBIE" /\ isUser[s] # 1 /\ child[s] = Null -> "test"
              [] OTHER -> "check"

\* The body of schedule() up to the stack switch.
BlockPick(s) ==
    /\ Runs(s, "sched")
    /\ \E n \in Slots :
          /\ Picks(state, current, n)
          /\ current' = n
          /\ Goto(s, IF n = s THEN Retry(s) ELSE "switch")
    /\ UNCHANGED <<cpu, ints, saved, fault, ringVars, taskVars, state, child, hosted>>

\* context_switch(&prev->esp, next->esp).
BlockSwitch(s) ==
    /\ Runs(s, "switch")
    /\ SwitchTo(current, ints, [saved EXCEPT ![s] = "call"])
    /\ Goto(s, Retry(s))
    /\ UNCHANGED <<ringVars, taskVars, state, child, hosted>>

----------------------------------------------------------------------------
(* Creating tasks                                                          *)

\* task_alloc_common(): the new struct is READY and in the list, right after
\* the current task, before it has a stack.
AllocCommon(t) ==
    /\ t \in Free
    /\ next' = [next EXCEPT ![t] = next[current], ![current] = t]
    /\ prev' = [prev EXCEPT ![t] = current, ![next[current]] = t]
    /\ state' = [state EXCEPT ![t] = "READY"]
    /\ parent' = [parent EXCEPT ![t] = current]
    /\ task_count' = task_count + 1

\* cmd_run up to task_alloc_common() in task_create_user().
Run(s, t) ==
    /\ Runs(s, "prompt")
    /\ AllocCommon(t)
    /\ isUser' = [isUser EXCEPT ![t] = 1]
    /\ pc' = [pc EXCEPT ![s] = "build", ![t] = "user"]
    /\ child' = [child EXCEPT ![s] = t, ![t] = Null]
    /\ UNCHANGED <<cpuVars, hosted>>

\* desktop_run() discards the keys typed ahead and then sleeps in hlt, so it
\* sees a key or a click only with interrupts on.
DesktopEvent(s) == Runs(s, "desktop") /\ ints = 1

\* open_window(): a terminal or an editor, up to task_alloc_common() in
\* task_create().
OpenWindow(s, t) ==
    /\ DesktopEvent(s)
    /\ AllocCommon(t)
    /\ isUser' = [isUser EXCEPT ![t] = 0]
    /\ \E app \in {"prompt", "edit"} : pc' = [pc EXCEPT ![s] = "build", ![t] = app]
    /\ child' = [child EXCEPT ![s] = t, ![t] = Null]
    /\ UNCHANGED <<cpuVars, hosted>>

\* task_create(mutex_test_task) up to task_alloc_common().
NewTest(s, t, stage) ==
    /\ AllocCommon(t)
    /\ isUser' = [isUser EXCEPT ![t] = 0]
    /\ pc' = [pc EXCEPT ![s] = stage, ![t] = "test"]
    /\ child' = [child EXCEPT ![s] = t, ![t] = Null]
    /\ UNCHANGED <<cpuVars, hosted>>

\* cmd_mutextest creates two tasks.  (Bound: it starts with two addresses left.)
FirstTest(s, t) == Runs(s, "prompt") /\ Free # {t} /\ NewTest(s, t, "first")
SecondTest(s, t) == Runs(s, "more") /\ NewTest(s, t, "second")

\* The rest of task_create / task_create_user: the stack, then t->esp.  cmd_run
\* goes on to task_wait_specific(child), open_window records the hosted task.
FinishBuild(s) ==
    /\ pc[s] \in Building /\ Runs(s, pc[s])
    /\ saved' = [saved EXCEPT ![child[s]] = "new"]
    /\ \/ pc[s] = "first" /\ Goto(s, "more") /\ UNCHANGED hosted
       \/ pc[s] = "second" /\ Goto(s, "await") /\ UNCHANGED hosted
       \/ /\ pc[s] = "build" /\ isUser[child[s]] = 1
          /\ Goto(s, "check") /\ UNCHANGED hosted
       \/ /\ pc[s] = "build" /\ isUser[child[s]] # 1
          /\ Goto(s, "desktop") /\ hosted' = hosted \cup {child[s]}
    /\ UNCHANGED <<current, cpu, ints, fault, ringVars, taskVars, state, child>>

\* Mutant of Fork: the child's esp is never set.
ForkWithoutStack(s, t) ==
    /\ Runs(s, "user")
    /\ AllocCommon(t)
    /\ isUser' = [isUser EXCEPT ![t] = 1]
    /\ pc' = [pc EXCEPT ![t] = "user"]
    /\ child' = [child EXCEPT ![t] = Null]
    /\ UNCHANGED <<current, cpu, ints, saved, fault, hosted>>

\* SYS_FORK: the whole system call runs with interrupts off.
Fork(s, t) ==
    /\ Runs(s, "user")
    /\ AllocCommon(t)
    /\ isUser' = [isUser EXCEPT ![t] = 1]
    /\ saved' = [saved EXCEPT ![t] = "forked"]
    /\ pc' = [pc EXCEPT ![t] = "user"]
    /\ child' = [child EXCEPT ![t] = Null]
    /\ UNCHANGED <<current, cpu, ints, fault, hosted>>

----------------------------------------------------------------------------
(* mutextest (Mutex.tla has the mutex itself)                              *)

\* mutex_lock() finds the mutex taken and calls task_block(), or the loop is done
\* and the task halts for ever.
TestStep(s) ==
    /\ Runs(s, "test")
    /\ \E l \in {"block", "idle"} : Goto(s, l)
    /\ UNCHANGED <<cpuVars, ringVars, taskVars, state, child, hosted>>

\* mutex_unlock(): task_unblock() of a task that sleeps in mutex_lock().
TestWakes(s, t) ==
    /\ Runs(s, "test")
    /\ state[t] = "BLOCKED" /\ isUser[t] = 0 /\ child[t] = Null
    /\ state' = Unblock(state, t)
    /\ UNCHANGED <<cpuVars, ringVars, taskVars, pc, child, hosted>>

\* The shell finds that both tasks are done (a count in Mutex.tla).
AwaitEnds(s) ==
    /\ Runs(s, "await")
    /\ Goto(s, "prompt")
    /\ UNCHANGED <<cpuVars, ringVars, taskVars, state, child, hosted>>

----------------------------------------------------------------------------
(* Exiting and being killed                                                *)

\* SYS_EXIT, task_exit_current() with interrupts off: with nobody left READY
\* the CPU stays in the final hlt loop.
Exit(s) ==
    /\ Runs(s, "user")
    /\ state' = Unblock([state EXCEPT ![s] = "ZOMBIE"], parent[s])
    /\ Goto(s, "exit")
    /\ IF task_count <= 1
       THEN fault' = "halted" /\ UNCHANGED <<current, cpu, ints, saved>>
       ELSE \E n \in Slots :
               /\ Picks(state', current, n)
               /\ IF n = s THEN fault' = "hung" /\ UNCHANGED <<current, cpu, ints, saved>>
                           ELSE SwitchTo(n, 0, saved)
    /\ UNCHANGED <<ringVars, taskVars, child, hosted>>

\* An editor window's entry function calls task_exit_current(0) with interrupts
\* on: the ZOMBIE mark ...
ExitMark(s) ==
    /\ Runs(s, "edit")
    /\ state' = [state EXCEPT ![s] = "ZOMBIE"]
    /\ Goto(s, "exit")
    /\ UNCHANGED <<cpuVars, ringVars, taskVars, child, hosted>>

\* ... and, unless a tick already took the CPU away for good, the rest, up to
\* the call of schedule().
ExitWake(s) ==
    /\ Runs(s, "exit")
    /\ state' = Unblock(state, parent[s])
    /\ \/ task_count <= 1 /\ fault' = "halted" /\ UNCHANGED pc
       \/ task_count > 1 /\ Goto(s, "sched") /\ UNCHANGED fault
    /\ UNCHANGED <<current, cpu, ints, saved, ringVars, taskVars, child, hosted>>

\* close_window(): task_force_terminate() of another task, which then is never
\* picked again; the struct is not reaped.
CloseWindow(s, t) ==
    /\ DesktopEvent(s) \/ Runs(s, "closing")
    /\ t \in hosted
    /\ state' = Unblock([state EXCEPT ![t] = "ZOMBIE"], parent[t])
    /\ hosted' = hosted \ {t}
    /\ UNCHANGED <<cpuVars, ringVars, taskVars, pc, child>>

\* task_push_input_char(): a key for a window wakes its task, whatever the task
\* is waiting for.
PushKey(s, t) ==
    /\ DesktopEvent(s)
    /\ t \in hosted
    /\ state' = Unblock(state, t)
    /\ UNCHANGED <<cpuVars, ringVars, taskVars, pc, child, hosted>>

\* The desktop command, quitting it, and returning once every window is closed.
Desktop(s) ==
    /\ s = Main
    /\ \/ Runs(s, "prompt") /\ Goto(s, "desktop")
       \/ DesktopEvent(s) /\ Goto(s, "closing")
       \/ Runs(s, "closing") /\ hosted = {} /\ Goto(s, "prompt")
    /\ UNCHANGED <<cpuVars, ringVars, taskVars, state, child, hosted>>

----------------------------------------------------------------------------
(* Waiting and reaping                                                     *)

\* while (child->state != TASK_ZOMBIE) of task_wait_specific().
WaitCheck(s) ==
    /\ Runs(s, "check")
    /\ Goto(s, IF state[child[s]] = "ZOMBIE" THEN "unlink" ELSE "block")
    /\ UNCHANGED <<cpuVars, ringVars, taskVars, state, child, hosted>>

\* SYS_WAIT enters the kernel with interrupts off.
SysWait(s) ==
    /\ Runs(s, "user")
    /\ ints' = 0
    /\ Goto(s, "scan")
    /\ UNCHANGED <<current, cpu, saved, fault, ringVars, taskVars, state, child, hosted>>

\* Mutant of Children: anybody's child will do.
AnyTask(s) == Linked \ {s, Main, Bg}

Children(s) == {t \in Linked : parent[t] = s /\ t # s}

\* One guarded scan of the list in task_wait_any(): the first zombie child is
\* reaped; no child at all returns -1 to ring 3; otherwise sleep.
WaitScan(s) ==
    /\ Runs(s, "scan")
    /\ LET dead == {t \in Children(s) : state[t] = "ZOMBIE"}
           at(t) == CHOOSE i \in 1..Cardinality(Slots) : Walk(s)[i] = t
       IN  \/ /\ dead # {}
              /\ \E t \in dead :
                    /\ \A u \in dead : at(t) <= at(u)
                    /\ child' = [child EXCEPT ![s] = t]
              /\ Goto(s, "unlink")
              /\ UNCHANGED ints
           \/ /\ Children(s) = {}
              /\ Goto(s, "user")
              /\ ints' = 1
              /\ UNCHANGED child
           \/ /\ Children(s) # {} /\ dead = {}
              /\ Goto(s, "block")
              /\ UNCHANGED <<child, ints>>
    /\ UNCHANGED <<current, cpu, saved, fault, ringVars, taskVars, state, hosted>>

\* Mutant of Unlink: child->next->prev is not updated.
UnlinkForward(s) ==
    /\ Runs(s, "unlink")
    /\ LET c == child[s] IN
          /\ next' = [next EXCEPT ![prev[c]] = next[c], ![c] = Null]
          /\ prev' = [prev EXCEPT ![c] = Null]
    /\ task_count' = task_count - 1
    /\ Goto(s, "free")
    /\ UNCHANGED <<cpuVars, taskVars, state, child, hosted>>

\* task_wait_specific(): the guarded unlinking of a zombie.
Unlink(s) ==
    /\ Runs(s, "unlink")
    /\ LET c == child[s] IN
          /\ next' = [next EXCEPT ![prev[c]] = next[c], ![c] = Null]
          /\ prev' = [prev EXCEPT ![next[c]] = prev[c], ![c] = Null]
    /\ task_count' = task_count - 1
    /\ Goto(s, "free")
    /\ UNCHANGED <<cpuVars, taskVars, state, child, hosted>>

\* The address space (AddressSpaces.tla), the kernel stack and the struct are
\* freed.  A shell goes back to its prompt with the flag it has; a system call
\* returns through iret.
FreeTask(s) ==
    /\ Runs(s, "free")
    /\ state' = [state EXCEPT ![child[s]] = "FREE"]
    /\ saved' = [saved EXCEPT ![child[s]] = "none"]
    /\ child' = [child EXCEPT ![s] = Null]
    /\ Goto(s, IF isUser[s] = 1 THEN "user" ELSE "prompt")
    /\ ints' = IF isUser[s] = 1 THEN 1 ELSE ints
    /\ UNCHANGED <<current, cpu, fault, ringVars, taskVars, hosted>>

\* keyboard_getchar() and desktop_run() execute hlt when there is no key, and
\* mutextest's shell and finished tasks execute it in any case.  With interrupts
\* off nothing ever ends it.
HaltUninterruptible(s) ==
    /\ \E w \in {"prompt", "edit", "desktop", "await", "idle"} : Runs(s, w)
    /\ ints = 0
    /\ fault' = "hung"
    /\ UNCHANGED <<current, cpu, ints, saved, ringVars, taskVars, state, pc, child, hosted>>

----------------------------------------------------------------------------
Step(s) ==
    \/ BlockMark(s) \/ BlockPick(s) \/ BlockSwitch(s)
    \/ FinishBuild(s) \/ Exit(s) \/ ExitMark(s) \/ ExitWake(s)
    \/ WaitCheck(s) \/ SysWait(s) \/ WaitScan(s) \/ Unlink(s) \/ FreeTask(s)
    \/ Desktop(s) \/ HaltUninterruptible(s) \/ TestStep(s) \/ AwaitEnds(s)
    \/ \E t \in Slots : \/ Run(s, t) \/ OpenWindow(s, t) \/ Fork(s, t)
                        \/ FirstTest(s, t) \/ SecondTest(s, t) \/ TestWakes(s, t)
                        \/ CloseWindow(s, t) \/ PushKey(s, t)

\* A tick, or a step of the task on the CPU.
Next == Tick \/ Step(cpu)

Spec == Init /\ [][Next]_vars

\* Kernel code that waits for nothing, and the hlt that ends everything.  The
\* loop of mutex_test_task is bounded.
KernelStep(s) ==
    \/ BlockMark(s) \/ BlockPick(s) \/ BlockSwitch(s) \/ FinishBuild(s)
    \/ ExitWake(s) \/ WaitCheck(s) \/ WaitScan(s) \/ Unlink(s) \/ FreeTask(s)
    \/ HaltUninterruptible(s) \/ TestStep(s) \/ \E t \in Slots : SecondTest(s, t)

\* The CPU executes (with interrupts off no key arrives, so a shell gets to its
\* hlt); the timer keeps firing and the PIC holds a tick that came while
\* interrupts were off until they are on again, hence strong fairness.
Fairness == WF_vars(KernelStep(cpu)) /\ SF_vars(Tick)

FairSpec == Spec /\ Fairness

----------------------------------------------------------------------------
(* Properties                                                              *)

TypeOK ==
    /\ current \in Slots /\ cpu \in Slots
    /\ ints \in {0, 1}
    /\ next \in [Slots -> Slots \cup {Null}]
    /\ prev \in [Slots -> Slots \cup {Null}]
    /\ state \in [Slots -> {"FREE", "READY", "BLOCKED", "ZOMBIE"}]
    /\ parent \in [Slots -> Slots \cup {Null}]
    /\ isUser \in [Slots -> {0, 1}]
    /\ saved \in [Slots -> Contexts]
    /\ pc \in [Slots -> PCs]
    /\ child \in [Slots -> Slots \cup {Null}]
    /\ hosted \subseteq Slots
    /\ task_count \in Int
    /\ fault \in {"none", "halfbuilt", "misfiled", "hung", "halted"}

\* next and prev are inverse on the tasks in the list, and a freed struct is
\* never in it (task_alloc_common links, task_wait_specific unlinks).
ListConsistent ==
    /\ \A s \in Linked : /\ next[s] \in Linked /\ prev[s] \in Linked
                         /\ prev[next[s]] = s /\ next[prev[s]] = s
    /\ \A s \in Slots : state[s] = "FREE" => next[s] = Null
    /\ current \in Linked /\ cpu \in Linked

\* The list is one cycle, so schedule()'s walk visits every task, and
\* task_count is its length.
OneRing ==
    /\ ListConsistent
    /\ {Walk(Main)[i] : i \in 0..Cardinality(Slots)} = Linked
    /\ task_count = Cardinality(Linked)

\* The scheduler never runs a task that is asleep, dead or killed: such a task
\* is on the CPU only on its way out, in task_block() or task_exit_current().
OnlyReadyTasksRun ==
    fault = "none" /\ state[cpu] # "READY" => pc[cpu] \in {"exit", "sched", "switch"}

\* Every task that schedule() may pick now or after a wake-up, other than the
\* one on the CPU, has a context to resume, unless its creator is still
\* building it.
SleepersHaveContexts ==
    fault = "none" =>
      \A s \in Linked \ {cpu} :
         state[s] # "ZOMBIE" /\ saved[s] = "none" =>
            \E b \in Slots : pc[b] \in Building /\ child[b] = s

\* schedule() switches to nobody who is asleep or dead, and to nobody without a
\* stack to return to.
OnlySoundTasksRun == OnlyReadyTasksRun /\ SleepersHaveContexts

\* Ring 3 always runs with interrupts on, whatever flag the task that switched
\* to it left behind.
UserModeIsPreemptible ==
    fault = "none" /\ pc[cpu] = "user" => ints = 1

\* While a task waits for, builds or reaps a child, the child's struct is not
\* given back and still names it as parent: no two tasks reap the same one.
ChildStaysWithItsWaiter ==
    \A s \in Slots : state[s] # "FREE" /\ child[s] # Null =>
        state[child[s]] # "FREE" /\ parent[child[s]] = s

\* A dead task stays dead until it is reaped, and only a dead task that is out
\* of the list and off the CPU is ever freed.
DeathIsFinal ==
    [][\A s \in Slots :
          /\ state[s] = "ZOMBIE" => state'[s] \in {"ZOMBIE", "FREE"}
          /\ state[s] # "FREE" /\ state'[s] = "FREE" =>
                state[s] = "ZOMBIE" /\ next[s] = Null /\ s # cpu]_state

\* Round robin: a task that is READY gets the CPU (or is killed) unless the
\* machine has stopped.
GetsTheCPU(s) == state[s] = "READY" ~> cpu = s \/ state[s] # "READY" \/ fault # "none"

\* The machine stops making sense in three windows only.  A switch to a task
\* without a context happens while its creator is between task_alloc_common and
\* the store of t->esp; a context is misfiled while schedule(), entered with
\* interrupts on, is between current_task = next and the stack switch; and the
\* CPU halts for good only in a hlt that the code executes itself, with the
\* interrupt flag it inherited: a shell's, the desktop's or that of a finished
\* task of mutextest.  Never in an editor, and never for want of a READY task
\* (the background task never sleeps).
FaultsOnlyInKnownWindows ==
    /\ fault = "halfbuilt" => \E b \in Slots : pc[b] \in Building /\ child[b] = cpu
    /\ fault = "misfiled" => pc[cpu] = "switch" /\ current # cpu
    /\ fault = "hung" => pc[cpu] \in {"prompt", "desktop", "await", "idle"}
    /\ fault # "halted"
=============================================================================
