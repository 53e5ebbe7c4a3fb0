---------------------------- MODULE Sched_proofs ----------------------------
(***************************************************************************)
(* Theorems about Sched, for any finite set of task structs: the           *)
(* scheduler's state is well typed, ring 3 always runs with interrupts on  *)
(* although context_switch does not save the interrupt flag, the task list *)
(* stays one ring, only tasks that are READY and have a stack are switched *)
(* to, waiters keep their children, a dead task stays dead, and the        *)
(* machine stops making sense in the known windows only.                   *)
(*                                                                         *)
(* The first part is self-contained (SchedInv).  The second needs one      *)
(* larger invariant, AllInv: the list is connected (RingInv), every child  *)
(* belongs to its waiter (FamilyInv), and what the task on the CPU and the *)
(* sleepers look like (RunInv).                                            *)
(***************************************************************************)
EXTENDS Sched, FiniteSetTheorems, WellFoundedInduction, TLAPS

\* The three places in which a task builds another one.
USE DEF Building

\* A task that will wake up with somebody else's interrupt flag, because it
\* slept in task_block(), is in the kernel; no freed struct is such a task.
SleepersAreInKernel ==
    \A s \in Slots : saved[s] = "call" => /\ pc[s] \in {"check", "scan", "test", "exit"}
                                          /\ state[s] # "FREE"

\* A task is never its own child.
ChildrenAreOthers == \A s \in Slots : child[s] # s

\* A creator, a task in task_wait_specific() and a reaper have a child.
WaitersHaveChildren ==
    \A s \in Slots :
      /\ pc[s] \in Building \cup {"check", "unlink"} => child[s] \in Slots
      /\ pc[s] \in {"user", "scan"} => isUser[s] = 1
      /\ pc[s] = "exit" => state[s] \in {"ZOMBIE", "FREE"}

\* The task on the CPU and the current task exist, and are the same one except
\* between the assignment to current_task and the stack switch.
CpuIsCurrent ==
    fault = "none" => /\ state[cpu] # "FREE" /\ state[current] # "FREE"
                      /\ saved[cpu] = "none"
                      /\ pc[cpu] # "switch" => current = cpu

\* The inductive invariant.
SchedInv ==
    TypeOK /\ SleepersAreInKernel /\ ChildrenAreOthers /\ WaitersHaveChildren
        /\ CpuIsCurrent /\ UserModeIsPreemptible

----------------------------------------------------------------------------
\* schedule() returns a READY task or the one it was called from.
LEMMA PicksReady ==
    ASSUME NEW st, NEW p, NEW n, Picks(st, p, n)
    PROVE  st[n] = "READY" \/ n = p
  BY Zenon DEF Picks

\* task_unblock() only ever turns BLOCKED into READY.
LEMMA UnblockWakes ==
    ASSUME NEW st \in [Slots -> {"FREE", "READY", "BLOCKED", "ZOMBIE"}], NEW t
    PROVE  /\ Unblock(st, t) \in [Slots -> {"FREE", "READY", "BLOCKED", "ZOMBIE"}]
           /\ \A s \in Slots : /\ Unblock(st, t)[s] = "FREE" <=> st[s] = "FREE"
                               /\ Unblock(st, t)[s] = "ZOMBIE" <=> st[s] = "ZOMBIE"
  BY DEF Unblock

LEMMA InitSchedInv == Init => SchedInv
<1> SUFFICES ASSUME Init
             PROVE  SchedInv
  OBVIOUS
<1> USE SchedAssumption
<1>1. task_count \in Int
  <2>1. IsFiniteSet(Booted) /\ Cardinality(Booted) \in Nat
    BY FS_Subset, FS_CardinalityType DEF Booted
  <2>2. QED
    BY <2>1 DEF Init
<1>2. TypeOK
  BY <1>1 DEF Init, TypeOK, Contexts, PCs
<1>3. SleepersAreInKernel /\ ChildrenAreOthers /\ WaitersHaveChildren
  BY DEF Init, SleepersAreInKernel, ChildrenAreOthers, WaitersHaveChildren
<1>4. CpuIsCurrent /\ UserModeIsPreemptible
  BY DEF Init, Booted, CpuIsCurrent, UserModeIsPreemptible
<1>5. QED
  BY <1>2, <1>3, <1>4 DEF SchedInv

\* A task that leaves task_block() is at the head of its wait loop or in the
\* last loop of task_exit_current(), and then it is dead.
LEMMA RetryInKernel ==
    ASSUME NEW s \in Slots
    PROVE  /\ Retry(s) \in {"check", "scan", "test", "exit"}
           /\ Retry(s) = "exit" => state[s] = "ZOMBIE"
           /\ Retry(s) = "scan" => isUser[s] = 1
           /\ Retry(s) = "test" => isUser[s] # 1
           /\ Retry(s) = "check" => isUser[s] # 1 /\ child[s] # Null
  BY DEF Retry

----------------------------------------------------------------------------
LEMMA TickSchedInv == SchedInv /\ Tick => SchedInv'
<1> SUFFICES ASSUME SchedInv, Tick
             PROVE  SchedInv'
  OBVIOUS
<1> USE SchedAssumption DEF SchedInv
<1>1. PICK n \in Slots : 
          /\ Picks(state, current, n) /\ n # current
          /\ \/ /\ cpu = current
                /\ SwitchTo(n, 0, [saved EXCEPT ![cpu] = "irq"])
             \/ /\ cpu # current
                /\ fault' = "misfiled"
                /\ UNCHANGED <<current, cpu, ints, saved>>
  BY Zenon DEF Tick
<1>2. state[n] = "READY"
  BY <1>1, PicksReady
<1>3. UNCHANGED <<ringVars, taskVars, state, pc, child, hosted>> /\ fault = "none"
  BY Zenon DEF Tick, TimerInterrupt
<1>4. CASE cpu = current
  <2>1. SwitchTo(n, 0, [saved EXCEPT ![cpu] = "irq"])
    BY <1>1, <1>4
  <2>2. TypeOK'
    BY <1>3, <2>1 DEF TypeOK, SwitchTo, FlagAfter, Contexts, ringVars, taskVars
  <2>3. QED
    BY <1>2, <1>3, <2>1, <2>2 DEF TypeOK, SwitchTo, FlagAfter, SleepersAreInKernel,
        ChildrenAreOthers, WaitersHaveChildren, CpuIsCurrent, UserModeIsPreemptible,
        ringVars, taskVars
<1>5. CASE cpu # current
  BY <1>1, <1>3, <1>5 DEF TypeOK, SleepersAreInKernel, ChildrenAreOthers,
        WaitersHaveChildren, CpuIsCurrent, UserModeIsPreemptible, ringVars, taskVars
<1>6. QED
  BY <1>4, <1>5

\* task_block(): marking, picking and the stack switch.
LEMMA BlockSchedInv ==
    ASSUME NEW s \in Slots, SchedInv, BlockMark(s) \/ BlockPick(s) \/ BlockSwitch(s)
    PROVE  SchedInv'
<1> USE SchedAssumption DEF SchedInv, TypeOK, SleepersAreInKernel,
        ChildrenAreOthers, WaitersHaveChildren, CpuIsCurrent, UserModeIsPreemptible,
        Runs, Goto, cpuVars, ringVars, taskVars, PCs, Contexts
<1>1. CASE BlockMark(s)
  BY <1>1 DEF BlockMark
<1>2. CASE BlockPick(s)
  <2>1. PICK n \in Slots : /\ Picks(state, current, n)
                           /\ current' = n
                           /\ pc' = [pc EXCEPT ![s] = IF n = s THEN Retry(s) ELSE "switch"]
    BY <1>2, Zenon DEF BlockPick, Goto
  <2>2. state[n] = "READY" \/ n = current
    BY <2>1, PicksReady
  <2>3. Runs(s, "sched")
        /\ UNCHANGED <<cpu, ints, saved, fault, ringVars, taskVars, state, child, hosted>>
    BY <1>2, Zenon DEF BlockPick
  <2>4. QED
    BY <2>1, <2>2, <2>3, RetryInKernel
<1>3. CASE BlockSwitch(s)
  BY <1>3, RetryInKernel DEF BlockSwitch, SwitchTo, FlagAfter
<1>4. QED
  BY <1>1, <1>2, <1>3

\* task_alloc_common() hands out a struct that is not in use, so not the
\* creator's own.
LEMMA AllocTypes ==
    ASSUME NEW t \in Slots, SchedInv, fault = "none", AllocCommon(t)
    PROVE  /\ t # cpu /\ t # current /\ state[t] = "FREE"
           /\ state' = [state EXCEPT ![t] = "READY"]
           /\ next' \in [Slots -> Slots \cup {Null}]
           /\ prev' \in [Slots -> Slots \cup {Null}]
           /\ state' \in [Slots -> {"FREE", "READY", "BLOCKED", "ZOMBIE"}]
           /\ parent' \in [Slots -> Slots \cup {Null}]
           /\ task_count' \in Int
<1> USE SchedAssumption DEF AllocCommon, SchedInv, TypeOK
<1>1. t # cpu /\ t # current /\ state[t] = "FREE"
  BY DEF CpuIsCurrent, Free
<1>2. next' \in [Slots -> Slots \cup {Null}]
  OBVIOUS
<1>3. prev' \in [Slots -> Slots \cup {Null}]
  OBVIOUS
<1>4. QED
  BY <1>1, <1>2, <1>3

\* Creating a task.
LEMMA CreateSchedInv ==
    ASSUME NEW s \in Slots, NEW t \in Slots, SchedInv,
           Run(s, t) \/ OpenWindow(s, t) \/ FinishBuild(s) \/ Fork(s, t)
              \/ FirstTest(s, t) \/ SecondTest(s, t)
    PROVE  SchedInv'
<1> USE SchedAssumption DEF SchedInv, TypeOK, SleepersAreInKernel,
        ChildrenAreOthers, WaitersHaveChildren, CpuIsCurrent, UserModeIsPreemptible,
        Runs, Goto, cpuVars, ringVars, taskVars, PCs, Contexts
<1>1. CASE Run(s, t)
  <2>1. Runs(s, "prompt") /\ AllocCommon(t)
    BY <1>1, Zenon DEF Run
  <2>2. /\ TypeOK'
        /\ t # s /\ state[t] = "FREE"
        /\ state' = [state EXCEPT ![t] = "READY"]
    <3>1. isUser' \in [Slots -> {0, 1}] /\ pc' \in [Slots -> PCs]
          /\ child' \in [Slots -> Slots \cup {Null}] /\ saved' \in [Slots -> Contexts]
      BY <1>1 DEF Run
    <3>2. UNCHANGED <<current, cpu, ints, fault, hosted>>
      BY <1>1 DEF Run
    <3>3. QED
      BY <2>1, <3>1, <3>2, AllocTypes DEF Runs
  <2>3. QED
    BY <1>1, <2>2 DEF Run
<1>2. CASE OpenWindow(s, t)
  <2>1. Runs(s, "desktop") /\ AllocCommon(t)
    BY <1>2, Zenon DEF OpenWindow, DesktopEvent
  <2>2. /\ TypeOK'
        /\ t # s /\ state[t] = "FREE"
        /\ state' = [state EXCEPT ![t] = "READY"]
    <3>1. isUser' \in [Slots -> {0, 1}] /\ pc' \in [Slots -> PCs]
          /\ child' \in [Slots -> Slots \cup {Null}] /\ saved' \in [Slots -> Contexts]
      BY <1>2 DEF OpenWindow
    <3>2. UNCHANGED <<current, cpu, ints, fault, hosted>>
      BY <1>2 DEF OpenWindow
    <3>3. QED
      BY <2>1, <3>1, <3>2, AllocTypes DEF Runs
  <2>3. QED
    BY <1>2, <2>2 DEF OpenWindow, DesktopEvent
<1>3. CASE FinishBuild(s)
  BY <1>3 DEF FinishBuild
<1>4. CASE Fork(s, t)
  <2>1. Runs(s, "user") /\ AllocCommon(t)
    BY <1>4, Zenon DEF Fork
  <2>2. /\ TypeOK'
        /\ t # s /\ state[t] = "FREE"
        /\ state' = [state EXCEPT ![t] = "READY"]
    <3>1. isUser' \in [Slots -> {0, 1}] /\ pc' \in [Slots -> PCs]
          /\ child' \in [Slots -> Slots \cup {Null}] /\ saved' \in [Slots -> Contexts]
      BY <1>4 DEF Fork
    <3>2. UNCHANGED <<current, cpu, ints, fault, hosted>>
      BY <1>4 DEF Fork
    <3>3. QED
      BY <2>1, <3>1, <3>2, AllocTypes DEF Runs
  <2>3. QED
    BY <1>4, <2>2 DEF Fork
<1>5. CASE FirstTest(s, t) \/ SecondTest(s, t)
  <2>1. PICK stage \in {"first", "second"} :
            /\ fault = "none" /\ cpu = s /\ pc[s] \in {"prompt", "more"}
            /\ NewTest(s, t, stage)
    BY <1>5, Zenon DEF FirstTest, SecondTest
  <2>2. AllocCommon(t)
    BY <2>1, Zenon DEF NewTest
  <2>3. /\ TypeOK'
        /\ t # s /\ state[t] = "FREE"
        /\ state' = [state EXCEPT ![t] = "READY"]
    <3>1. isUser' \in [Slots -> {0, 1}] /\ pc' \in [Slots -> PCs]
          /\ child' \in [Slots -> Slots \cup {Null}] /\ saved' \in [Slots -> Contexts]
      BY <2>1 DEF NewTest
    <3>2. UNCHANGED <<current, cpu, ints, fault, hosted>>
      BY <2>1 DEF NewTest
    <3>3. QED
      BY <2>1, <2>2, <3>1, <3>2, AllocTypes
  <2>4. QED
    BY <2>1, <2>3 DEF NewTest
<1>6. QED
  BY <1>1, <1>2, <1>3, <1>4, <1>5

\* Exiting, killing and waking up.
LEMMA ExitSchedInv ==
    ASSUME NEW s \in Slots, NEW t \in Slots, SchedInv,
           Exit(s) \/ ExitMark(s) \/ ExitWake(s) \/ CloseWindow(s, t) \/ PushKey(s, t)
              \/ TestWakes(s, t)
    PROVE  SchedInv'
<1> USE SchedAssumption DEF SchedInv, TypeOK, SleepersAreInKernel,
        ChildrenAreOthers, WaitersHaveChildren, CpuIsCurrent, UserModeIsPreemptible,
        Runs, Goto, cpuVars, ringVars, taskVars, PCs, Contexts
<1>1. CASE Exit(s)
  <2>1. /\ state' = Unblock([state EXCEPT ![s] = "ZOMBIE"], parent[s])
        /\ Runs(s, "user") /\ Goto(s, "exit")
        /\ UNCHANGED <<ringVars, taskVars, child, hosted>>
    BY <1>1, Zenon DEF Exit
  <2>2. state \in [Slots -> {"FREE", "READY", "BLOCKED", "ZOMBIE"}]
    OBVIOUS
  <2>3. /\ state' \in [Slots -> {"FREE", "READY", "BLOCKED", "ZOMBIE"}]
        /\ state'[s] = "ZOMBIE"
        /\ \A u \in Slots \ {s} : /\ state'[u] = "FREE" <=> state[u] = "FREE"
                                  /\ state'[u] = "ZOMBIE" <=> state[u] = "ZOMBIE"
    BY <2>1, <2>2 DEF Unblock
  <2>4. ChildrenAreOthers' /\ WaitersHaveChildren'
    <3>1. pc'[s] = "exit" /\ \A u \in Slots \ {s} : pc'[u] = pc[u]
      BY <2>1
    <3>2. child' = child /\ isUser' = isUser
      BY <2>1
    <3>3. ASSUME NEW u \in Slots
          PROVE  state[u] \in {"ZOMBIE", "FREE"} => state'[u] \in {"ZOMBIE", "FREE"}
      BY <2>3
    <3> HIDE DEF SchedInv, TypeOK, Goto, Runs
    <3>4. ChildrenAreOthers /\ WaitersHaveChildren
      BY DEF SchedInv
    <3>5. QED
      BY <2>3, <3>1, <3>2, <3>3, <3>4
  <2>5. ASSUME current' \in Slots, cpu' \in Slots, ints' \in {0, 1},
               saved' \in [Slots -> Contexts],
               fault' \in {"none", "halfbuilt", "misfiled", "hung", "halted"},
               \A u \in Slots : saved'[u] = "call" => saved[u] = "call"
        PROVE  TypeOK' /\ SleepersAreInKernel'
    <3>1. saved[s] = "none" /\ \A u \in Slots \ {s} : pc'[u] = pc[u]
      BY <2>1
    <3>2. SleepersAreInKernel'
      BY <2>3, <2>5, <3>1
    <3>3. QED
      BY <2>1, <2>3, <2>5, <3>2
  <2>6. CASE fault' \in {"hung", "halted"} /\ UNCHANGED <<current, cpu, ints, saved>>
    BY <2>4, <2>5, <2>6
  <2>7. ASSUME NEW n \in Slots, n # s, Picks(state', current, n), SwitchTo(n, 0, saved)
        PROVE  SchedInv'
    <3>1. state'[n] = "READY" \/ n = current
      BY <2>7, PicksReady
    <3>2. TypeOK' /\ SleepersAreInKernel'
      BY <2>5, <2>7 DEF SwitchTo, FlagAfter
    <3>3. CpuIsCurrent' /\ UserModeIsPreemptible'
      BY <2>1, <2>3, <2>7, <3>1 DEF SwitchTo, FlagAfter
    <3>4. QED
      BY <2>4, <3>2, <3>3
  <2>8. QED
    BY <1>1, <2>6, <2>7, Zenon DEF Exit
<1>2. CASE ExitMark(s)
  BY <1>2 DEF ExitMark
<1>3. CASE ExitWake(s)
  BY <1>3, UnblockWakes DEF ExitWake
<1>4. CASE CloseWindow(s, t)
  <2>1. /\ state' = Unblock([state EXCEPT ![t] = "ZOMBIE"], parent[t])
        /\ hosted' = hosted \ {t}
        /\ cpu = s /\ fault = "none" /\ pc[s] \in {"desktop", "closing"}
        /\ UNCHANGED <<cpuVars, ringVars, taskVars, pc, child>>
    BY <1>4 DEF CloseWindow, DesktopEvent
  <2>2. state \in [Slots -> {"FREE", "READY", "BLOCKED", "ZOMBIE"}]
    OBVIOUS
  <2>3. /\ state' \in [Slots -> {"FREE", "READY", "BLOCKED", "ZOMBIE"}]
        /\ state'[t] = "ZOMBIE"
        /\ \A u \in Slots \ {t} : /\ state'[u] = "FREE" <=> state[u] = "FREE"
                                  /\ state'[u] = "ZOMBIE" <=> state[u] = "ZOMBIE"
    BY <2>1, <2>2 DEF Unblock
  <2>4. QED
    BY <2>1, <2>3
<1>5. CASE PushKey(s, t)
  BY <1>5, UnblockWakes DEF PushKey, DesktopEvent
<1>6. CASE TestWakes(s, t)
  BY <1>6, UnblockWakes DEF TestWakes
<1>7. QED
  BY <1>1, <1>2, <1>3, <1>4, <1>5, <1>6

\* Waiting and reaping, the shell's and the desktop's own steps.
LEMMA WaitSchedInv ==
    ASSUME NEW s \in Slots, SchedInv,
           \/ WaitCheck(s) \/ SysWait(s) \/ WaitScan(s) \/ Unlink(s) \/ FreeTask(s)
           \/ Desktop(s) \/ HaltUninterruptible(s) \/ TestStep(s) \/ AwaitEnds(s)
    PROVE  SchedInv'
<1> USE SchedAssumption DEF SchedInv, TypeOK, SleepersAreInKernel,
        ChildrenAreOthers, WaitersHaveChildren, CpuIsCurrent, UserModeIsPreemptible,
        Runs, Goto, cpuVars, ringVars, taskVars, PCs, Contexts
<1>1. CASE WaitCheck(s)
  BY <1>1 DEF WaitCheck
<1>2. CASE SysWait(s)
  BY <1>2 DEF SysWait
<1>3. CASE WaitScan(s)
  <2>1. /\ Runs(s, "scan")
        /\ UNCHANGED <<current, cpu, saved, fault, ringVars, taskVars, state, hosted>>
        /\ \/ /\ \E t \in Children(s) : child' = [child EXCEPT ![s] = t]
              /\ Goto(s, "unlink") /\ ints' = ints
           \/ Goto(s, "user") /\ ints' = 1 /\ child' = child
           \/ Goto(s, "block") /\ ints' = ints /\ child' = child
    BY <1>3, Zenon DEF WaitScan
  <2>2. ASSUME NEW t \in Children(s), child' = [child EXCEPT ![s] = t],
               Goto(s, "unlink"), ints' = ints
        PROVE  SchedInv'
    <3>1. t \in Slots /\ t # s
      BY DEF Children, Linked
    <3>2. QED
      BY <2>1, <2>2, <3>1
  <2>3. CASE Goto(s, "user") /\ ints' = 1 /\ child' = child
    BY <2>1, <2>3
  <2>4. CASE Goto(s, "block") /\ ints' = ints /\ child' = child
    BY <2>1, <2>4
  <2>5. QED
    BY <2>1, <2>2, <2>3, <2>4, Zenon
<1>4. CASE Unlink(s)
  BY <1>4 DEF Unlink
<1>5. CASE FreeTask(s)
  BY <1>5 DEF FreeTask
<1>6. CASE Desktop(s)
  BY <1>6 DEF Desktop, DesktopEvent
<1>7. CASE HaltUninterruptible(s)
  BY <1>7 DEF HaltUninterruptible
<1>8. CASE TestStep(s) \/ AwaitEnds(s)
  BY <1>8 DEF TestStep, AwaitEnds
<1>9. QED
  BY <1>1, <1>2, <1>3, <1>4, <1>5, <1>6, <1>7, <1>8

----------------------------------------------------------------------------
LEMMA SchedInvInductive == SchedInv /\ [Next]_vars => SchedInv'
<1> SUFFICES ASSUME SchedInv, [Next]_vars
             PROVE  SchedInv'
  OBVIOUS
<1>1. CASE UNCHANGED vars
  BY <1>1 DEF vars, SchedInv, TypeOK, SleepersAreInKernel, ChildrenAreOthers,
        WaitersHaveChildren, CpuIsCurrent, UserModeIsPreemptible
<1>2. CASE Tick
  BY <1>2, TickSchedInv
<1>3. ASSUME NEW s \in Slots, Step(s)
      PROVE  SchedInv'
  <2>1. CASE \E t \in Slots : \/ Run(s, t) \/ OpenWindow(s, t) \/ Fork(s, t)
                             \/ FirstTest(s, t) \/ SecondTest(s, t) \/ TestWakes(s, t)
                             \/ CloseWindow(s, t) \/ PushKey(s, t)
    BY <2>1, CreateSchedInv, ExitSchedInv
  <2>2. CASE FinishBuild(s) \/ Exit(s) \/ ExitMark(s) \/ ExitWake(s)
    BY <2>2, CreateSchedInv, ExitSchedInv
  <2>3. CASE BlockMark(s) \/ BlockPick(s) \/ BlockSwitch(s)
    BY <2>3, BlockSchedInv
  <2>4. CASE \/ WaitCheck(s) \/ SysWait(s) \/ WaitScan(s) \/ Unlink(s) \/ FreeTask(s)
             \/ Desktop(s) \/ HaltUninterruptible(s) \/ TestStep(s) \/ AwaitEnds(s)
    BY <2>4, WaitSchedInv
  <2>5. QED
    BY <1>3, <2>1, <2>2, <2>3, <2>4 DEF Step
<1>4. cpu \in Slots
  BY DEF SchedInv, TypeOK
<1>5. QED
  BY <1>1, <1>2, <1>3, <1>4 DEF Next

\* The scheduler's state is well typed whatever tasks are created, killed and
\* reaped: schedule() always leaves the CPU on a real task, and in particular
\* task_wait_specific() never unlinks through a child it does not have.
THEOREM SchedTypeCorrect == Spec => []TypeOK
<1>1. SchedInv => TypeOK
  BY DEF SchedInv
<1>2. QED
  BY <1>1, InitSchedInv, SchedInvInductive, PTL DEF Spec

\* Ring 3 always runs with interrupts on, so the timer can always take the CPU
\* back from a user program.  context_switch does not save EFLAGS and schedule()
\* is called with the flag on and off; the theorem holds because only a task
\* asleep in task_block() inherits the flag of another one, and such a task is
\* in the kernel and leaves it through iret.
THEOREM UserModeStaysPreemptible == Spec => []UserModeIsPreemptible
<1>1. SchedInv => UserModeIsPreemptible
  BY DEF SchedInv
<1>2. QED
  BY <1>1, InitSchedInv, SchedInvInductive, PTL DEF Spec

----------------------------------------------------------------------------
(* The walk of schedule() around the list                                  *)

\* A set of numbers has a least one; with it, walks can be reasoned about step by
\* step.
LEMMA LeastNumber ==
    ASSUME NEW T \in SUBSET Nat, T # {}
    PROVE  \E m \in T : \A k \in T : m <= k
<1> DEFINE Below(k) == 0..k
           F == {Below(k) : k \in T}
<1>1. \A k \in T : IsFiniteSet(0..k) /\ 0..k \subseteq Nat
  BY FS_Interval
<1>2. F \subseteq FiniteSubsetsOf(Nat) /\ F # {}
  BY <1>1 DEF FiniteSubsetsOf
<1>3. IsWellFoundedOn(StrictSubsetOrdering(Nat), FiniteSubsetsOf(Nat))
  BY FS_StrictSubsetOrderingWellFounded
<1>4. PICK x \in F : \A y \in F : ~ (<<y, x>> \in StrictSubsetOrdering(Nat))
  <2> HIDE DEF F
  <2> QED
    BY <1>2, <1>3, WFMin, Zenon
<1>5. PICK m \in T : x = 0..m
  OBVIOUS
<1>6. ASSUME NEW k \in T, k < m PROVE FALSE
  <2>1. 0..k \in F
    OBVIOUS
  <2>2. 0..k \subseteq 0..m /\ 0..k # 0..m
    BY <1>6
  <2>3. <<0..k, 0..m>> \in StrictSubsetOrdering(Nat)
    BY <2>2 DEF StrictSubsetOrdering
  <2>4. QED
    BY <1>4, <1>5, <2>1, <2>3
<1>7. QED
  BY <1>6

\* No part of the list is closed: from every task, next leads to every other.
RingIsConnected ==
    \A S \in SUBSET Linked : S # {} /\ (\A s \in S : next[s] \in S) => S = Linked

RingInv == ListConsistent /\ RingIsConnected /\ task_count = Cardinality(Linked)

LEMMA SlotsAreFinite == Cardinality(Slots) \in Nat
  BY SchedAssumption, FS_CardinalityType

\* A walk of any length exists.
LEMMA WalkExists ==
    ASSUME NEW p, NEW n \in Nat
    PROVE  \E w : w = [i \in 0..n |-> IF i = 0 THEN p ELSE next[w[i - 1]]]
<1> DEFINE Good(k) == \E w : w = [i \in 0..k |-> IF i = 0 THEN p ELSE next[w[i - 1]]]
           Bad == {k \in Nat : ~Good(k)}
<1>1. SUFFICES ASSUME Bad # {} PROVE FALSE
  OBVIOUS
<1>2. PICK m \in Bad : \A k \in Bad : m <= k
  <2>1. Bad \in SUBSET Nat
    OBVIOUS
  <2> HIDE DEF Bad
  <2>2. QED
    BY <1>1, <2>1, LeastNumber
<1>3. m # 0
  <2>1. ASSUME m = 0 PROVE FALSE
    <3> DEFINE v == [i \in 0..0 |-> p]
    <3>1. v = [i \in 0..0 |-> IF i = 0 THEN p ELSE next[v[i - 1]]]
      OBVIOUS
    <3> HIDE DEF v
    <3>2. QED
      BY <2>1, <3>1
  <2>2. QED
    BY <2>1
<1>4. m - 1 \in Nat /\ Good(m - 1)
  <2> HIDE DEF Good
  <2>1. m - 1 \in Nat /\ ~(m <= m - 1)
    BY <1>3
  <2>2. m - 1 \notin Bad
    BY <1>2, <2>1
  <2>3. QED
    BY <2>1, <2>2
<1>5. PICK w : w = [i \in 0..(m - 1) |-> IF i = 0 THEN p ELSE next[w[i - 1]]]
  BY <1>4
<1> DEFINE v == [i \in 0..m |-> IF i = m THEN next[w[m - 1]] ELSE w[i]]
<1>6. m \in Nat \ {0}
  BY <1>3
<1>7. ASSUME NEW i \in 0..m
      PROVE  v[i] = IF i = 0 THEN p ELSE next[v[i - 1]]
  <2>1. CASE i = 0
    <3>1. w[0] = p
      BY <1>5, <1>6
    <3>2. QED
      BY <1>6, <2>1, <3>1
  <2>2. CASE i # 0 /\ i # m
    <3>1. i \in 0..(m - 1) /\ i - 1 \in 0..m /\ i - 1 # m
      BY <1>6, <2>2
    <3>2. w[i] = next[w[i - 1]]
      BY <1>5, <2>2, <3>1
    <3>3. QED
      BY <2>2, <3>1, <3>2
  <2>3. CASE i = m
    <3>1. m - 1 \in 0..m /\ m - 1 # m /\ m \in 0..m
      BY <1>6
    <3>2. QED
      BY <1>6, <2>3, <3>1
  <2>4. QED
    BY <2>1, <2>2, <2>3
<1>8. v = [i \in 0..m |-> IF i = 0 THEN p ELSE next[v[i - 1]]]
  <2>1. v = [i \in 0..m |-> v[i]]
    OBVIOUS
  <2> HIDE DEF v
  <2>2. QED
    BY <1>7, <2>1
<1>9. QED
  <2> HIDE DEF v
  <2>1. Good(m)
    BY <1>8
  <2>2. QED
    BY <2>1

\* Walk(p) starts at p and follows the next pointers.
LEMMA WalkSteps ==
    ASSUME NEW p
    PROVE  /\ Walk(p)[0] = p
           /\ \A i \in 1..Cardinality(Slots) : Walk(p)[i] = next[Walk(p)[i - 1]]
           /\ DOMAIN Walk(p) = 0..Cardinality(Slots)
<1> DEFINE Is(w) == w = [i \in 0..Cardinality(Slots) |-> IF i = 0 THEN p ELSE next[w[i - 1]]]
<1>1. Walk(p) = CHOOSE w : Is(w)
  BY DEF Walk
<1>2. \E w : Is(w)
  BY SlotsAreFinite, WalkExists
<1>3. Is(Walk(p))
  <2> HIDE DEF Is
  <2>1. QED
    BY <1>1, <1>2, Zenon
<1> DEFINE w == Walk(p)
<1>4. w = [i \in 0..Cardinality(Slots) |-> IF i = 0 THEN p ELSE next[w[i - 1]]]
  BY <1>3
<1> HIDE DEF w
<1>5. /\ w[0] = p /\ \A i \in 1..Cardinality(Slots) : w[i] = next[w[i - 1]]
      /\ DOMAIN w = 0..Cardinality(Slots)
  BY <1>4, SlotsAreFinite
<1>6. QED
  BY <1>5 DEF w

\* A walk stays in the list.
LEMMA WalkStays ==
    ASSUME ListConsistent, NEW p \in Linked
    PROVE  \A i \in 0..Cardinality(Slots) : Walk(p)[i] \in Linked
<1> DEFINE w == Walk(p)
           N == Cardinality(Slots)
           Bad == {i \in 0..N : w[i] \notin Linked}
<1>0. N \in Nat
  BY SlotsAreFinite
<1>1. w[0] = p /\ \A i \in 1..N : w[i] = next[w[i - 1]]
  BY WalkSteps
<1> HIDE DEF w, N
<1>2. SUFFICES ASSUME Bad # {} PROVE FALSE
  BY DEF w, N
<1>3. PICK m \in Bad : \A k \in Bad : m <= k
  <2>1. Bad \in SUBSET Nat
    OBVIOUS
  <2> HIDE DEF Bad
  <2>2. QED
    BY <1>2, <2>1, LeastNumber
<1>4. m \in 1..N /\ m - 1 \in 0..N
  BY <1>0, <1>1
<1>5. w[m - 1] \in Linked
  BY <1>3, <1>4
<1>6. QED
  BY <1>1, <1>4, <1>5 DEF ListConsistent

\* A walk that has come back to its start has seen the whole list.
LEMMA LoopIsWholeRing ==
    ASSUME RingInv, NEW p \in Linked, NEW i \in 1..Cardinality(Slots), Walk(p)[i] = p
    PROVE  \A q \in Linked : \E j \in 0..(i - 1) : Walk(p)[j] = q
<1> DEFINE w == Walk(p)
           N == Cardinality(Slots)
           S == {w[j] : j \in 0..(i - 1)}
<1>0. N \in Nat
  BY SlotsAreFinite
<1>1. w[0] = p /\ (\A j \in 1..N : w[j] = next[w[j - 1]]) /\ \A j \in 0..N : w[j] \in Linked
  BY WalkSteps, WalkStays DEF RingInv
<1>a. w[i] = p /\ i \in 1..N
  OBVIOUS
<1> HIDE DEF w, N
<1>2. S \in SUBSET Linked /\ p \in S
  BY <1>0, <1>1, <1>a
<1>3. ASSUME NEW s \in S PROVE next[s] \in S
  <2>1. PICK j \in 0..(i - 1) : s = w[j]
    OBVIOUS
  <2>2. j + 1 \in 1..N /\ w[j + 1] = next[s]
    BY <1>0, <1>1, <1>a, <2>1
  <2>3. CASE j + 1 = i
    BY <1>1, <1>2, <1>a, <2>2, <2>3
  <2>4. CASE j + 1 # i
    <3>1. j + 1 \in 0..(i - 1)
      BY <1>a, <2>4
    <3>2. QED
      BY <2>2, <3>1
  <2>5. QED
    BY <2>3, <2>4
<1>4. S = Linked
  <2> HIDE DEF S
  <2>1. QED
    BY <1>2, <1>3 DEF RingInv, RingIsConnected
<1>5. \A q \in Linked : \E j \in 0..(i - 1) : w[j] = q
  BY <1>4
<1>6. QED
  BY <1>5 DEF w

\* schedule() comes back to its caller only when nobody else is READY.
LEMMA PicksItself ==
    ASSUME RingInv, NEW p \in Linked, NEW st, Picks(st, p, p), NEW q \in Linked, q # p
    PROVE  st[q] # "READY"
<1>1. PICK i \in 1..Cardinality(Slots) :
         Walk(p)[i] = p /\ \A j \in 1..(i - 1) : st[Walk(p)[j]] # "READY"
  BY Zenon DEF Picks
<1>2. PICK j \in 0..(i - 1) : Walk(p)[j] = q
  BY <1>1, LoopIsWholeRing
<1>3. Walk(p)[0] = p
  BY WalkSteps
<1>4. j # 0 /\ j \in 1..(i - 1)
  BY <1>2, <1>3, SlotsAreFinite
<1>5. QED
  BY <1>1, <1>2, <1>4

\* Whomever schedule() picks is in the list.
LEMMA PicksLinked ==
    ASSUME ListConsistent, NEW p \in Linked, NEW st, NEW n, Picks(st, p, n)
    PROVE  n \in Linked
<1>1. PICK i \in 1..Cardinality(Slots) : Walk(p)[i] = n
  BY Zenon DEF Picks
<1>2. i \in 0..Cardinality(Slots)
  BY SlotsAreFinite
<1>3. QED
  BY <1>1, <1>2, WalkStays

\* Every walk comes back to its start: by then it has met some task twice, and
\* where it has met one twice it has met the one before twice.
LEMMA WalkReturns ==
    ASSUME RingInv, NEW p \in Linked
    PROVE  \E i \in 1..Cardinality(Slots) : Walk(p)[i] = p
<1> DEFINE w == Walk(p)
           N == Cardinality(Slots)
           Twice == {i \in 0..N : \E j \in (i + 1)..N : w[i] = w[j]}
<1>0. N \in Nat
  BY SlotsAreFinite
<1>1. /\ w[0] = p /\ (\A j \in 1..N : w[j] = next[w[j - 1]]) /\ \A j \in 0..N : w[j] \in Linked
      /\ DOMAIN w = 0..N /\ w = [j \in 0..N |-> w[j]]
  <2>1. w = [j \in DOMAIN w |-> w[j]]
    <3>1. PICK f : w = [i \in 0..N |-> IF i = 0 THEN p ELSE next[f[i - 1]]]
      <4> DEFINE Is(v) == v = [i \in 0..Cardinality(Slots) |-> IF i = 0 THEN p ELSE next[v[i - 1]]]
      <4>1. Walk(p) = CHOOSE v : Is(v)
        BY DEF Walk
      <4>2. \E v : Is(v)
        BY SlotsAreFinite, WalkExists
      <4>3. Is(Walk(p))
        <5> HIDE DEF Is
        <5>1. QED
          BY <4>1, <4>2, Zenon
      <4>4. QED
        BY <4>3
    <3>2. QED
      BY <3>1
  <2>2. QED
    BY <2>1, WalkSteps, WalkStays DEF RingInv
<1> HIDE DEF w, N
<1>2. w \in [0..N -> Linked]
  BY <1>1
<1>3. \E x, y \in 0..N : x # y /\ w[x] = w[y]
  <2>1. IsFiniteSet(Linked) /\ Cardinality(Linked) <= N /\ Cardinality(Linked) \in Nat
    BY SchedAssumption, FS_Subset, FS_CardinalityType DEF Linked, N
  <2>2. IsFiniteSet(0..N) /\ Cardinality(0..N) = N + 1
    BY <1>0, FS_Interval
  <2>3. Cardinality(Linked) < Cardinality(0..N)
    BY <1>0, <2>1, <2>2
  <2>4. QED
    BY <1>2, <2>1, <2>2, <2>3, FS_PigeonHole
<1>4. Twice # {}
  <2>1. PICK x, y \in 0..N : x # y /\ w[x] = w[y]
    BY <1>3
  <2>2. CASE x < y
    BY <1>0, <2>1, <2>2
  <2>3. CASE y < x
    BY <1>0, <2>1, <2>3
  <2>4. QED
    BY <1>0, <2>1, <2>2, <2>3
<1>5. PICK m \in Twice : \A k \in Twice : m <= k
  <2>1. Twice \in SUBSET Nat
    OBVIOUS
  <2> HIDE DEF Twice
  <2>2. QED
    BY <1>4, <2>1, LeastNumber
<1>6. PICK j \in (m + 1)..N : w[m] = w[j]
  OBVIOUS
<1>7. m = 0
  <2>1. ASSUME m # 0 PROVE FALSE
    <3>1. /\ m - 1 \in 0..N /\ j - 1 \in 0..N /\ m \in 1..N /\ j \in 1..N /\ j - 1 \in ((m - 1) + 1)..N
      BY <1>0, <2>1
    <3>2. /\ w[m] = next[w[m - 1]] /\ w[j] = next[w[j - 1]]
          /\ w[m - 1] \in Linked /\ w[j - 1] \in Linked
      BY <1>1, <3>1
    <3>3. w[m - 1] = w[j - 1]
      <4>1. prev[next[w[m - 1]]] = w[m - 1] /\ prev[next[w[j - 1]]] = w[j - 1]
        BY <3>2 DEF RingInv, ListConsistent
      <4>2. QED
        BY <1>6, <3>2, <4>1
    <3>4. m - 1 \in Twice
      BY <3>1, <3>3
    <3>5. QED
      BY <1>0, <1>5, <3>4
  <2>2. QED
    BY <2>1
<1>8. j \in 1..N /\ w[j] = p
  BY <1>0, <1>1, <1>6, <1>7
<1>9. QED
  BY <1>8 DEF w, N

\* So the walk from kernel_main's task visits exactly the list.
LEMMA WalkVisitsAll ==
    ASSUME RingInv, Main \in Linked
    PROVE  OneRing
<1>1. PICK i \in 1..Cardinality(Slots) : Walk(Main)[i] = Main
  BY WalkReturns
<1>2. \A q \in Linked : \E j \in 0..(i - 1) : Walk(Main)[j] = q
  BY <1>1, LoopIsWholeRing
<1>3. \A j \in 0..(i - 1) : j \in 0..Cardinality(Slots)
  BY SlotsAreFinite
<1>4. \A j \in 0..Cardinality(Slots) : Walk(Main)[j] \in Linked
  BY WalkStays DEF RingInv
<1>5. {Walk(Main)[j] : j \in 0..Cardinality(Slots)} = Linked
  BY <1>2, <1>3, <1>4
<1>6. QED
  BY <1>5 DEF RingInv, OneRing

----------------------------------------------------------------------------
(* Parents, children and the tasks that are there from the start           *)

\* The background task is always READY, and neither it nor kernel_main's task is
\* ever a child, a window or dead.
BootTasks ==
    /\ state[Bg] = "READY" /\ pc[Bg] = "spin" /\ next[Bg] # Null /\ isUser[Bg] = 0
    /\ state[Main] \in {"READY", "BLOCKED"} /\ next[Main] # Null /\ isUser[Main] = 0
    /\ pc[Main] \notin {"edit", "user", "exit", "scan", "spin"}
    /\ parent[Main] = Null
    /\ \A s \in Slots : child[s] \notin {Main, Bg}
    /\ Main \notin hosted /\ Bg \notin hosted

\* Which code a task can be in: kernel tasks are the children of kernel tasks.
Kinds ==
    /\ \A s \in Slots :
        /\ pc[s] \in Building \cup {"spin", "prompt", "edit", "desktop", "closing", "check",
                                  "more", "await", "test", "idle"} => isUser[s] = 0
        /\ pc[s] \in {"desktop", "closing"} => s = Main
        /\ state[s] # "FREE" /\ isUser[s] = 0 /\ s # Main =>
              parent[s] \in Slots /\ state[parent[s]] # "FREE" /\ isUser[parent[s]] = 0
    /\ \A s \in hosted : state[s] # "FREE" /\ isUser[s] = 0

\* Where a task that has created a kernel task can be afterwards.
Leaving == {"desktop", "closing", "more", "await", "prompt"}

\* The child of a task is its own, and in the list until the task has unlinked it.
\* A kernel task is only ever created, never waited for.
Families ==
    \A s \in Slots : state[s] # "FREE" /\ child[s] # Null =>
        /\ state[child[s]] # "FREE" /\ parent[child[s]] = s
        /\ pc[s] # "free" => next[child[s]] # Null
        /\ isUser[child[s]] = 0 => /\ pc[s] \in Building \cup Leaving
                                   /\ pc[s] = "build" => s = Main

\* What is unlinked and freed is dead, and out of the list before it is freed.
Reaping ==
    \A s \in Slots : state[s] # "FREE" =>
        /\ pc[s] \in {"unlink", "free"} => child[s] # Null /\ state[child[s]] = "ZOMBIE"
        /\ pc[s] = "free" => next[child[s]] = Null

FamilyInv == BootTasks /\ Kinds /\ Families /\ Reaping

\* What a step of the task on the CPU may rely on.
LEMMA OnCpu ==
    ASSUME SchedInv, NEW s \in Slots, NEW where, Runs(s, where), where # "switch"
    PROVE  cpu = s /\ current = s /\ state[s] # "FREE" /\ pc[s] = where /\ fault = "none"
  BY DEF SchedInv, CpuIsCurrent, Runs

\* Ticks, task_block() and the other steps that change no family.
LEMMA QuietFamilies ==
    ASSUME SchedInv, FamilyInv, OnlyReadyTasksRun, NEW s \in Slots,
           \/ Tick \/ BlockMark(s) \/ BlockPick(s) \/ BlockSwitch(s)
           \/ WaitCheck(s) \/ SysWait(s) \/ Desktop(s) \/ HaltUninterruptible(s)
           \/ TestStep(s) \/ AwaitEnds(s)
    PROVE  FamilyInv'
<1> USE SchedAssumption DEF FamilyInv, BootTasks, Kinds, Families, Reaping, Leaving, SchedInv, TypeOK, WaitersHaveChildren
<1>1. CASE Tick \/ HaltUninterruptible(s)
  BY <1>1 DEF Tick, HaltUninterruptible, ringVars, taskVars
<1>2. CASE BlockMark(s)
  <2>1. cpu = s /\ state[s] # "FREE" /\ pc[s] = "block"
    BY <1>2, OnCpu DEF BlockMark
  <2>2. s # Bg /\ state[s] = "READY"
    BY <1>2, <2>1 DEF OnlyReadyTasksRun, BlockMark, Runs
  <2>3. QED
    BY <1>2, <2>1, <2>2 DEF BlockMark, Goto, ringVars, taskVars
<1>3. CASE BlockPick(s) \/ BlockSwitch(s)
  <2>1. /\ pc[s] \in {"sched", "switch"}
        /\ \E l \in {"check", "scan", "test", "exit", "switch"} :
              /\ pc' = [pc EXCEPT ![s] = l]
              /\ l = "exit" => state[s] = "ZOMBIE"
              /\ l = "scan" => isUser[s] = 1
              /\ l \in {"check", "test"} => isUser[s] # 1
        /\ UNCHANGED <<ringVars, taskVars, state, child, hosted>>
    <3>1. /\ pc[s] \in {"sched", "switch"}
          /\ pc' = [pc EXCEPT ![s] = Retry(s)] \/ pc' = [pc EXCEPT ![s] = "switch"]
          /\ UNCHANGED <<ringVars, taskVars, state, child, hosted>>
      <4> HIDE DEF FamilyInv, BootTasks, Kinds, Families, Reaping, SchedInv, TypeOK, WaitersHaveChildren
      <4>1. CASE BlockPick(s)
        <5>1. PICK n \in Slots : Goto(s, IF n = s THEN Retry(s) ELSE "switch")
          BY <4>1, Zenon DEF BlockPick
        <5>2. QED
          BY <4>1, <5>1 DEF BlockPick, Goto, Runs
      <4>2. CASE BlockSwitch(s)
        BY <4>2 DEF BlockSwitch, Goto, Runs
      <4>3. QED
        BY <1>3, <4>1, <4>2
    <3>2. QED
      BY <3>1, RetryInKernel
  <2>2. QED
    BY <2>1 DEF ringVars, taskVars
<1>4. CASE WaitCheck(s)
  BY <1>4 DEF WaitCheck, Goto, Runs, ringVars, taskVars
<1>5. CASE SysWait(s)
  BY <1>5 DEF SysWait, Goto, Runs, ringVars, taskVars
<1>6. CASE Desktop(s)
  BY <1>6 DEF Desktop, DesktopEvent, Goto, Runs, ringVars, taskVars
<1>7. CASE TestStep(s) \/ AwaitEnds(s)
  BY <1>7 DEF TestStep, AwaitEnds, Goto, Runs, ringVars, taskVars
<1>8. QED
  BY <1>1, <1>2, <1>3, <1>4, <1>5, <1>6, <1>7

\* New tasks.
LEMMA NewFamilies ==
    ASSUME SchedInv, FamilyInv, RingInv, NEW s \in Slots, NEW t \in Slots,
           Run(s, t) \/ OpenWindow(s, t) \/ Fork(s, t) \/ FirstTest(s, t) \/ SecondTest(s, t)
    PROVE  FamilyInv'
<1> USE SchedAssumption DEF FamilyInv, BootTasks, Kinds, Families, Reaping, Leaving
<1>1. /\ cpu = s /\ current = s /\ state[s] # "FREE" /\ AllocCommon(t)
      /\ pc[s] \in {"prompt", "desktop", "user", "more"} /\ fault = "none"
      /\ UNCHANGED hosted
    BY OnCpu DEF Run, OpenWindow, Fork, FirstTest, SecondTest, NewTest, DesktopEvent, cpuVars
<1>2. /\ t # s /\ state[t] = "FREE" /\ state' = [state EXCEPT ![t] = "READY"]
      /\ next[s] \in Slots /\ t \notin {Main, Bg}
  BY <1>1, AllocTypes DEF RingInv, ListConsistent, Linked, AllocCommon, Free
<1>3. /\ \A u \in Slots \ {t} : parent'[u] = parent[u] /\ state'[u] = state[u]
      /\ parent'[t] = s /\ state'[t] = "READY" /\ next'[t] # Null
      /\ \A u \in Slots : next[u] # Null => next'[u] # Null
      /\ \A u \in Slots : u # t /\ next[u] = Null => next'[u] = Null
  BY <1>1, <1>2 DEF AllocCommon, SchedInv, TypeOK, RingInv, ListConsistent, Linked
<1>4. /\ child \in [Slots -> Slots \cup {Null}] /\ pc \in [Slots -> PCs] /\ isUser \in [Slots -> {0, 1}]
      /\ hosted \subseteq Slots
  BY DEF SchedInv, TypeOK
<1>5. \A u \in Slots : state[u] # "FREE" => child[u] # t
  BY <1>2
<1>6. t \notin hosted
  BY <1>2
<1>7. /\ \A u \in Slots \ {s, t} : pc'[u] = pc[u] /\ child'[u] = child[u] /\ isUser'[u] = isUser[u]
      /\ child'[t] = Null /\ isUser'[s] = isUser[s]
      /\ \/ pc[s] = "prompt" /\ pc'[s] \in Building /\ child'[s] = t /\ isUser'[t] = 1 /\ pc'[t] = "user"
         \/ pc[s] = "desktop" /\ pc'[s] = "build" /\ child'[s] = t /\ isUser'[t] = 0 /\ pc'[t] \in {"prompt", "edit"}
         \/ pc[s] = "user" /\ pc'[s] = "user" /\ child'[s] = child[s] /\ isUser'[t] = 1 /\ pc'[t] = "user"
         \/ /\ pc[s] \in {"prompt", "more"} /\ pc'[s] \in {"first", "second"} /\ child'[s] = t
            /\ isUser'[t] = 0 /\ pc'[t] = "test"
  <2>1. CASE Run(s, t)
    BY <1>2, <1>4, <2>1 DEF Run, Runs
  <2>2. CASE OpenWindow(s, t)
    BY <1>2, <1>4, <2>2 DEF OpenWindow, DesktopEvent, Runs
  <2>3. CASE Fork(s, t)
    BY <1>2, <1>4, <2>3 DEF Fork, Runs
  <2>4. CASE FirstTest(s, t) \/ SecondTest(s, t)
    <3>1. PICK stage \in {"first", "second"} : NewTest(s, t, stage) /\ pc[s] \in {"prompt", "more"}
      BY <2>4, Zenon DEF FirstTest, SecondTest, Runs
    <3>2. QED
      BY <1>2, <1>4, <3>1 DEF NewTest
  <2>5. QED
    BY <2>1, <2>2, <2>3, <2>4
<1>8. BootTasks'
  BY <1>1, <1>2, <1>3, <1>4, <1>6, <1>7
<1>9. Kinds'
  BY <1>1, <1>2, <1>3, <1>4, <1>6, <1>7
<1>10. Families'
  <2>1. ASSUME NEW u \in Slots, u # s, u # t, state'[u] # "FREE", child'[u] # Null
        PROVE  /\ state'[child'[u]] # "FREE" /\ parent'[child'[u]] = u
               /\ pc'[u] # "free" => next'[child'[u]] # Null
               /\ isUser'[child'[u]] = 0 => pc'[u] \in Building \cup Leaving /\ (pc'[u] = "build" => u = Main)
    <3>1. child'[u] = child[u] /\ pc'[u] = pc[u] /\ child[u] # t /\ child[u] \in Slots /\ state[u] # "FREE"
      BY <1>3, <1>4, <1>5, <1>7, <2>1
    <3>2. child[u] # s => isUser'[child[u]] = isUser[child[u]]
      BY <1>7, <3>1
    <3>3. QED
      BY <1>3, <1>7, <2>1, <3>1, <3>2
  <2>2. CASE child'[s] = t
    BY <1>1, <1>3, <1>4, <1>7, <2>1, <2>2
  <2>3. CASE child'[s] = child[s] /\ pc'[s] = pc[s]
    <3>1. child[s] # t /\ (child[s] # Null => child[s] \in Slots)
      BY <1>1, <1>4, <1>5
    <3>2. child[s] # Null /\ child[s] # s => isUser'[child[s]] = isUser[child[s]]
      BY <1>7, <3>1
    <3>3. QED
      BY <1>1, <1>3, <1>7, <2>1, <2>3, <3>1, <3>2
  <2>4. QED
    BY <1>7, <2>2, <2>3
<1>11. Reaping'
  BY <1>1, <1>2, <1>3, <1>4, <1>5, <1>7
<1>12. QED
  BY <1>8, <1>9, <1>10, <1>11

\* Deaths and wake-ups, and the end of a creation.
LEMMA EndFamilies ==
    ASSUME SchedInv, FamilyInv, NEW s \in Slots, NEW t \in Slots,
           \/ Exit(s) \/ ExitMark(s) \/ ExitWake(s) \/ CloseWindow(s, t) \/ PushKey(s, t)
           \/ TestWakes(s, t) \/ FinishBuild(s)
    PROVE  FamilyInv'
<1> USE SchedAssumption
<1>0. /\ state \in [Slots -> {"FREE", "READY", "BLOCKED", "ZOMBIE"}]
      /\ pc \in [Slots -> PCs] /\ child \in [Slots -> Slots \cup {Null}]
      /\ isUser \in [Slots -> {0, 1}] /\ hosted \subseteq Slots
  BY DEF SchedInv, TypeOK
<1> DEFINE OnlyDies(e) ==
             \A u \in Slots : \/ state'[u] = state[u]
                              \/ state[u] = "BLOCKED" /\ state'[u] = "READY"
                              \/ u = e /\ state'[u] = "ZOMBIE" /\ state[u] # "FREE"
<1>1. ASSUME UNCHANGED <<ringVars, taskVars, child>>, hosted' \subseteq hosted,
             NEW e, e \notin {Main, Bg},
             \/ pc' = pc
             \/ pc[s] \in {"user", "edit", "exit"} /\ \E l \in {"exit", "sched"} : pc' = [pc EXCEPT ![s] = l],
             OnlyDies(e)
      PROVE  FamilyInv'
  <2>1. /\ UNCHANGED <<next, child, parent, isUser>>
        /\ \A u \in Slots : /\ state'[u] = "FREE" <=> state[u] = "FREE"
                            /\ state[u] = "ZOMBIE" => state'[u] = "ZOMBIE"
        /\ \A u \in Slots : \/ pc'[u] = pc[u]
                            \/ pc[u] \in {"user", "edit", "exit"} /\ pc'[u] \in {"exit", "sched"}
    BY <1>0, <1>1 DEF ringVars, taskVars
  <2>2. BootTasks'
    BY <1>0, <1>1, <2>1 DEF FamilyInv, BootTasks
  <2>3. Kinds'
    BY <1>0, <1>1, <2>1 DEF FamilyInv, Kinds
  <2>4. Families'
    BY <1>0, <2>1 DEF FamilyInv, Families, Leaving
  <2>5. Reaping'
    BY <1>0, <2>1 DEF FamilyInv, Families, Reaping
  <2>6. QED
    BY <2>2, <2>3, <2>4, <2>5 DEF FamilyInv
<1>2. ASSUME NEW st \in [Slots -> {"FREE", "READY", "BLOCKED", "ZOMBIE"}], NEW p
      PROVE  \A u \in Slots : Unblock(st, p)[u] = st[u] \/ (st[u] = "BLOCKED" /\ Unblock(st, p)[u] = "READY")
  BY DEF Unblock
<1>3. CASE Exit(s)
  <2>1. /\ state' = Unblock([state EXCEPT ![s] = "ZOMBIE"], parent[s])
        /\ Runs(s, "user") /\ Goto(s, "exit")
        /\ UNCHANGED <<ringVars, taskVars, child, hosted>>
    BY <1>3, Zenon DEF Exit
  <2>2. s \notin {Main, Bg} /\ state[s] # "FREE" /\ pc[s] = "user"
    BY <2>1, OnCpu DEF FamilyInv, BootTasks
  <2> DEFINE st == [state EXCEPT ![s] = "ZOMBIE"]
  <2>3. st \in [Slots -> {"FREE", "READY", "BLOCKED", "ZOMBIE"}] /\ st[s] = "ZOMBIE"
        /\ \A u \in Slots \ {s} : st[u] = state[u]
    BY <1>0
  <2>4. state' = Unblock(st, parent[s])
    BY <2>1
  <2> HIDE DEF st
  <2>5. \A u \in Slots : state'[u] = st[u] \/ (st[u] = "BLOCKED" /\ state'[u] = "READY")
    BY <1>2, <2>3, <2>4
  <2>6. OnlyDies(s)
    BY <2>2, <2>3, <2>5
  <2>7. hosted' \subseteq hosted
    BY <2>1
  <2>8. pc' = [pc EXCEPT ![s] = "exit"] /\ UNCHANGED <<ringVars, taskVars, child>>
    BY <2>1 DEF Goto
  <2>9. QED
    BY <1>1, <2>2, <2>6, <2>7, <2>8
<1>4. CASE ExitMark(s)
  <2>1. s \notin {Main, Bg} /\ state[s] # "FREE" /\ pc[s] = "edit"
    BY <1>4, OnCpu DEF FamilyInv, BootTasks, ExitMark
  <2>2. OnlyDies(s)
    BY <1>0, <1>4, <2>1 DEF ExitMark
  <2>3. QED
    BY <1>1, <1>4, <2>1, <2>2 DEF Goto, ExitMark
<1>5. CASE ExitWake(s)
  <2>1. s \notin {Main, Bg} /\ state[s] # "FREE" /\ pc[s] = "exit"
    BY <1>5, OnCpu DEF FamilyInv, BootTasks, ExitWake
  <2>2. OnlyDies(s)
    BY <1>0, <1>2, <1>5, <2>1 DEF ExitWake
  <2>3. QED
    BY <1>1, <1>5, <2>1, <2>2 DEF Goto, ExitWake
<1>6. CASE CloseWindow(s, t)
  <2>1. t \in hosted /\ t \notin {Main, Bg} /\ state[t] # "FREE"
    BY <1>6 DEF CloseWindow, FamilyInv, BootTasks, Kinds
  <2> DEFINE st == [state EXCEPT ![t] = "ZOMBIE"]
  <2>2. st \in [Slots -> {"FREE", "READY", "BLOCKED", "ZOMBIE"}] /\ st[t] = "ZOMBIE"
        /\ \A u \in Slots \ {t} : st[u] = state[u]
    BY <1>0
  <2>3. state' = Unblock(st, parent[t])
    BY <1>6 DEF CloseWindow
  <2> HIDE DEF st
  <2>4. \A u \in Slots : state'[u] = st[u] \/ (st[u] = "BLOCKED" /\ state'[u] = "READY")
    BY <1>2, <2>2, <2>3
  <2>5. OnlyDies(t)
    BY <2>1, <2>2, <2>4
  <2>6. UNCHANGED <<ringVars, taskVars, child, pc>> /\ hosted' \subseteq hosted
    BY <1>6 DEF CloseWindow
  <2>7. QED
    BY <1>1, <2>1, <2>5, <2>6
<1>7. CASE PushKey(s, t)
  <2>1. t \in hosted /\ t \notin {Main, Bg}
    BY <1>7 DEF PushKey, FamilyInv, BootTasks
  <2>2. \A u \in Slots : state'[u] = state[u] \/ (state[u] = "BLOCKED" /\ state'[u] = "READY")
    BY <1>0, <1>2, <1>7 DEF PushKey
  <2>3. QED
    BY <1>1, <1>7, <2>1, <2>2 DEF PushKey
<1>8. CASE TestWakes(s, t)
  <2>1. \A u \in Slots : state'[u] = state[u] \/ (state[u] = "BLOCKED" /\ state'[u] = "READY")
    BY <1>0, <1>2, <1>8 DEF TestWakes
  <2>2. Null \notin {Main, Bg}
    OBVIOUS
  <2>3. QED
    BY <1>1, <1>8, <2>1, <2>2 DEF TestWakes
<1>9. CASE FinishBuild(s)
  <2>1. state[s] # "FREE" /\ pc[s] \in Building /\ child[s] \in Slots /\ isUser[s] = 0 /\ s # Bg
    BY <1>9, OnCpu DEF FinishBuild, SchedInv, WaitersHaveChildren, FamilyInv, Kinds, BootTasks
  <2>2. /\ state[child[s]] # "FREE" /\ child[s] \notin {Main, Bg}
        /\ isUser[child[s]] = 0 /\ pc[s] = "build" => s = Main
        /\ next[child[s]] # Null
    BY <1>0, <2>1 DEF FamilyInv, Families, BootTasks
  <2>3. /\ \/ pc' = [pc EXCEPT ![s] = "check"] /\ isUser[child[s]] = 1 /\ hosted' = hosted
           \/ /\ pc[s] = "build" /\ pc' = [pc EXCEPT ![s] = "desktop"]
              /\ isUser[child[s]] = 0 /\ hosted' = hosted \cup {child[s]}
           \/ \E l \in {"more", "await"} : pc' = [pc EXCEPT ![s] = l] /\ hosted' = hosted
        /\ UNCHANGED <<next, parent, isUser, state, child>>
    BY <1>0, <1>9, <2>1 DEF FinishBuild, Goto, ringVars, taskVars
  <2>4. BootTasks'
    BY <1>0, <2>1, <2>2, <2>3 DEF FamilyInv, BootTasks
  <2>5. Kinds'
    BY <1>0, <2>1, <2>2, <2>3 DEF FamilyInv, Kinds
  <2>6. Families' /\ Reaping'
    BY <1>0, <2>1, <2>2, <2>3 DEF FamilyInv, Families, Reaping, Leaving
  <2>7. QED
    BY <2>4, <2>5, <2>6 DEF FamilyInv
<1>10. QED
  BY <1>3, <1>4, <1>5, <1>6, <1>7, <1>8, <1>9

\* Waiting and reaping.
LEMMA ReapFamilies ==
    ASSUME SchedInv, FamilyInv, RingInv, NEW s \in Slots,
           WaitScan(s) \/ Unlink(s) \/ FreeTask(s)
    PROVE  FamilyInv'
<1> USE SchedAssumption
<1>0. /\ state \in [Slots -> {"FREE", "READY", "BLOCKED", "ZOMBIE"}]
      /\ pc \in [Slots -> PCs] /\ child \in [Slots -> Slots \cup {Null}]
      /\ isUser \in [Slots -> {0, 1}] /\ hosted \subseteq Slots
      /\ next \in [Slots -> Slots \cup {Null}]
  BY DEF SchedInv, TypeOK
<1>1. CASE WaitScan(s)
  <2>1. /\ Runs(s, "scan")
        /\ UNCHANGED <<ringVars, taskVars, state, hosted>>
        /\ \/ /\ \E t \in Children(s) : state[t] = "ZOMBIE" /\ child' = [child EXCEPT ![s] = t]
              /\ Goto(s, "unlink")
           \/ Goto(s, "user") /\ child' = child
           \/ Goto(s, "block") /\ child' = child
    BY <1>1, Zenon DEF WaitScan
  <2>2. state[s] # "FREE" /\ pc[s] = "scan" /\ isUser[s] = 1 /\ s \notin {Main, Bg}
    BY <2>1, OnCpu DEF SchedInv, WaitersHaveChildren, FamilyInv, BootTasks
  <2>3. ASSUME NEW t \in Children(s), state[t] = "ZOMBIE"
        PROVE  t \in Slots \ {Main, Bg, s} /\ parent[t] = s /\ next[t] # Null /\ isUser[t] = 1
    BY <1>0, <2>2, <2>3 DEF Children, Linked, FamilyInv, BootTasks, Kinds
  <2>4. UNCHANGED <<next, parent, isUser, state, hosted>>
    BY <2>1 DEF ringVars, taskVars
  <2>5. ASSUME NEW t \in Children(s), state[t] = "ZOMBIE", child' = [child EXCEPT ![s] = t], Goto(s, "unlink")
        PROVE  FamilyInv'
    BY <1>0, <2>2, <2>3, <2>4, <2>5 DEF Goto, FamilyInv, BootTasks, Kinds, Families, Leaving, Reaping
  <2>6. CASE child' = child /\ (Goto(s, "user") \/ Goto(s, "block"))
    BY <1>0, <2>2, <2>4, <2>6 DEF Goto, FamilyInv, BootTasks, Kinds, Families, Leaving, Reaping
  <2>7. QED
    BY <2>1, <2>5, <2>6
<1>2. CASE Unlink(s)
  <2> DEFINE c == child[s]
  <2>1. state[s] # "FREE" /\ pc[s] = "unlink" /\ c \in Slots \ {Main, Bg, s}
    BY <1>0, <1>2, OnCpu DEF Unlink, SchedInv, WaitersHaveChildren, ChildrenAreOthers, FamilyInv, BootTasks
  <2>2. /\ state[c] = "ZOMBIE" /\ parent[c] = s /\ next[c] # Null /\ isUser[c] = 1
        /\ next[c] \in Slots /\ prev[c] \in Slots /\ next[prev[c]] # Null
    BY <1>0, <2>1 DEF FamilyInv, Families, Leaving, Reaping, RingInv, ListConsistent, Linked
  <2>3. /\ next' = [next EXCEPT ![prev[c]] = next[c], ![c] = Null]
        /\ pc' = [pc EXCEPT ![s] = "free"]
        /\ UNCHANGED <<parent, isUser, state, child, hosted>>
    BY <1>2 DEF Unlink, Goto, cpuVars, taskVars
  <2>4. next'[c] = Null /\ \A u \in Slots \ {c} : next'[u] = Null <=> next[u] = Null
    BY <1>0, <2>1, <2>2, <2>3
  <2>5. \A u \in Slots : state[u] # "FREE" /\ u # s => child[u] # c
    BY <1>0, <2>1, <2>2 DEF FamilyInv, Families, Leaving
  <2> HIDE DEF c
  <2>6. BootTasks' /\ Kinds'
    BY <1>0, <2>1, <2>3, <2>4 DEF FamilyInv, BootTasks, Kinds
  <2>7. Families'
    BY <1>0, <2>1, <2>2, <2>3, <2>4, <2>5 DEF FamilyInv, Families, Leaving, c
  <2>8. Reaping'
    BY <1>0, <2>1, <2>2, <2>3, <2>4, <2>5 DEF FamilyInv, Reaping, c
  <2>9. QED
    BY <2>6, <2>7, <2>8 DEF FamilyInv
<1>3. CASE FreeTask(s)
  <2> DEFINE c == child[s]
  <2>1. state[s] # "FREE" /\ pc[s] = "free"
    BY <1>3, OnCpu DEF FreeTask
  <2>2. c \in Slots \ {Main, Bg, s} /\ state[c] = "ZOMBIE" /\ parent[c] = s /\ isUser[c] = 1
    BY <1>0, <2>1 DEF FamilyInv, Families, Leaving, Reaping, BootTasks, SchedInv, ChildrenAreOthers
  <2>3. /\ state' = [state EXCEPT ![c] = "FREE"]
        /\ child' = [child EXCEPT ![s] = Null]
        /\ pc' = [pc EXCEPT ![s] = IF isUser[s] = 1 THEN "user" ELSE "prompt"]
        /\ UNCHANGED <<next, parent, isUser, hosted>>
    BY <1>3 DEF FreeTask, Goto, ringVars, taskVars
  <2>4. \A u \in Slots : state[u] # "FREE" /\ u # s => child[u] # c
    BY <1>0, <2>1, <2>2 DEF FamilyInv, Families, Leaving
  <2> HIDE DEF c
  <2>5. BootTasks' /\ Kinds'
    BY <1>0, <2>1, <2>2, <2>3 DEF FamilyInv, BootTasks, Kinds
  <2>6. Families'
    BY <1>0, <2>1, <2>2, <2>3, <2>4 DEF FamilyInv, Families, Leaving
  <2>7. Reaping'
    BY <1>0, <2>1, <2>2, <2>3, <2>4 DEF FamilyInv, Reaping
  <2>8. QED
    BY <2>5, <2>6, <2>7 DEF FamilyInv
<1>4. QED
  BY <1>1, <1>2, <1>3

----------------------------------------------------------------------------
(* The list stays one ring                                                 *)

LEMMA RingUnmoved ==
    ASSUME RingInv, UNCHANGED ringVars, current' \in Linked, cpu' \in Linked,
           \A u \in Slots : state'[u] = "FREE" => next[u] = Null
    PROVE  RingInv'
<1>1. next' = next /\ prev' = prev /\ task_count' = task_count
  BY DEF ringVars
<1>2. Linked' = Linked
  BY <1>1 DEF Linked
<1>3. ListConsistent'
  BY <1>1, <1>2 DEF RingInv, ListConsistent
<1>4. RingIsConnected' /\ task_count' = Cardinality(Linked')
  BY <1>1, <1>2 DEF RingInv, RingIsConnected
<1>5. QED
  BY <1>3, <1>4 DEF RingInv

\* A new task goes in right after the current one.
LEMMA RingGrows ==
    ASSUME SchedInv, RingInv, fault = "none", current = cpu, UNCHANGED <<current, cpu>>,
           NEW t \in Slots, AllocCommon(t)
    PROVE  RingInv'
<1> USE SchedAssumption
<1> DEFINE c == current
<1>0. /\ next \in [Slots -> Slots \cup {Null}] /\ prev \in [Slots -> Slots \cup {Null}]
      /\ state \in [Slots -> {"FREE", "READY", "BLOCKED", "ZOMBIE"}]
  BY DEF SchedInv, TypeOK
<1>1. /\ next' = [next EXCEPT ![t] = next[c], ![c] = t]
      /\ prev' = [prev EXCEPT ![t] = c, ![next[c]] = t]
      /\ state' = [state EXCEPT ![t] = "READY"]
      /\ task_count' = task_count + 1
      /\ state[t] = "FREE"
  BY DEF AllocCommon, Free
<1>2. /\ c \in Linked /\ t \notin Linked /\ next[c] \in Linked /\ Linked \subseteq Slots
      /\ \A u \in Linked : /\ next[u] \in Linked /\ prev[u] \in Linked
                           /\ prev[next[u]] = u /\ next[prev[u]] = u
      /\ \A u \in Slots : state[u] = "FREE" => next[u] = Null
  BY <1>1 DEF RingInv, ListConsistent, Linked
<1>3. /\ next'[t] = next[c] /\ next'[c] = t /\ \A u \in Linked \ {c} : next'[u] = next[u]
      /\ prev'[t] = c /\ prev'[next[c]] = t /\ \A u \in Linked \ {next[c]} : prev'[u] = prev[u]
      /\ \A u \in Slots : u # t /\ next[u] = Null => next'[u] = Null
  <2> HIDE DEF c
  <2>1. QED
    BY <1>0, <1>1, <1>2
<1>4. Linked' = Linked \cup {t}
  <2>1. \A u \in Slots : next'[u] # Null <=> u \in Linked \/ u = t
    BY <1>0, <1>2, <1>3 DEF Linked
  <2>2. Linked' = {u \in Slots : next'[u] # Null}
    BY DEF Linked
  <2>3. QED
    BY <1>2, <2>1, <2>2
<1>5. ListConsistent'
  <2>1. ASSUME NEW u \in Linked'
        PROVE  /\ next'[u] \in Linked' /\ prev'[u] \in Linked'
               /\ prev'[next'[u]] = u /\ next'[prev'[u]] = u
    <3> HIDE DEF c
    <3>1. CASE u = t
      BY <1>2, <1>3, <1>4, <3>1
    <3>2. CASE u \in Linked
      <4>1. next'[u] \in Linked' /\ prev'[next'[u]] = u
        <5>1. CASE u = c
          BY <1>2, <1>3, <1>4, <5>1
        <5>2. CASE u # c
          <6>1. next[u] # next[c]
            BY <1>2, <3>2, <5>2
          <6>2. QED
            BY <1>2, <1>3, <1>4, <3>2, <5>2, <6>1
        <5>3. QED
          BY <5>1, <5>2
      <4>2. prev'[u] \in Linked' /\ next'[prev'[u]] = u
        <5>1. CASE u = next[c]
          BY <1>2, <1>3, <1>4, <5>1
        <5>2. CASE u # next[c]
          <6>1. prev[u] # c
            BY <1>2, <3>2, <5>2
          <6>2. QED
            BY <1>2, <1>3, <1>4, <3>2, <5>2, <6>1
        <5>3. QED
          BY <5>1, <5>2
      <4>3. QED
        BY <4>1, <4>2
    <3>3. QED
      BY <1>4, <2>1, <3>1, <3>2
  <2>2. \A u \in Slots : state'[u] = "FREE" => next'[u] = Null
    BY <1>0, <1>1, <1>2, <1>3
  <2>3. current' \in Linked' /\ cpu' \in Linked'
    BY <1>2, <1>4
  <2>4. QED
    BY <2>1, <2>2, <2>3 DEF ListConsistent
<1>6. RingIsConnected'
  <2>1. ASSUME NEW S \in SUBSET Linked', S # {}, \A u \in S : next'[u] \in S
        PROVE  S = Linked'
    <3> HIDE DEF c
    <3> DEFINE R == S \ {t}
    <3>1. R \in SUBSET Linked
      BY <1>4, <2>1
    <3>2. ASSUME NEW u \in R PROVE next[u] \in R
      <4>1. CASE u = c
        BY <1>2, <1>3, <2>1, <4>1
      <4>2. CASE u # c
        BY <1>2, <1>3, <2>1, <3>1, <4>2
      <4>3. QED
        BY <4>1, <4>2
    <3>3. R # {}
      BY <1>2, <1>3, <2>1
    <3>4. R = Linked
      <4> HIDE DEF R
      <4>1. QED
        BY <3>1, <3>2, <3>3 DEF RingInv, RingIsConnected
    <3>5. QED
      BY <1>2, <1>3, <1>4, <2>1, <3>4
  <2>2. QED
    BY <2>1 DEF RingIsConnected
<1>7. task_count' = Cardinality(Linked')
  <2>1. IsFiniteSet(Linked)
    BY <1>2, FS_Subset
  <2>2. Cardinality(Linked \cup {t}) = Cardinality(Linked) + 1
    BY <1>2, <2>1, FS_AddElement
  <2>3. QED
    BY <1>1, <1>4, <2>2 DEF RingInv
<1>8. QED
  BY <1>5, <1>6, <1>7 DEF RingInv

\* A dead child comes out of it.
LEMMA RingShrinks ==
    ASSUME SchedInv, FamilyInv, RingInv, NEW s \in Slots, Unlink(s)
    PROVE  RingInv'
<1> USE SchedAssumption
<1> DEFINE c == child[s]
           p == prev[c]
           n == next[c]
<1>0. /\ next \in [Slots -> Slots \cup {Null}] /\ prev \in [Slots -> Slots \cup {Null}]
      /\ child \in [Slots -> Slots \cup {Null}]
  BY DEF SchedInv, TypeOK
<1>1. /\ cpu = s /\ current = s /\ state[s] # "FREE" /\ pc[s] = "unlink"
      /\ UNCHANGED <<current, cpu, state>>
      /\ next' = [next EXCEPT ![p] = n, ![c] = Null]
      /\ prev' = [prev EXCEPT ![n] = p, ![c] = Null]
      /\ task_count' = task_count - 1
  BY OnCpu DEF Unlink, cpuVars
<1>2. /\ c \in Linked /\ s \in Linked /\ c # s /\ Linked \subseteq Slots
      /\ \A u \in Linked : /\ next[u] \in Linked /\ prev[u] \in Linked
                           /\ prev[next[u]] = u /\ next[prev[u]] = u
      /\ \A u \in Slots : state[u] = "FREE" => next[u] = Null
  BY <1>0, <1>1 DEF RingInv, ListConsistent, Linked, FamilyInv, Families, Reaping, SchedInv, ChildrenAreOthers
<1> HIDE DEF c
<1>3. n # c /\ p # c /\ n \in Linked /\ p \in Linked /\ prev[n] = c /\ next[p] = c
  <2>1. n # c
    <3>1. ASSUME next[c] = c PROVE FALSE
      <4>1. {c} = Linked
        <5> DEFINE S == {c}
        <5>1. S \in SUBSET Linked /\ S # {} /\ \A u \in S : next[u] \in S
          BY <1>2, <3>1
        <5> HIDE DEF S
        <5>2. S = Linked
          BY <5>1 DEF RingInv, RingIsConnected
        <5>3. QED
          BY <5>2 DEF S
      <4>2. QED
        BY <1>2, <4>1
    <3>2. QED
      BY <3>1
  <2>2. QED
    BY <1>2, <2>1
<1> HIDE DEF p, n
<1>4. /\ next'[p] = n /\ next'[c] = Null /\ \A u \in Linked \ {p, c} : next'[u] = next[u]
      /\ prev'[n] = p /\ \A u \in Linked \ {n, c} : prev'[u] = prev[u]
      /\ \A u \in Slots : next[u] = Null => next'[u] = Null
  BY <1>0, <1>1, <1>2, <1>3 DEF Linked
<1>5. Linked' = Linked \ {c}
  <2>1. \A u \in Slots : next'[u] # Null <=> u \in Linked /\ u # c
    <3>1. \A u \in Slots : u \in Linked <=> next[u] # Null
      BY DEF Linked
    <3>2. QED
      BY <1>2, <1>3, <1>4, <3>1
  <2>2. Linked' = {u \in Slots : next'[u] # Null}
    BY DEF Linked
  <2>3. QED
    BY <1>2, <2>1, <2>2
<1>6. ListConsistent'
  <2>1. ASSUME NEW u \in Linked'
        PROVE  /\ next'[u] \in Linked' /\ prev'[u] \in Linked'
               /\ prev'[next'[u]] = u /\ next'[prev'[u]] = u
    <3>0. u \in Linked /\ u # c
      BY <1>5, <2>1
    <3>1. next'[u] \in Linked' /\ prev'[next'[u]] = u
      <4>1. CASE u = p
        BY <1>2, <1>3, <1>4, <1>5, <4>1
      <4>2. CASE u # p
        <5>1. next[u] # c /\ next[u] # n
          BY <1>2, <1>3, <3>0, <4>2
        <5>2. QED
          BY <1>2, <1>4, <1>5, <3>0, <4>2, <5>1
      <4>3. QED
        BY <4>1, <4>2
    <3>2. prev'[u] \in Linked' /\ next'[prev'[u]] = u
      <4>1. CASE u = n
        BY <1>2, <1>3, <1>4, <1>5, <4>1
      <4>2. CASE u # n
        <5>1. prev[u] # c /\ prev[u] # p
          BY <1>2, <1>3, <3>0, <4>2 DEF n
        <5>2. QED
          BY <1>2, <1>4, <1>5, <3>0, <4>2, <5>1
      <4>3. QED
        BY <4>1, <4>2
    <3>3. QED
      BY <3>1, <3>2
  <2>2. \A u \in Slots : state'[u] = "FREE" => next'[u] = Null
    BY <1>1, <1>2, <1>4
  <2>3. current' \in Linked' /\ cpu' \in Linked'
    BY <1>1, <1>2, <1>5
  <2>4. QED
    BY <2>1, <2>2, <2>3 DEF ListConsistent
<1>7. RingIsConnected'
  <2>1. ASSUME NEW S \in SUBSET Linked', S # {}, \A u \in S : next'[u] \in S
        PROVE  S = Linked'
    <3>1. CASE p \in S
      <4> DEFINE R == S \cup {c}
      <4>1. R \in SUBSET Linked /\ R # {}
        BY <1>2, <1>5
      <4>2. ASSUME NEW u \in R PROVE next[u] \in R
        <5>1. CASE u = p
          BY <1>3, <5>1
        <5>2. CASE u = c
          BY <1>4, <2>1, <3>1, <5>2 DEF n
        <5>3. CASE u # c /\ u # p
          BY <1>4, <1>5, <2>1, <5>3
        <5>4. QED
          BY <5>1, <5>2, <5>3
      <4>3. R = Linked
        <5> HIDE DEF R
        <5>1. QED
          BY <4>1, <4>2 DEF RingInv, RingIsConnected
      <4>4. QED
        BY <1>5, <2>1, <4>3
    <3>2. CASE p \notin S
      <4>1. S \in SUBSET Linked /\ \A u \in S : next[u] \in S
        BY <1>4, <1>5, <2>1, <3>2
      <4>2. S = Linked
        BY <2>1, <4>1 DEF RingInv, RingIsConnected
      <4>3. QED
        BY <1>2, <1>5, <4>2
    <3>3. QED
      BY <3>1, <3>2
  <2>2. QED
    BY <2>1 DEF RingIsConnected
<1>8. task_count' = Cardinality(Linked')
  <2>1. IsFiniteSet(Linked) /\ Cardinality(Linked) \in Nat
    BY <1>2, FS_Subset, FS_CardinalityType
  <2>2. Cardinality(Linked \ {c}) = Cardinality(Linked) - 1
    BY <1>2, <2>1, FS_RemoveElement
  <2>3. QED
    BY <1>1, <1>5, <2>2 DEF RingInv
<1>9. QED
  BY <1>6, <1>7, <1>8 DEF RingInv

----------------------------------------------------------------------------
(* Who runs, and how the machine can stop making sense                     *)

\* Only the task on the CPU is between current_task = next and the stack switch,
\* and then the next task is another one, ready to run.
SwitchIsSound ==
    fault = "none" =>
      \A s \in Slots : pc[s] = "switch" => s = cpu /\ current # cpu /\ state[current] = "READY"

\* An editor window runs with interrupts on: it never sleeps in task_block().
EditIsPreemptible == fault = "none" /\ pc[cpu] = "edit" => ints = 1

\* A task that is building another one is not given back.
BuildersStay == \A b \in Slots : pc[b] \in Building => state[b] # "FREE"

RunInv ==
    /\ SwitchIsSound /\ EditIsPreemptible /\ BuildersStay
    /\ OnlyReadyTasksRun /\ SleepersHaveContexts /\ FaultsOnlyInKnownWindows

\* The stack switch, from whatever place, to another task that is READY.
LEMMA SwitchRuns ==
    ASSUME SchedInv, RunInv, fault = "none",
           NEW n \in Linked, NEW f, NEW sv \in [Slots -> Contexts], SwitchTo(n, f, sv),
           n # cpu, state'[n] = "READY",
           \A u \in Slots \ {cpu} : sv[u] = saved[u],
           sv[cpu] # "none" \/ state'[cpu] = "ZOMBIE",
           next' = next, child' = child,
           \A u \in Slots : /\ state[u] = "ZOMBIE" => state'[u] = "ZOMBIE"
                            /\ state[u] # "FREE" => state'[u] # "FREE"
                            /\ pc'[u] \in Building <=> pc[u] \in Building
                            /\ pc'[u] # "switch",
           pc'[n] = pc[n]
    PROVE  RunInv'
<1> USE SchedAssumption
<1>1. n \in Slots /\ Linked' = Linked /\ Linked \subseteq Slots
  BY DEF Linked
<1>2. /\ current' = n /\ cpu' = n
      /\ \/ /\ sv[n] = "none" /\ fault' = "halfbuilt"
         \/ /\ sv[n] # "none" /\ ints' = FlagAfter(sv[n], f)
            /\ saved' = [sv EXCEPT ![n] = "none"] /\ fault' = "none"
  BY DEF SwitchTo
<1>3. SwitchIsSound' /\ BuildersStay' /\ OnlyReadyTasksRun'
  BY <1>1, <1>2 DEF RunInv, SwitchIsSound, BuildersStay, OnlyReadyTasksRun
<1>4. EditIsPreemptible'
  <2>1. ASSUME sv[n] # "none", pc[n] = "edit" PROVE FlagAfter(sv[n], f) = 1
    <3>1. sv[n] # "call"
      BY <1>1, <2>1 DEF SchedInv, SleepersAreInKernel
    <3>2. QED
      BY <3>1 DEF FlagAfter
  <2>2. QED
    BY <1>2, <2>1 DEF EditIsPreemptible
<1>5. ASSUME NEW u \in Linked, u # cpu, state'[u] # "ZOMBIE", sv[u] = "none"
      PROVE  \E b \in Slots : pc'[b] \in Building /\ child'[b] = u
  <2>1. u \in Slots /\ state[u] # "ZOMBIE" /\ saved[u] = "none"
    BY <1>1, <1>5
  <2>2. PICK b \in Slots : pc[b] \in Building /\ child[b] = u
    BY <1>5, <2>1 DEF RunInv, SleepersHaveContexts
  <2>3. QED
    BY <2>2
<1>6. SleepersHaveContexts'
  <2>1. ASSUME fault' = "none", NEW u \in Linked, u # n, state'[u] # "ZOMBIE", saved'[u] = "none"
        PROVE  \E b \in Slots : pc'[b] \in Building /\ child'[b] = u
    <3>1. sv[u] = "none"
      BY <1>1, <1>2, <2>1
    <3>2. u # cpu
      BY <2>1, <3>1
    <3>3. QED
      BY <1>5, <2>1, <3>1, <3>2
  <2>2. QED
    BY <1>1, <1>2, <2>1 DEF SleepersHaveContexts
<1>7. FaultsOnlyInKnownWindows'
  <2>1. fault' = "halfbuilt" => \E b \in Slots : pc'[b] \in Building /\ child'[b] = n
    BY <1>1, <1>2, <1>5
  <2>2. fault' \in {"none", "halfbuilt"}
    BY <1>2
  <2>3. QED
    BY <1>2, <2>1, <2>2 DEF FaultsOnlyInKnownWindows
<1>8. QED
  BY <1>3, <1>4, <1>6, <1>7 DEF RunInv

\* The steps of the task on the CPU that leave it there.
LEMMA StayRuns ==
    ASSUME SchedInv, RunInv, fault = "none", fault' = "none", cpu' = cpu, current' = current,
           current = cpu, pc'[cpu] # "switch",
           pc'[cpu] = "edit" => pc[cpu] = "edit" /\ ints' = ints,
           state'[cpu] = "READY" \/ pc'[cpu] \in {"exit", "sched"},
           \A u \in Slots : pc'[u] \in Building => state'[u] # "FREE",
           \A u \in Slots \ {cpu} : pc'[u] = "switch" => pc[u] = "switch",
           \A u \in Linked' \ {cpu} :
              state'[u] # "ZOMBIE" /\ saved'[u] = "none" =>
                 \/ \E b \in Slots : pc'[b] \in Building /\ child'[b] = u
                 \/ /\ u \in Linked /\ state[u] # "ZOMBIE" /\ saved[u] = "none"
                    /\ \A b \in Slots : pc[b] \in Building /\ child[b] = u => pc'[b] \in Building /\ child'[b] = u
    PROVE  RunInv'
<1> USE SchedAssumption
<1>0. cpu \in Slots
  BY DEF SchedInv, TypeOK
<1>1. SwitchIsSound'
  BY <1>0 DEF RunInv, SwitchIsSound
<1>2. EditIsPreemptible' /\ BuildersStay' /\ OnlyReadyTasksRun'
  BY DEF RunInv, EditIsPreemptible, BuildersStay, OnlyReadyTasksRun
<1>3. SleepersHaveContexts'
  <2>1. ASSUME NEW u \in Linked', u # cpu, state'[u] # "ZOMBIE", saved'[u] = "none"
        PROVE  \E b \in Slots : pc'[b] \in Building /\ child'[b] = u
    <3>1. CASE /\ u \in Linked /\ state[u] # "ZOMBIE" /\ saved[u] = "none"
               /\ \A b \in Slots : pc[b] \in Building /\ child[b] = u => pc'[b] \in Building /\ child'[b] = u
      <4>1. PICK b \in Slots : pc[b] \in Building /\ child[b] = u
        BY <2>1, <3>1 DEF RunInv, SleepersHaveContexts
      <4>2. QED
        BY <3>1, <4>1
    <3>2. QED
      BY <2>1, <3>1
  <2>2. QED
    BY <2>1 DEF SleepersHaveContexts
<1>4. FaultsOnlyInKnownWindows'
  BY DEF FaultsOnlyInKnownWindows
<1>5. QED
  BY <1>1, <1>2, <1>3, <1>4 DEF RunInv

LEMMA TickRuns ==
    ASSUME SchedInv, FamilyInv, RingInv, RunInv, Tick
    PROVE  RingInv' /\ RunInv'
<1> USE SchedAssumption
<1>0. /\ current \in Linked /\ cpu \in Linked /\ cpu \in Slots /\ fault = "none"
      /\ saved \in [Slots -> Contexts] /\ ListConsistent
  BY DEF RingInv, ListConsistent, SchedInv, TypeOK, Tick, TimerInterrupt
<1>1. PICK n \in Slots :
          /\ Picks(state, current, n) /\ n # current
          /\ \/ /\ cpu = current
                /\ SwitchTo(n, 0, [saved EXCEPT ![cpu] = "irq"])
             \/ /\ cpu # current
                /\ fault' = "misfiled"
                /\ UNCHANGED <<current, cpu, ints, saved>>
  BY Zenon DEF Tick
<1>2. state[n] = "READY" /\ n \in Linked
  BY <1>0, <1>1, PicksReady, PicksLinked
<1>3. UNCHANGED <<ringVars, taskVars, state, pc, child, hosted>>
  BY Zenon DEF Tick
<1>4. RingInv'
  <2>1. current' \in Linked /\ cpu' \in Linked
    BY <1>0, <1>1, <1>2 DEF SwitchTo
  <2>2. \A u \in Slots : state'[u] = "FREE" => next[u] = Null
    BY <1>0, <1>3 DEF ListConsistent
  <2>3. QED
    BY <1>3, <2>1, <2>2, RingUnmoved
<1>5. RunInv'
  <2>1. CASE cpu = current
    <3> DEFINE sv == [saved EXCEPT ![cpu] = "irq"]
    <3>1. /\ sv \in [Slots -> Contexts] /\ sv[cpu] = "irq"
          /\ \A u \in Slots \ {cpu} : sv[u] = saved[u]
      BY <1>0 DEF Contexts
    <3>2. SwitchTo(n, 0, sv)
      BY <1>1, <2>1
    <3> HIDE DEF sv
    <3>3. \A u \in Slots : pc'[u] # "switch"
      BY <1>0, <1>3, <2>1 DEF RunInv, SwitchIsSound
    <3>4. UNCHANGED <<next, child, pc, state>>
      BY <1>3 DEF ringVars
    <3>5. QED
      BY <1>0, <1>1, <1>2, <2>1, <3>1, <3>2, <3>3, <3>4, SwitchRuns
  <2>2. CASE cpu # current
    <3>1. fault' = "misfiled" /\ cpu' = cpu /\ current' = current /\ pc[cpu] = "switch"
      BY <1>0, <1>1, <2>2 DEF SchedInv, CpuIsCurrent
    <3>2. BuildersStay'
      BY <1>3 DEF RunInv, BuildersStay
    <3>3. QED
      BY <1>3, <2>2, <3>1, <3>2 DEF RunInv, SwitchIsSound, EditIsPreemptible, OnlyReadyTasksRun,
          SleepersHaveContexts, FaultsOnlyInKnownWindows
  <2>3. QED
    BY <2>1, <2>2
<1>6. QED
  BY <1>4, <1>5

\* task_block().  It never comes straight back: the background task is READY.
LEMMA BlockRuns ==
    ASSUME SchedInv, FamilyInv, RingInv, RunInv, NEW s \in Slots,
           BlockMark(s) \/ BlockPick(s) \/ BlockSwitch(s)
    PROVE  RingInv' /\ RunInv'
<1> USE SchedAssumption
<1>0. /\ current \in Linked /\ cpu \in Linked /\ cpu \in Slots /\ ListConsistent
      /\ saved \in [Slots -> Contexts] /\ pc \in [Slots -> PCs]
      /\ state \in [Slots -> {"FREE", "READY", "BLOCKED", "ZOMBIE"}]
      /\ \A u \in Slots : state[u] = "FREE" => next[u] = Null
  BY DEF RingInv, ListConsistent, SchedInv, TypeOK
<1>1. CASE BlockMark(s)
  <2>1. cpu = s /\ current = s /\ state[s] # "FREE" /\ pc[s] = "block" /\ fault = "none"
    BY <1>1, OnCpu DEF BlockMark
  <2>2. /\ UNCHANGED <<current, cpu, ints, saved, fault, next, child>>
        /\ UNCHANGED ringVars
        /\ pc' = [pc EXCEPT ![s] = "sched"]
        /\ state' = [state EXCEPT ![s] = "BLOCKED"]
    BY <1>1 DEF BlockMark, Goto, cpuVars, ringVars
  <2>3. RingInv'
    BY <1>0, <2>1, <2>2, RingUnmoved
  <2>4. \A u \in Slots : pc'[u] \in Building => state'[u] # "FREE"
    BY <1>0, <2>1, <2>2 DEF RunInv, BuildersStay
  <2>5. RunInv'
    BY <1>0, <2>1, <2>2, <2>4, StayRuns DEF Linked
  <2>6. QED
    BY <2>3, <2>5
<1>2. CASE BlockPick(s)
  <2>1. PICK n \in Slots : /\ Picks(state, current, n)
                           /\ current' = n
                           /\ pc' = [pc EXCEPT ![s] = IF n = s THEN Retry(s) ELSE "switch"]
    BY <1>2, Zenon DEF BlockPick, Goto
  <2>2. /\ cpu = s /\ current = s /\ pc[s] = "sched" /\ fault = "none"
        /\ UNCHANGED <<cpu, ints, saved, fault, ringVars, taskVars, state, child, hosted>>
    BY <1>2, OnCpu DEF BlockPick
  <2>3. n # s
    <3>1. Bg \in Linked /\ Bg # s /\ state[Bg] = "READY"
      BY <2>2 DEF FamilyInv, BootTasks, Linked
    <3>2. QED
      BY <1>0, <2>1, <2>2, <3>1, PicksItself
  <2>4. n \in Linked /\ state[n] = "READY"
    BY <1>0, <2>1, <2>2, <2>3, PicksLinked, PicksReady
  <2>5. RingInv'
    BY <1>0, <2>1, <2>2, <2>4, RingUnmoved
  <2>6. pc' = [pc EXCEPT ![s] = "switch"]
    BY <2>1, <2>3
  <2>7. SwitchIsSound' /\ EditIsPreemptible' /\ BuildersStay' /\ OnlyReadyTasksRun'
    BY <1>0, <2>1, <2>2, <2>3, <2>4, <2>6 DEF RunInv, SwitchIsSound, EditIsPreemptible,
        BuildersStay, OnlyReadyTasksRun
  <2>8. SleepersHaveContexts'
    <3>1. Linked' = Linked /\ \A b \in Slots : pc[b] \in Building => pc'[b] \in Building
      BY <1>0, <2>2, <2>6 DEF Linked, ringVars
    <3>2. QED
      BY <2>2, <3>1 DEF RunInv, SleepersHaveContexts
  <2>9. QED
    BY <2>2, <2>5, <2>7, <2>8 DEF RunInv, FaultsOnlyInKnownWindows
<1>3. CASE BlockSwitch(s)
  <2> DEFINE sv == [saved EXCEPT ![s] = "call"]
  <2>1. /\ cpu = s /\ pc[s] = "switch" /\ fault = "none"
        /\ pc' = [pc EXCEPT ![s] = Retry(s)]
        /\ UNCHANGED ringVars /\ UNCHANGED <<next, state, child>>
        /\ SwitchTo(current, ints, sv)
    BY <1>3 DEF BlockSwitch, Runs, Goto, ringVars
  <2>2. current # cpu /\ state[current] = "READY"
    BY <2>1 DEF RunInv, SwitchIsSound
  <2>3. /\ sv \in [Slots -> Contexts] /\ sv[cpu] = "call"
        /\ \A u \in Slots \ {cpu} : sv[u] = saved[u]
    BY <1>0, <2>1 DEF Contexts
  <2> HIDE DEF sv
  <2>4. /\ \A u \in Slots : /\ pc'[u] \in Building <=> pc[u] \in Building
                            /\ pc'[u] # "switch"
        /\ pc'[current] = pc[current]
    BY <1>0, <2>1, <2>2, RetryInKernel DEF RunInv, SwitchIsSound, Linked
  <2>5. RunInv'
    BY <1>0, <2>1, <2>2, <2>3, <2>4, SwitchRuns
  <2>6. RingInv'
    <3>1. current' \in Linked /\ cpu' \in Linked
      BY <1>0, <2>1 DEF SwitchTo
    <3>2. QED
      BY <1>0, <2>1, <3>1, RingUnmoved
  <2>7. QED
    BY <2>5, <2>6
<1>4. QED
  BY <1>1, <1>2, <1>3

LEMMA CreateRuns ==
    ASSUME SchedInv, FamilyInv, RingInv, RunInv, NEW s \in Slots, NEW t \in Slots,
           Run(s, t) \/ OpenWindow(s, t) \/ Fork(s, t) \/ FinishBuild(s)
              \/ FirstTest(s, t) \/ SecondTest(s, t)
    PROVE  RingInv' /\ RunInv'
<1> USE SchedAssumption
<1>0. /\ current \in Linked /\ cpu \in Linked /\ cpu \in Slots /\ ListConsistent
      /\ saved \in [Slots -> Contexts] /\ pc \in [Slots -> PCs]
      /\ child \in [Slots -> Slots \cup {Null}]
      /\ state \in [Slots -> {"FREE", "READY", "BLOCKED", "ZOMBIE"}]
      /\ \A u \in Slots : state[u] = "FREE" => next[u] = Null
  BY DEF RingInv, ListConsistent, SchedInv, TypeOK
<1>1. CASE Run(s, t) \/ OpenWindow(s, t) \/ Fork(s, t) \/ FirstTest(s, t) \/ SecondTest(s, t)
  <2>1. /\ cpu = s /\ current = s /\ AllocCommon(t) /\ fault = "none"
        /\ pc[s] \in {"prompt", "desktop", "user", "more"}
        /\ UNCHANGED <<current, cpu, fault, ints>>
    BY <1>1, OnCpu DEF Run, OpenWindow, Fork, FirstTest, SecondTest, NewTest, DesktopEvent, cpuVars
  <2>2. RingInv'
    BY <2>1, RingGrows
  <2>3. /\ t # s /\ state[t] = "FREE" /\ state' = [state EXCEPT ![t] = "READY"]
        /\ state[s] = "READY"
    BY <2>1, AllocTypes DEF RunInv, OnlyReadyTasksRun
  <2>4. /\ \A u \in Slots \ {s, t} : pc'[u] = pc[u] /\ child'[u] = child[u]
        /\ \A u \in Slots \ {t} : saved'[u] = saved[u]
        /\ pc'[t] \in {"user", "prompt", "edit", "test"} /\ pc'[s] \in Building \cup {"user"}
        /\ (pc'[s] \in Building /\ child'[s] = t) \/ saved'[t] # "none"
    <3>1. CASE Run(s, t)
      BY <1>0, <2>1, <2>3, <3>1 DEF Run, cpuVars
    <3>2. CASE OpenWindow(s, t)
      BY <1>0, <2>1, <2>3, <3>2 DEF OpenWindow, cpuVars
    <3>3. CASE Fork(s, t)
      BY <1>0, <2>1, <2>3, <3>3 DEF Fork, Runs
    <3>4. CASE FirstTest(s, t) \/ SecondTest(s, t)
      <4>1. PICK stage \in {"first", "second"} : NewTest(s, t, stage)
        BY <3>4, Zenon DEF FirstTest, SecondTest
      <4>2. QED
        BY <1>0, <2>1, <2>3, <4>1 DEF NewTest, cpuVars
    <3>5. QED
      BY <1>1, <3>1, <3>2, <3>3, <3>4
  <2>5. \A u \in Slots : pc'[u] \in Building => state'[u] # "FREE"
    BY <1>0, <2>1, <2>3, <2>4 DEF RunInv, BuildersStay
  <2>6. ASSUME NEW u \in Linked', u # cpu, state'[u] # "ZOMBIE", saved'[u] = "none"
        PROVE  \/ \E b \in Slots : pc'[b] \in Building /\ child'[b] = u
               \/ /\ u \in Linked /\ state[u] # "ZOMBIE" /\ saved[u] = "none"
                  /\ \A b \in Slots : pc[b] \in Building /\ child[b] = u => pc'[b] \in Building /\ child'[b] = u
    <3>1. u \in Slots
      BY <2>6 DEF Linked
    <3>2. CASE u = t
      BY <2>4, <2>6, <3>2
    <3>3. CASE u # t
      <4>1. next[u] # Null
        <5>1. next'[u] # Null
          BY <2>6 DEF Linked
        <5>2. u = s \/ next'[u] = next[u]
          BY <2>1, <3>1, <3>3 DEF AllocCommon, SchedInv, TypeOK
        <5>3. QED
          BY <1>0, <2>1, <2>6, <5>1, <5>2
      <4>2. state[u] # "ZOMBIE" /\ saved[u] = "none"
        BY <1>0, <2>3, <2>4, <2>6, <3>1, <3>3
      <4>3. \A b \in Slots : pc[b] \in Building => b # s /\ b # t
        BY <2>1, <2>3 DEF RunInv, BuildersStay
      <4>4. QED
        BY <2>4, <3>1, <4>1, <4>2, <4>3 DEF Linked
    <3>4. QED
      BY <3>2, <3>3
  <2>7. RunInv'
    <3>1. state'[cpu] = "READY" /\ fault' = "none" /\ cpu' = cpu /\ current' = current /\ current = cpu
      BY <1>0, <2>1, <2>3
    <3>2. pc'[cpu] # "switch" /\ pc'[cpu] # "edit" /\ \A u \in Slots \ {cpu} : pc'[u] = "switch" => pc[u] = "switch"
      BY <2>1, <2>4
    <3>3. QED
      BY <2>1, <2>5, <2>6, <3>1, <3>2, StayRuns
  <2>8. QED
    BY <2>2, <2>7
<1>2. CASE FinishBuild(s)
  <2>1. /\ cpu = s /\ current = s /\ fault = "none" /\ pc[s] \in Building
        /\ UNCHANGED <<current, cpu, fault, ints, state, child, next>>
        /\ UNCHANGED ringVars
        /\ saved' = [saved EXCEPT ![child[s]] = "new"]
        /\ \E l \in {"check", "desktop", "more", "await"} : pc' = [pc EXCEPT ![s] = l]
    BY <1>2, OnCpu DEF FinishBuild, Goto, ringVars
  <2>2. RingInv'
    BY <1>0, <2>1, RingUnmoved
  <2>3. state[s] = "READY" /\ child[s] \in Slots
    BY <2>1 DEF RunInv, OnlyReadyTasksRun, SchedInv, WaitersHaveChildren
  <2>4. \A u \in Slots : pc'[u] \in Building => state'[u] # "FREE"
    BY <1>0, <2>1 DEF RunInv, BuildersStay
  <2>5. ASSUME NEW u \in Linked', u # cpu, state'[u] # "ZOMBIE", saved'[u] = "none"
        PROVE  /\ u \in Linked /\ state[u] # "ZOMBIE" /\ saved[u] = "none"
               /\ \A b \in Slots : pc[b] \in Building /\ child[b] = u => pc'[b] \in Building /\ child'[b] = u
    BY <1>0, <2>1, <2>3, <2>5 DEF Linked
  <2>6. pc'[cpu] \in {"check", "desktop", "more", "await"} /\ \A u \in Slots \ {cpu} : pc'[u] = pc[u]
    BY <1>0, <2>1
  <2>7. RunInv'
    BY <2>1, <2>3, <2>4, <2>5, <2>6, StayRuns
  <2>8. QED
    BY <2>2, <2>7
<1>3. QED
  BY <1>1, <1>2

\* The task list has the background task and kernel_main's own, so an exiting
\* task is never the last one.
LEMMA NeverAlone ==
    ASSUME FamilyInv, RingInv
    PROVE  ~(task_count <= 1)
<1>1. {Main, Bg} \subseteq Linked /\ IsFiniteSet(Linked)
  BY SchedAssumption, FS_Subset DEF FamilyInv, BootTasks, Linked
<1>2. Cardinality({Main}) = 1 /\ IsFiniteSet({Main})
  BY FS_Singleton
<1>3. Cardinality({Main} \cup {Bg}) = Cardinality({Main}) + 1
  BY <1>2, SchedAssumption, FS_AddElement
<1>4. {Main, Bg} = {Main} \cup {Bg}
  OBVIOUS
<1>5. Cardinality({Main, Bg}) = 2 /\ Cardinality({Main, Bg}) <= Cardinality(Linked)
  BY <1>1, <1>2, <1>3, <1>4, FS_Subset
<1>6. Cardinality(Linked) \in Nat
  BY <1>1, FS_CardinalityType
<1>7. QED
  BY <1>5, <1>6 DEF RingInv

\* Exiting, killing and waking up.  An exiting task always finds somebody else to
\* run.
LEMMA ExitRuns ==
    ASSUME SchedInv, FamilyInv, RingInv, RunInv, NEW s \in Slots, NEW t \in Slots,
           Exit(s) \/ ExitMark(s) \/ ExitWake(s) \/ CloseWindow(s, t) \/ PushKey(s, t)
              \/ TestWakes(s, t)
    PROVE  RingInv' /\ RunInv'
<1> USE SchedAssumption
<1>0. /\ current \in Linked /\ cpu \in Linked /\ cpu \in Slots /\ ListConsistent
      /\ saved \in [Slots -> Contexts] /\ pc \in [Slots -> PCs]
      /\ state \in [Slots -> {"FREE", "READY", "BLOCKED", "ZOMBIE"}]
      /\ \A u \in Slots : state[u] = "FREE" => next[u] = Null
  BY DEF RingInv, ListConsistent, SchedInv, TypeOK
<1>1. CASE Exit(s)
  <2>1. /\ state' = Unblock([state EXCEPT ![s] = "ZOMBIE"], parent[s])
        /\ Runs(s, "user") /\ pc' = [pc EXCEPT ![s] = "exit"]
        /\ UNCHANGED <<ringVars, taskVars, child, hosted>>
    BY <1>1, Zenon DEF Exit, Goto
  <2>2. cpu = s /\ current = s /\ fault = "none" /\ pc[s] = "user" /\ s \notin {Main, Bg}
    BY <2>1, OnCpu DEF FamilyInv, BootTasks
  <2>3. /\ state'[s] = "ZOMBIE"
        /\ \A u \in Slots : /\ state'[u] = "FREE" => state[u] = "FREE"
                            /\ state[u] = "ZOMBIE" => state'[u] = "ZOMBIE"
        /\ state'[Bg] = "READY"
    BY <1>0, <2>1, <2>2 DEF Unblock, FamilyInv, BootTasks
  <2>4. PICK n \in Slots :
               /\ Picks(state', current, n)
               /\ IF n = s THEN fault' = "hung" /\ UNCHANGED <<current, cpu, ints, saved>>
                           ELSE SwitchTo(n, 0, saved)
    BY <1>1, NeverAlone, Zenon DEF Exit
  <2>5. n # s
    <3>1. Bg \in Linked
      BY DEF FamilyInv, BootTasks, Linked
    <3>2. QED
      BY <1>0, <2>2, <2>3, <2>4, <3>1, PicksItself
  <2>6. n \in Linked /\ state'[n] = "READY" /\ SwitchTo(n, 0, saved)
    BY <1>0, <2>2, <2>4, <2>5, PicksLinked, PicksReady
  <2>7. RingInv'
    <3>1. current' \in Linked /\ cpu' \in Linked
      BY <2>6 DEF SwitchTo
    <3>2. QED
      BY <1>0, <2>1, <2>3, <3>1, RingUnmoved
  <2>8. RunInv'
    <3>1. /\ \A u \in Slots : /\ pc'[u] \in Building <=> pc[u] \in Building
                              /\ pc'[u] # "switch"
          /\ pc'[n] = pc[n]
      BY <1>0, <2>1, <2>2, <2>5 DEF RunInv, SwitchIsSound
    <3>2. next' = next /\ child' = child
      BY <2>1 DEF ringVars
    <3>3. QED
      BY <1>0, <2>2, <2>3, <2>5, <2>6, <3>1, <3>2, SwitchRuns
  <2>9. QED
    BY <2>7, <2>8
<1>2. ASSUME UNCHANGED <<current, cpu, ints, saved, fault, child>>, UNCHANGED ringVars,
             fault = "none", current = cpu,
             state'[cpu] = "READY" \/ pc'[cpu] \in {"exit", "sched"},
             \/ pc' = pc
             \/ pc[cpu] \notin Building /\ \E l \in {"exit", "sched"} : pc' = [pc EXCEPT ![cpu] = l],
             \A u \in Slots : /\ state'[u] = "FREE" => state[u] = "FREE"
                              /\ state[u] = "ZOMBIE" => state'[u] = "ZOMBIE"
      PROVE  RingInv' /\ RunInv'
  <2>1. RingInv'
    BY <1>0, <1>2, RingUnmoved
  <2>2. /\ Linked' = Linked /\ pc'[cpu] # "switch" /\ (pc'[cpu] = "edit" => pc[cpu] = "edit")
        /\ \A u \in Slots : pc'[u] \in Building <=> pc[u] \in Building
        /\ \A u \in Slots \ {cpu} : pc'[u] = pc[u]
    BY <1>0, <1>2 DEF Linked, ringVars, RunInv, SwitchIsSound
  <2>3. \A u \in Slots : pc'[u] \in Building => state'[u] # "FREE"
    BY <1>2, <2>2 DEF RunInv, BuildersStay
  <2>4. ASSUME NEW u \in Linked', u # cpu, state'[u] # "ZOMBIE", saved'[u] = "none"
        PROVE  /\ u \in Linked /\ state[u] # "ZOMBIE" /\ saved[u] = "none"
               /\ \A b \in Slots : pc[b] \in Building /\ child[b] = u => pc'[b] \in Building /\ child'[b] = u
    BY <1>2, <2>2, <2>4 DEF Linked
  <2>5. RunInv'
    BY <1>2, <2>2, <2>3, <2>4, StayRuns
  <2>6. QED
    BY <2>1, <2>5
<1>3. CASE ExitMark(s)
  <2>1. /\ cpu = s /\ current = s /\ fault = "none" /\ pc[s] = "edit"
        /\ UNCHANGED <<current, cpu, ints, saved, fault, child>> /\ UNCHANGED ringVars
        /\ pc' = [pc EXCEPT ![s] = "exit"] /\ state' = [state EXCEPT ![s] = "ZOMBIE"]
    BY <1>3, OnCpu DEF ExitMark, Goto, cpuVars
  <2>2. pc'[s] = "exit" /\ \A u \in Slots : /\ state'[u] = "FREE" => state[u] = "FREE"
                                            /\ state[u] = "ZOMBIE" => state'[u] = "ZOMBIE"
    BY <1>0, <2>1
  <2>3. QED
    BY <1>2, <2>1, <2>2
<1>4. CASE ExitWake(s)
  <2>1. /\ cpu = s /\ current = s /\ fault = "none" /\ pc[s] = "exit"
        /\ UNCHANGED <<current, cpu, ints, saved, fault, child>> /\ UNCHANGED ringVars
        /\ pc' = [pc EXCEPT ![s] = "sched"] /\ state' = Unblock(state, parent[s])
    BY <1>4, OnCpu, NeverAlone DEF ExitWake, Goto
  <2>2. pc'[s] = "sched" /\ \A u \in Slots : /\ state'[u] = "FREE" => state[u] = "FREE"
                                             /\ state[u] = "ZOMBIE" => state'[u] = "ZOMBIE"
    BY <1>0, <2>1, UnblockWakes
  <2>3. QED
    BY <1>2, <2>1, <2>2
<1>5. CASE CloseWindow(s, t)
  <2>1. /\ Runs(s, "desktop") \/ Runs(s, "closing")
        /\ UNCHANGED <<current, cpu, ints, saved, fault, child, pc>> /\ UNCHANGED ringVars
        /\ t \in hosted /\ state' = Unblock([state EXCEPT ![t] = "ZOMBIE"], parent[t])
    BY <1>5 DEF CloseWindow, DesktopEvent, cpuVars
  <2>2. /\ cpu = s /\ current = s /\ fault = "none" /\ pc[s] \in {"desktop", "closing"}
    BY <2>1, OnCpu
  <2>3. s = Main /\ t # s /\ state[s] = "READY" /\ state[t] # "FREE"
    BY <2>1, <2>2 DEF FamilyInv, BootTasks, Kinds, RunInv, OnlyReadyTasksRun
  <2>4. state'[s] = "READY" /\ \A u \in Slots : /\ state'[u] = "FREE" => state[u] = "FREE"
                                                /\ state[u] = "ZOMBIE" => state'[u] = "ZOMBIE"
    BY <1>0, <2>1, <2>3 DEF Unblock
  <2>5. QED
    BY <1>2, <2>1, <2>2, <2>4
<1>6. CASE PushKey(s, t)
  <2>1. /\ Runs(s, "desktop")
        /\ UNCHANGED <<current, cpu, ints, saved, fault, child, pc>> /\ UNCHANGED ringVars
        /\ state' = Unblock(state, t)
    BY <1>6 DEF PushKey, DesktopEvent, cpuVars
  <2>2. /\ cpu = s /\ current = s /\ fault = "none" /\ pc[s] = "desktop" /\ state[s] = "READY"
    BY <2>1, OnCpu DEF RunInv, OnlyReadyTasksRun
  <2>3. state'[s] = "READY" /\ \A u \in Slots : /\ state'[u] = "FREE" => state[u] = "FREE"
                                                /\ state[u] = "ZOMBIE" => state'[u] = "ZOMBIE"
    BY <1>0, <2>1, <2>2 DEF Unblock
  <2>4. QED
    BY <1>2, <2>1, <2>2, <2>3
<1>7. CASE TestWakes(s, t)
  <2>1. /\ Runs(s, "test")
        /\ UNCHANGED <<current, cpu, ints, saved, fault, child, pc>> /\ UNCHANGED ringVars
        /\ state' = Unblock(state, t)
    BY <1>7 DEF TestWakes, cpuVars
  <2>2. /\ cpu = s /\ current = s /\ fault = "none" /\ pc[s] = "test" /\ state[s] = "READY"
    BY <2>1, OnCpu DEF RunInv, OnlyReadyTasksRun
  <2>3. state'[s] = "READY" /\ \A u \in Slots : /\ state'[u] = "FREE" => state[u] = "FREE"
                                                /\ state[u] = "ZOMBIE" => state'[u] = "ZOMBIE"
    BY <1>0, <2>1, <2>2 DEF Unblock
  <2>4. QED
    BY <1>2, <2>1, <2>2, <2>3
<1>8. QED
  BY <1>1, <1>3, <1>4, <1>5, <1>6, <1>7

\* Waiting and reaping, the shell's and the desktop's own steps.
LEMMA WaitRuns ==
    ASSUME SchedInv, FamilyInv, RingInv, RunInv, NEW s \in Slots,
           \/ WaitCheck(s) \/ SysWait(s) \/ WaitScan(s) \/ Unlink(s) \/ FreeTask(s)
           \/ Desktop(s) \/ HaltUninterruptible(s) \/ TestStep(s) \/ AwaitEnds(s)
    PROVE  RingInv' /\ RunInv'
<1> USE SchedAssumption
<1>0. /\ current \in Linked /\ cpu \in Linked /\ cpu \in Slots /\ ListConsistent
      /\ saved \in [Slots -> Contexts] /\ pc \in [Slots -> PCs]
      /\ child \in [Slots -> Slots \cup {Null}]
      /\ state \in [Slots -> {"FREE", "READY", "BLOCKED", "ZOMBIE"}]
      /\ \A u \in Slots : state[u] = "FREE" => next[u] = Null
      /\ \A u \in Linked : u \in Slots
  BY DEF RingInv, ListConsistent, SchedInv, TypeOK, Linked
<1>1. ASSUME fault = "none", cpu = s, pc[s] \notin Building \cup {"switch", "exit", "sched"},
             pc'[s] \notin Building \cup {"edit", "switch"}, \A u \in Slots \ {s} : pc'[u] = pc[u],
             UNCHANGED <<current, cpu, fault>>,
             \A u \in Slots \ {s} : child'[u] = child[u],
             Linked' \subseteq Linked, state' = state, saved' = saved
      PROVE  RunInv'
  <2>1. cpu = s /\ current = s /\ fault = "none" /\ state[s] = "READY"
    BY <1>1 DEF RunInv, OnlyReadyTasksRun, SchedInv, CpuIsCurrent
  <2>2. pc'[s] \notin Building /\ \A u \in Slots \ {s} : pc'[u] = pc[u]
    BY <1>1
  <2>3. \A u \in Slots : pc'[u] \in Building => state'[u] # "FREE"
    BY <1>1, <2>2 DEF RunInv, BuildersStay
  <2>4. ASSUME NEW u \in Linked', u # cpu, state'[u] # "ZOMBIE", saved'[u] = "none"
        PROVE  /\ u \in Linked /\ state[u] # "ZOMBIE" /\ saved[u] = "none"
               /\ \A b \in Slots : pc[b] \in Building /\ child[b] = u => pc'[b] \in Building /\ child'[b] = u
    <3>1. \A b \in Slots : pc[b] \in Building => b # s
      BY <1>1, <2>1
    <3>2. QED
      BY <1>1, <2>2, <2>4, <3>1
  <2>5. QED
    <3>1. /\ fault' = "none" /\ cpu' = cpu /\ current' = current /\ current = cpu
          /\ pc'[cpu] # "switch" /\ pc'[cpu] # "edit" /\ state'[cpu] = "READY"
          /\ \A u \in Slots \ {cpu} : pc'[u] = "switch" => pc[u] = "switch"
      BY <1>1, <2>1, <2>2
    <3>2. QED
      BY <2>1, <2>3, <2>4, <3>1, StayRuns
<1>2. ASSUME UNCHANGED <<current, cpu, state>>, UNCHANGED ringVars
      PROVE  RingInv' /\ Linked' = Linked
  BY <1>0, <1>2, RingUnmoved DEF Linked, ringVars
<1>3. CASE WaitCheck(s)
  <2>1. PICK l \in {"unlink", "block"} : pc' = [pc EXCEPT ![s] = l]
    BY <1>3 DEF WaitCheck, Goto
  <2>2. /\ Runs(s, "check") /\ UNCHANGED <<current, cpu, fault, child, state, saved>>
        /\ UNCHANGED ringVars
    BY <1>3 DEF WaitCheck, cpuVars
  <2>3. /\ fault = "none" /\ cpu = s /\ pc[s] \notin Building \cup {"switch", "exit", "sched"}
        /\ pc'[s] \notin Building \cup {"edit", "switch"} /\ \A u \in Slots \ {s} : pc'[u] = pc[u]
    BY <1>0, <2>1, <2>2 DEF Runs
  <2>4. QED
    BY <1>1, <1>2, <2>2, <2>3
<1>4. CASE SysWait(s)
  <2>1. /\ Runs(s, "user") /\ UNCHANGED <<current, cpu, fault, child, state, saved>>
        /\ UNCHANGED ringVars /\ pc' = [pc EXCEPT ![s] = "scan"]
    BY <1>4 DEF SysWait, Goto
  <2>2. /\ fault = "none" /\ cpu = s /\ pc[s] \notin Building \cup {"switch", "exit", "sched"}
        /\ pc'[s] \notin Building \cup {"edit", "switch"} /\ \A u \in Slots \ {s} : pc'[u] = pc[u]
    BY <1>0, <2>1 DEF Runs
  <2>3. QED
    BY <1>1, <1>2, <2>1, <2>2
<1>5. CASE WaitScan(s)
  <2>1. /\ Runs(s, "scan")
        /\ UNCHANGED <<current, cpu, saved, fault, ringVars, taskVars, state, hosted>>
        /\ child' = child \/ \E t \in Children(s) : child' = [child EXCEPT ![s] = t]
        /\ \E l \in {"unlink", "user", "block"} : Goto(s, l)
    BY <1>5, Zenon DEF WaitScan
  <2>2. PICK l \in {"unlink", "user", "block"} : pc' = [pc EXCEPT ![s] = l]
    BY <2>1 DEF Goto
  <2>3. \A u \in Slots \ {s} : child'[u] = child[u]
    BY <1>0, <2>1
  <2>4. /\ fault = "none" /\ cpu = s /\ pc[s] \notin Building \cup {"switch", "exit", "sched"}
        /\ pc'[s] \notin Building \cup {"edit", "switch"} /\ \A u \in Slots \ {s} : pc'[u] = pc[u]
    BY <1>0, <2>1, <2>2 DEF Runs
  <2>5. QED
    BY <1>1, <1>2, <2>1, <2>3, <2>4
<1>6. CASE Unlink(s)
  <2>1. RingInv'
    BY <1>6, RingShrinks
  <2>2. /\ Runs(s, "unlink") /\ UNCHANGED <<current, cpu, fault, child, state, saved>>
        /\ pc' = [pc EXCEPT ![s] = "free"]
        /\ next' = [next EXCEPT ![prev[child[s]]] = next[child[s]], ![child[s]] = Null]
    BY <1>6 DEF Unlink, Goto, cpuVars
  <2>3. child[s] \in Linked
    BY <1>0, <2>2, OnCpu DEF SchedInv, WaitersHaveChildren, FamilyInv, Families, Linked
  <2>4. \A u \in Slots : next[u] = Null => next'[u] = Null
    <3>1. \A u \in Slots : next[u] = Null => u # prev[child[s]]
      BY <2>3 DEF RingInv, ListConsistent, Linked
    <3>2. next \in [Slots -> Slots \cup {Null}]
      BY DEF SchedInv, TypeOK
    <3>3. QED
      BY <2>2, <3>1, <3>2
  <2>5. Linked' \subseteq Linked
    BY <2>4 DEF Linked
  <2>6. /\ fault = "none" /\ cpu = s /\ pc[s] \notin Building \cup {"switch", "exit", "sched"}
        /\ pc'[s] \notin Building \cup {"edit", "switch"} /\ \A u \in Slots \ {s} : pc'[u] = pc[u]
    BY <1>0, <2>2 DEF Runs
  <2>7. QED
    BY <1>1, <2>1, <2>2, <2>5, <2>6
<1>7. CASE FreeTask(s)
  <2> DEFINE c == child[s]
  <2>1. /\ cpu = s /\ current = s /\ fault = "none" /\ pc[s] = "free" /\ state[s] = "READY"
        /\ UNCHANGED <<current, cpu, fault, next>> /\ UNCHANGED ringVars
    BY <1>7, OnCpu DEF FreeTask, RunInv, OnlyReadyTasksRun, ringVars
  <2>2. c \in Slots \ {s} /\ next[c] = Null /\ isUser[c] = 1
    BY <1>0, <2>1 DEF FamilyInv, Families, Leaving, Reaping, BootTasks, SchedInv, ChildrenAreOthers, TypeOK
  <2>3. /\ state' = [state EXCEPT ![c] = "FREE"] /\ saved' = [saved EXCEPT ![c] = "none"]
        /\ child' = [child EXCEPT ![s] = Null]
        /\ \E l \in {"user", "prompt"} : pc' = [pc EXCEPT ![s] = l]
    BY <1>7 DEF FreeTask, Goto
  <2> HIDE DEF c
  <2>4. RingInv'
    BY <1>0, <2>1, <2>2, <2>3, RingUnmoved
  <2>5. /\ pc'[s] \in {"user", "prompt"} /\ \A u \in Slots \ {s} : pc'[u] = pc[u] /\ child'[u] = child[u]
        /\ \A u \in Slots \ {c} : state'[u] = state[u] /\ saved'[u] = saved[u]
    BY <1>0, <2>2, <2>3
  <2>6. pc[c] \notin Building
    BY <2>2 DEF FamilyInv, Kinds
  <2>7. \A u \in Slots : pc'[u] \in Building => state'[u] # "FREE"
    BY <2>5, <2>6 DEF RunInv, BuildersStay
  <2>8. Linked' = Linked /\ c \notin Linked
    BY <2>1, <2>2 DEF Linked
  <2>9. ASSUME NEW u \in Linked', u # cpu, state'[u] # "ZOMBIE", saved'[u] = "none"
        PROVE  /\ u \in Linked /\ state[u] # "ZOMBIE" /\ saved[u] = "none"
               /\ \A b \in Slots : pc[b] \in Building /\ child[b] = u => pc'[b] \in Building /\ child'[b] = u
    <3>1. \A b \in Slots : pc[b] \in Building => b # s
      BY <2>1
    <3>2. QED
      BY <1>0, <2>5, <2>8, <2>9, <3>1
  <2>10. RunInv'
    <3>1. /\ fault' = "none" /\ cpu' = cpu /\ current' = current /\ current = cpu
          /\ pc'[cpu] # "switch" /\ pc'[cpu] # "edit" /\ state'[cpu] = "READY"
          /\ \A u \in Slots \ {cpu} : pc'[u] = "switch" => pc[u] = "switch"
      BY <2>1, <2>2, <2>5
    <3>2. QED
      BY <2>1, <2>7, <2>9, <3>1, StayRuns
  <2>11. QED
    BY <2>4, <2>10
<1>8. CASE Desktop(s)
  <2>1. PICK w \in {"prompt", "desktop", "closing"}, l \in {"desktop", "closing", "prompt"} :
            Runs(s, w) /\ pc' = [pc EXCEPT ![s] = l]
    BY <1>8 DEF Desktop, DesktopEvent, Goto
  <2>2. UNCHANGED <<current, cpu, fault, child, state, saved>> /\ UNCHANGED ringVars
    BY <1>8 DEF Desktop, cpuVars
  <2>3. /\ fault = "none" /\ cpu = s /\ pc[s] \notin Building \cup {"switch", "exit", "sched"}
        /\ pc'[s] \notin Building \cup {"edit", "switch"} /\ \A u \in Slots \ {s} : pc'[u] = pc[u]
    BY <1>0, <2>1 DEF Runs
  <2>4. QED
    BY <1>1, <1>2, <2>2, <2>3
<1>9. CASE HaltUninterruptible(s)
  <2>1. /\ fault = "none" /\ cpu = s /\ pc[s] \in {"prompt", "edit", "desktop", "await", "idle"} /\ ints = 0
        /\ fault' = "hung" /\ UNCHANGED <<current, cpu, state, pc, child>> /\ UNCHANGED ringVars
    BY <1>9 DEF HaltUninterruptible, Runs
  <2>2. pc[s] # "edit"
    BY <2>1 DEF RunInv, EditIsPreemptible
  <2>3. RunInv'
    BY <2>1, <2>2 DEF RunInv, SwitchIsSound, EditIsPreemptible, BuildersStay, OnlyReadyTasksRun,
        SleepersHaveContexts, FaultsOnlyInKnownWindows
  <2>4. QED
    BY <1>2, <2>1, <2>3
<1>10. CASE TestStep(s) \/ AwaitEnds(s)
  <2>1. PICK w \in {"test", "await"}, l \in {"block", "idle", "prompt"} :
            Runs(s, w) /\ pc' = [pc EXCEPT ![s] = l]
    BY <1>10 DEF TestStep, AwaitEnds, Goto
  <2>2. UNCHANGED <<current, cpu, fault, child, state, saved>> /\ UNCHANGED ringVars
    BY <1>10 DEF TestStep, AwaitEnds, cpuVars
  <2>3. /\ fault = "none" /\ cpu = s /\ pc[s] \notin Building \cup {"switch", "exit", "sched"}
        /\ pc'[s] \notin Building \cup {"edit", "switch"} /\ \A u \in Slots \ {s} : pc'[u] = pc[u]
    BY <1>0, <2>1 DEF Runs
  <2>4. QED
    BY <1>1, <1>2, <2>2, <2>3
<1>11. QED
  BY <1>3, <1>4, <1>5, <1>6, <1>7, <1>8, <1>9, <1>10

----------------------------------------------------------------------------
(* The theorems about the list, the families and who runs                  *)

AllInv == SchedInv /\ FamilyInv /\ RingInv /\ RunInv

LEMMA InitAllInv == Init => AllInv
<1> SUFFICES ASSUME Init
             PROVE  AllInv
  OBVIOUS
<1> USE SchedAssumption
<1>1. SchedInv
  BY InitSchedInv
<1>2. FamilyInv
  BY DEF Init, Booted, FamilyInv, BootTasks, Kinds, Families, Reaping
<1>3. next[Main] = Bg /\ next[Bg] = Main /\ prev[Main] = Bg /\ prev[Bg] = Main
      /\ \A u \in Slots \ Booted : next[u] = Null
  BY DEF Init, Booted
<1>4. Linked = Booted
  BY <1>3 DEF Linked, Booted
<1>5. ListConsistent
  <2>1. \A u \in Slots : state[u] = "FREE" => u \notin Booted
    BY DEF Init
  <2>2. current \in Linked /\ cpu \in Linked
    BY <1>4 DEF Init, Booted
  <2>3. QED
    BY <1>3, <1>4, <2>1, <2>2 DEF ListConsistent, Booted
<1>6. RingIsConnected
  BY <1>3, <1>4 DEF RingIsConnected, Booted
<1>7. RingInv
  BY <1>4, <1>5, <1>6 DEF RingInv, Init
<1>8. RunInv
  <2>1. SwitchIsSound /\ EditIsPreemptible /\ BuildersStay /\ OnlyReadyTasksRun /\ FaultsOnlyInKnownWindows
    BY DEF Init, Booted, SwitchIsSound, EditIsPreemptible, BuildersStay, OnlyReadyTasksRun,
        FaultsOnlyInKnownWindows
  <2>2. SleepersHaveContexts
    BY <1>4 DEF Init, Booted, SleepersHaveContexts
  <2>3. QED
    BY <2>1, <2>2 DEF RunInv
<1>9. QED
  BY <1>1, <1>2, <1>7, <1>8 DEF AllInv

LEMMA AllInvInductive == AllInv /\ [Next]_vars => AllInv'
<1> SUFFICES ASSUME AllInv, [Next]_vars
             PROVE  AllInv'
  OBVIOUS
<1>0. SchedInv /\ FamilyInv /\ RingInv /\ RunInv /\ OnlyReadyTasksRun
  BY DEF AllInv, RunInv
<1>1. SchedInv'
  BY <1>0, SchedInvInductive
<1>2. CASE UNCHANGED vars
  <2>1. FamilyInv'
    BY <1>0, <1>2 DEF vars, FamilyInv, BootTasks, Kinds, Families, Reaping
  <2>2. Linked' = Linked /\ Linked \subseteq Slots
    BY <1>2 DEF vars, Linked
  <2>3. RingInv'
    BY <1>0, <1>2, <2>2 DEF vars, RingInv, ListConsistent, RingIsConnected
  <2>4. RunInv'
    BY <1>0, <1>2, <2>2 DEF vars, RunInv, SwitchIsSound, EditIsPreemptible, BuildersStay,
        OnlyReadyTasksRun, SleepersHaveContexts, FaultsOnlyInKnownWindows
  <2>5. QED
    BY <1>1, <2>1, <2>3, <2>4 DEF AllInv
<1>3. CASE Tick
  <2>1. Main \in Slots
    BY SchedAssumption
  <2>2. QED
    BY <1>0, <1>1, <1>3, <2>1, TickRuns, QuietFamilies DEF AllInv
<1>4. ASSUME NEW s \in Slots, Step(s)
      PROVE  AllInv'
  <2>1. ASSUME NEW t \in Slots,
               Run(s, t) \/ OpenWindow(s, t) \/ Fork(s, t) \/ FirstTest(s, t) \/ SecondTest(s, t)
        PROVE  AllInv'
    BY <1>0, <1>1, <2>1, CreateRuns, NewFamilies DEF AllInv
  <2>2. ASSUME NEW t \in Slots, CloseWindow(s, t) \/ PushKey(s, t) \/ TestWakes(s, t)
        PROVE  AllInv'
    BY <1>0, <1>1, <2>2, ExitRuns, EndFamilies DEF AllInv
  <2>3. CASE FinishBuild(s)
    BY <1>0, <1>1, <2>3, CreateRuns, EndFamilies DEF AllInv
  <2>4. CASE Exit(s) \/ ExitMark(s) \/ ExitWake(s)
    BY <1>0, <1>1, <2>4, ExitRuns, EndFamilies DEF AllInv
  <2>5. CASE BlockMark(s) \/ BlockPick(s) \/ BlockSwitch(s)
    BY <1>0, <1>1, <2>5, BlockRuns, QuietFamilies DEF AllInv
  <2>6. CASE \/ WaitCheck(s) \/ SysWait(s) \/ Desktop(s) \/ HaltUninterruptible(s)
             \/ TestStep(s) \/ AwaitEnds(s)
    BY <1>0, <1>1, <2>6, WaitRuns, QuietFamilies DEF AllInv
  <2>7. CASE WaitScan(s) \/ Unlink(s) \/ FreeTask(s)
    BY <1>0, <1>1, <2>7, WaitRuns, ReapFamilies DEF AllInv
  <2>8. QED
    BY <1>4, <2>1, <2>2, <2>3, <2>4, <2>5, <2>6, <2>7 DEF Step
<1>5. cpu \in Slots
  BY <1>0 DEF SchedInv, TypeOK
<1>6. QED
  BY <1>2, <1>3, <1>4, <1>5 DEF Next

\* The task list is one cycle through every task in it at all times, whatever
\* tasks are created, killed and reaped in whatever order and wherever the timer
\* strikes: schedule()'s walk reaches every task from every task and ends.
THEOREM TasksFormOneRing == Spec => []OneRing
<1>1. AllInv => OneRing
  BY WalkVisitsAll, SchedAssumption DEF AllInv, FamilyInv, BootTasks, Linked
<1>2. QED
  BY <1>1, InitAllInv, AllInvInductive, PTL DEF Spec

\* schedule() switches to no task that is asleep, dead or killed, and, but for
\* one its creator is still building, to no task without a stack to return to.
THEOREM SoundTasksRun == Spec => []OnlySoundTasksRun
<1>1. AllInv => OnlySoundTasksRun
  BY DEF AllInv, RunInv, OnlySoundTasksRun
<1>2. QED
  BY <1>1, InitAllInv, AllInvInductive, PTL DEF Spec

\* The child that a task builds, waits for or reaps is its own and exists:
\* task_wait_specific() and task_wait_any() never reap each other's tasks.
THEOREM WaitersKeepTheirChildren == Spec => []ChildStaysWithItsWaiter
<1>1. AllInv => ChildStaysWithItsWaiter
  BY DEF AllInv, FamilyInv, Families, ChildStaysWithItsWaiter
<1>2. QED
  BY <1>1, InitAllInv, AllInvInductive, PTL DEF Spec

\* The machine stops making sense only in the windows that the code leaves open
\* (a tick in the middle of task_create, or of a schedule() entered with
\* interrupts on; a hlt with interrupts off, in a shell, the desktop or a task of
\* mutextest that is done), and never because
\* task_exit_current() found nobody to run.
THEOREM FaultsHaveKnownCauses == Spec => []FaultsOnlyInKnownWindows
<1>1. AllInv => FaultsOnlyInKnownWindows
  BY DEF AllInv, RunInv
<1>2. QED
  BY <1>1, InitAllInv, AllInvInductive, PTL DEF Spec

\* No step brings a dead task back, and only a dead task that is out of the list
\* and off the CPU is freed.
LEMMA DeadStayDead ==
    ASSUME AllInv, Next, NEW u \in Slots
    PROVE  /\ state[u] = "ZOMBIE" => state'[u] \in {"ZOMBIE", "FREE"}
           /\ state[u] # "FREE" /\ state'[u] = "FREE" =>
                 state[u] = "ZOMBIE" /\ next[u] = Null /\ u # cpu
<1> USE SchedAssumption
<1>0. /\ SchedInv /\ FamilyInv /\ OnlyReadyTasksRun
      /\ state \in [Slots -> {"FREE", "READY", "BLOCKED", "ZOMBIE"}]
      /\ child \in [Slots -> Slots \cup {Null}]
  BY DEF AllInv, RunInv, SchedInv, TypeOK
<1>1. CASE Tick
  BY <1>1 DEF Tick
<1>2. ASSUME NEW s \in Slots, Step(s)
      PROVE  /\ state[u] = "ZOMBIE" => state'[u] \in {"ZOMBIE", "FREE"}
             /\ state[u] # "FREE" /\ state'[u] = "FREE" =>
                   state[u] = "ZOMBIE" /\ next[u] = Null /\ u # cpu
  <2>1. CASE \/ state' = state
             \/ \E t \in Slots : state[t] = "FREE" /\ state' = [state EXCEPT ![t] = "READY"]
             \/ \E t \in Slots : \/ state' = [state EXCEPT ![t] = "ZOMBIE"] /\ state[t] # "FREE"
                                 \/ state[t] # "ZOMBIE" /\ state' = [state EXCEPT ![t] = "BLOCKED"]
             \/ \E p \in Slots \cup {Null} : state' = Unblock(state, p)
             \/ \E p \in Slots \cup {Null}, t \in Slots :
                   state' = Unblock([state EXCEPT ![t] = "ZOMBIE"], p) /\ state[t] # "FREE"
    BY <1>0, <2>1 DEF Unblock
  <2>2. CASE BlockMark(s)
    <3>1. state[s] = "READY" /\ state' = [state EXCEPT ![s] = "BLOCKED"]
      BY <1>0, <2>2 DEF BlockMark, Runs, OnlyReadyTasksRun
    <3>2. QED
      BY <2>1, <3>1
  <2>3. CASE FreeTask(s)
    <3>1. cpu = s /\ pc[s] = "free" /\ state[s] # "FREE" /\ state' = [state EXCEPT ![child[s]] = "FREE"]
      BY <1>0, <2>3, OnCpu DEF FreeTask
    <3>2. state[child[s]] = "ZOMBIE" /\ next[child[s]] = Null /\ child[s] # s /\ child[s] \in Slots
      BY <1>0, <3>1 DEF FamilyInv, Reaping, SchedInv, ChildrenAreOthers
    <3>3. QED
      BY <1>0, <3>1, <3>2
  <2>4. ASSUME NEW t \in Slots,
               Run(s, t) \/ OpenWindow(s, t) \/ Fork(s, t) \/ FirstTest(s, t) \/ SecondTest(s, t)
        PROVE  state[t] = "FREE" /\ state' = [state EXCEPT ![t] = "READY"]
    BY <2>4 DEF Run, OpenWindow, Fork, FirstTest, SecondTest, NewTest, AllocCommon, Free
  <2>5. ASSUME NEW t \in Slots, CloseWindow(s, t)
        PROVE  state' = Unblock([state EXCEPT ![t] = "ZOMBIE"], parent[t]) /\ state[t] # "FREE"
               /\ parent[t] \in Slots \cup {Null}
    BY <1>0, <2>5 DEF CloseWindow, FamilyInv, Kinds, SchedInv, TypeOK
  <2>6. ASSUME NEW t \in Slots, PushKey(s, t) \/ TestWakes(s, t) PROVE state' = Unblock(state, t)
    BY <2>6 DEF PushKey, TestWakes
  <2>7. CASE Exit(s) \/ ExitMark(s) \/ ExitWake(s)
    <3>1. state[s] # "FREE" /\ parent[s] \in Slots \cup {Null}
      BY <1>0, <2>7, OnCpu DEF Exit, ExitMark, ExitWake, SchedInv, TypeOK
    <3>2. \/ state' = Unblock([state EXCEPT ![s] = "ZOMBIE"], parent[s])
          \/ state' = [state EXCEPT ![s] = "ZOMBIE"]
          \/ state' = Unblock(state, parent[s])
      BY <2>7, Zenon DEF Exit, ExitMark, ExitWake
    <3>3. QED
      BY <2>1, <3>1, <3>2
  <2>8. CASE \/ BlockPick(s) \/ BlockSwitch(s) \/ FinishBuild(s) \/ WaitCheck(s) \/ SysWait(s)
             \/ WaitScan(s) \/ Unlink(s) \/ Desktop(s) \/ HaltUninterruptible(s)
             \/ TestStep(s) \/ AwaitEnds(s)
    <3>1. state' = state
      BY <2>8 DEF BlockPick, BlockSwitch, FinishBuild, WaitCheck, SysWait, WaitScan, Unlink,
          Desktop, HaltUninterruptible, TestStep, AwaitEnds
    <3>2. QED
      BY <2>1, <3>1
  <2>9. CASE \E t \in Slots : \/ Run(s, t) \/ OpenWindow(s, t) \/ Fork(s, t)
                              \/ FirstTest(s, t) \/ SecondTest(s, t) \/ TestWakes(s, t)
                              \/ CloseWindow(s, t) \/ PushKey(s, t)
    BY <2>1, <2>4, <2>5, <2>6, <2>9
  <2>10. QED
    BY <1>2, <2>2, <2>3, <2>7, <2>8, <2>9 DEF Step
<1>3. cpu \in Slots
  BY <1>0 DEF SchedInv, TypeOK
<1>4. QED
  BY <1>1, <1>2, <1>3 DEF Next

\* Death is final: close_window(), SYS_EXIT and the editors kill, only the
\* parent's wait frees, and no wake-up, key or late tick in between revives.
THEOREM DeadTasksStayDead == Spec => DeathIsFinal
<1> DEFINE Final == \A s \in Slots :
          /\ state[s] = "ZOMBIE" => state'[s] \in {"ZOMBIE", "FREE"}
          /\ state[s] # "FREE" /\ state'[s] = "FREE" =>
                state[s] = "ZOMBIE" /\ next[s] = Null /\ s # cpu
<1>1. AllInv /\ [Next]_vars => [Final]_state
  <2>1. AllInv /\ Next => Final
    BY DeadStayDead
  <2> HIDE DEF Final
  <2>2. UNCHANGED vars => UNCHANGED state
    BY DEF vars
  <2>3. QED
    BY <2>1, <2>2
<1>2. DeathIsFinal <=> [][Final]_state
  BY DEF DeathIsFinal
<1> HIDE DEF Final
<1>3. QED
  BY <1>1, <1>2, InitAllInv, AllInvInductive, PTL DEF Spec
=============================================================================
