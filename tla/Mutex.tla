------------------------------- MODULE Mutex -------------------------------
(***************************************************************************)
(* The blocking mutex of kernel/mutex.c and its only client, the           *)
(* `mutextest` shell command of kernel/shell.c.                            *)
(*                                                                         *)
(* The guard spinlock runs its critical section with interrupts off on a   *)
(* single core, so each guarded section is one atomic step; everywhere     *)
(* else the timer may preempt, so every other memory access that another   *)
(* task can observe is a step of its own.  Which READY task steps next is  *)
(* left open: every schedule the round-robin scheduler can produce is one  *)
(* of the interleavings considered here.                                   *)
(***************************************************************************)
EXTENDS Integers, Sequences, FiniteSets

CONSTANTS
    Tasks,       \* the mutex_test_task instances that may ever be created
    Shells,      \* tasks that can execute the mutextest command
    TryLockers,  \* tasks that use mutex_try_lock in place of mutex_lock
    PerTest,     \* tasks started by one mutextest (2 in the code)
    Iters,       \* MUTEX_TEST_ITERS
    MaxWaiters,  \* MUTEX_MAX_WAITERS
    NoTask       \* the null task pointer

ASSUME MutexAssumption ==
    /\ IsFiniteSet(Tasks) /\ TryLockers \subseteq Tasks
    /\ PerTest \in Nat \ {0}
    /\ Iters \in Nat \ {0}
    /\ MaxWaiters \in Nat
    /\ NoTask \notin Tasks

VARIABLES
    locked,      \* m->locked
    waiters,     \* m->waiters[0 .. waiter_count-1]
    state,       \* task state: "READY" or "BLOCKED"
    pc,          \* where each test task is
    iter,        \* the loop variable i of mutex_test_task
    tmp,         \* the local tmp of mutex_test_task
    to_wake,     \* the local to_wake of mutex_unlock
    counter,     \* mutex_test_counter
    done_count,  \* mutex_test_done_count
    shell,       \* where each shell is in cmd_mutextest
    verdict,     \* what the last mutextest of each shell printed
    clash        \* history: a test was started while another one was running

vars == <<locked, waiters, state, pc, iter, tmp, to_wake, counter, done_count,
          shell, verdict, clash>>
mutexVars == <<locked, waiters>>
shellVars == <<shell, verdict, clash>>

PCs == {"none", "lock", "block", "read", "write", "unlock", "wake",
        "finish", "finished", "halt"}
ShellPCs == {"prompt", "create", "wait"}

\* t has taken the mutex and has not yet released it.
Holds(t) == pc[t] \in {"read", "write", "unlock"}

\* A test is in progress: some task of it has not reached its final hlt loop.
Running == \E t \in Tasks : pc[t] \notin {"none", "halt"}

Init ==
    /\ locked = 0
    /\ waiters = <<>>
    /\ state = [t \in Tasks |-> "READY"]
    /\ pc = [t \in Tasks |-> "none"]
    /\ iter = [t \in Tasks |-> 0]
    /\ tmp = [t \in Tasks |-> 0]
    /\ to_wake = [t \in Tasks |-> NoTask]
    /\ counter = 0
    /\ done_count = 0
    /\ shell = [s \in Shells |-> "prompt"]
    /\ verdict = [s \in Shells |-> "none"]
    /\ clash = FALSE

----------------------------------------------------------------------------
(* mutex_lock, mutex_try_lock, mutex_unlock                                *)

\* The guarded section of mutex_lock: take the mutex, or register as a waiter
\* if there is room, and go to sleep in either case.
Lock(t) ==
    /\ pc[t] = "lock" /\ state[t] = "READY" /\ t \notin TryLockers
    /\ \/ /\ locked = 0
          /\ locked' = 1
          /\ pc' = [pc EXCEPT ![t] = "read"]
          /\ UNCHANGED waiters
       \/ /\ locked = 1
          /\ waiters' = IF Len(waiters) < MaxWaiters THEN Append(waiters, t)
                                                     ELSE waiters
          /\ pc' = [pc EXCEPT ![t] = "block"]
          /\ UNCHANGED locked
    /\ UNCHANGED <<state, iter, tmp, to_wake, counter, done_count, shellVars>>

\* Mutant of Block: the waker's word is taken for it, the lock is not re-checked.
BlockThenEnter(t) ==
    /\ pc[t] = "block" /\ state[t] = "READY"
    /\ state' = [state EXCEPT ![t] = "BLOCKED"]
    /\ pc' = [pc EXCEPT ![t] = "read"]
    /\ UNCHANGED <<mutexVars, iter, tmp, to_wake, counter, done_count, shellVars>>

\* task_block(), after the guard was released: nothing re-checks the mutex.
Block(t) ==
    /\ pc[t] = "block" /\ state[t] = "READY"
    /\ state' = [state EXCEPT ![t] = "BLOCKED"]
    /\ pc' = [pc EXCEPT ![t] = "lock"]
    /\ UNCHANGED <<mutexVars, iter, tmp, to_wake, counter, done_count, shellVars>>

\* Mutant of TryLock: the flag is set without looking at it.
TryLockBlind(t) ==
    /\ pc[t] = "lock" /\ state[t] = "READY" /\ t \in TryLockers
    /\ locked' = 1
    /\ pc' = [pc EXCEPT ![t] = "read"]
    /\ UNCHANGED <<waiters, state, iter, tmp, to_wake, counter, done_count, shellVars>>

\* A client that polls with mutex_try_lock; a failed attempt changes nothing.
TryLock(t) ==
    /\ pc[t] = "lock" /\ state[t] = "READY" /\ t \in TryLockers
    /\ locked = 0
    /\ locked' = 1
    /\ pc' = [pc EXCEPT ![t] = "read"]
    /\ UNCHANGED <<waiters, state, iter, tmp, to_wake, counter, done_count, shellVars>>

\* Mutant of Unlock: the woken task stays in the array.
UnlockKeepsWaiter(t) ==
    /\ pc[t] = "unlock" /\ state[t] = "READY"
    /\ locked' = 0
    /\ to_wake' = [to_wake EXCEPT ![t] = IF waiters = <<>> THEN NoTask ELSE Head(waiters)]
    /\ pc' = [pc EXCEPT ![t] = "wake"]
    /\ UNCHANGED <<waiters, state, iter, tmp, counter, done_count, shellVars>>

\* Mutant of Unlock: the flag stays set for the woken task, which re-checks it.
UnlockHandsOver(t) ==
    /\ pc[t] = "unlock" /\ state[t] = "READY"
    /\ locked' = IF waiters = <<>> THEN 0 ELSE 1
    /\ to_wake' = [to_wake EXCEPT ![t] = IF waiters = <<>> THEN NoTask ELSE Head(waiters)]
    /\ waiters' = IF waiters = <<>> THEN waiters ELSE Tail(waiters)
    /\ pc' = [pc EXCEPT ![t] = "wake"]
    /\ UNCHANGED <<state, iter, tmp, counter, done_count, shellVars>>

\* The guarded section of mutex_unlock.
Unlock(t) ==
    /\ pc[t] = "unlock" /\ state[t] = "READY"
    /\ locked' = 0
    /\ \/ /\ waiters # <<>>
          /\ to_wake' = [to_wake EXCEPT ![t] = Head(waiters)]
          /\ waiters' = Tail(waiters)
       \/ /\ waiters = <<>>
          /\ to_wake' = [to_wake EXCEPT ![t] = NoTask]
          /\ UNCHANGED waiters
    /\ pc' = [pc EXCEPT ![t] = "wake"]
    /\ UNCHANGED <<state, iter, tmp, counter, done_count, shellVars>>

\* if (to_wake) task_unblock(to_wake), then the loop of mutex_test_task.
Wake(t) ==
    /\ pc[t] = "wake" /\ state[t] = "READY"
    /\ state' = [u \in Tasks |-> IF u = to_wake[t] THEN "READY" ELSE state[u]]
    /\ to_wake' = [to_wake EXCEPT ![t] = NoTask]
    /\ iter' = [iter EXCEPT ![t] = @ + 1]
    /\ pc' = [pc EXCEPT ![t] = IF iter[t] + 1 < Iters THEN "lock" ELSE "finish"]
    /\ UNCHANGED <<mutexVars, tmp, counter, done_count, shellVars>>

----------------------------------------------------------------------------
(* mutex_test_task                                                         *)

\* int tmp = mutex_test_counter;
ReadCounter(t) ==
    /\ pc[t] = "read" /\ state[t] = "READY"
    /\ tmp' = [tmp EXCEPT ![t] = counter]
    /\ pc' = [pc EXCEPT ![t] = "write"]
    /\ UNCHANGED <<mutexVars, state, iter, to_wake, counter, done_count, shellVars>>

\* tmp = tmp + 1; mutex_test_counter = tmp;
WriteCounter(t) ==
    /\ pc[t] = "write" /\ state[t] = "READY"
    /\ counter' = tmp[t] + 1
    /\ pc' = [pc EXCEPT ![t] = "unlock"]
    /\ UNCHANGED <<mutexVars, state, iter, tmp, to_wake, done_count, shellVars>>

\* mutex_test_done_count++ on a volatile: the read ...
ReadDone(t) ==
    /\ pc[t] = "finish" /\ state[t] = "READY"
    /\ tmp' = [tmp EXCEPT ![t] = done_count]
    /\ pc' = [pc EXCEPT ![t] = "finished"]
    /\ UNCHANGED <<mutexVars, state, iter, to_wake, counter, done_count, shellVars>>

\* ... and the write, outside the mutex; then the task idles forever.
WriteDone(t) ==
    /\ pc[t] = "finished" /\ state[t] = "READY"
    /\ done_count' = tmp[t] + 1
    /\ pc' = [pc EXCEPT ![t] = "halt"]
    /\ UNCHANGED <<mutexVars, state, iter, tmp, to_wake, counter, shellVars>>

----------------------------------------------------------------------------
(* cmd_mutextest                                                           *)

\* Clears the shared globals and re-initialises the one static mutex.
StartTest(s) ==
    /\ shell[s] = "prompt"
    /\ Cardinality({t \in Tasks : pc[t] = "none"}) >= PerTest
    /\ counter' = 0
    /\ done_count' = 0
    /\ locked' = 0
    /\ waiters' = <<>>
    /\ shell' = [shell EXCEPT ![s] = "create"]
    /\ verdict' = [verdict EXCEPT ![s] = "none"]
    /\ clash' = (clash \/ Running \/ \E r \in Shells : shell[r] # "prompt")
    /\ UNCHANGED <<state, pc, iter, tmp, to_wake>>

\* The two task_create(mutex_test_task) calls; either task may run before the
\* command's wait loop does, which the interleaving of the tasks covers.
CreateTasks(s) ==
    /\ shell[s] = "create"
    /\ \E T \in SUBSET {t \in Tasks : pc[t] = "none"} :
          /\ Cardinality(T) = PerTest
          /\ pc' = [t \in Tasks |-> IF t \in T THEN "lock" ELSE pc[t]]
    /\ shell' = [shell EXCEPT ![s] = "wait"]
    /\ UNCHANGED <<mutexVars, state, iter, tmp, to_wake, counter, done_count,
                   verdict, clash>>

\* Mutant of Report: the loop waits for one task too few.
ReportEarly(s) ==
    /\ shell[s] = "wait"
    /\ done_count >= PerTest - 1
    /\ verdict' = [verdict EXCEPT ![s] =
                      IF counter = PerTest * Iters THEN "PASS" ELSE "FAIL"]
    /\ shell' = [shell EXCEPT ![s] = "prompt"]
    /\ UNCHANGED <<mutexVars, state, pc, iter, tmp, to_wake, counter, done_count, clash>>

\* The hlt loop sees done_count reach PerTest and the verdict is printed.
Report(s) ==
    /\ shell[s] = "wait"
    /\ done_count >= PerTest
    /\ verdict' = [verdict EXCEPT ![s] =
                      IF counter = PerTest * Iters THEN "PASS" ELSE "FAIL"]
    /\ shell' = [shell EXCEPT ![s] = "prompt"]
    /\ UNCHANGED <<mutexVars, state, pc, iter, tmp, to_wake, counter, done_count, clash>>

----------------------------------------------------------------------------
TaskStep(t) ==
    \/ Lock(t) \/ Block(t) \/ TryLock(t) \/ Unlock(t) \/ Wake(t)
    \/ ReadCounter(t) \/ WriteCounter(t) \/ ReadDone(t) \/ WriteDone(t)

ShellStep(s) == StartTest(s) \/ CreateTasks(s) \/ Report(s)

Next == (\E t \in Tasks : TaskStep(t)) \/ (\E s \in Shells : ShellStep(s))

Spec == Init /\ [][Next]_vars

\* Round-robin preemption gives every READY task the CPU again and again
\* (Sched.tla), so no task is suspended forever between two of its steps.
\* Whether a shell ever types the command again is not assumed.
Fairness ==
    /\ \A t \in Tasks : WF_vars(TaskStep(t))
    /\ \A s \in Shells : WF_vars(CreateTasks(s) \/ Report(s))

FairSpec == Spec /\ Fairness

----------------------------------------------------------------------------
(* Properties                                                              *)

\* The task holding the mutex, as the abstract lock sees it.
owner == IF \E t \in Tasks : Holds(t) THEN CHOOSE t \in Tasks : Holds(t) ELSE NoTask

CL == INSTANCE CountingLock
         WITH Clients <- Tasks, Nobody <- NoTask, owner <- owner, count <- counter

\* mutex.c with one shell running mutextest implements the abstract lock: every
\* step is an acquisition, an increment by the owner, a release, a restart or
\* invisible.
ImplementsCountingLock == CL!CLSpec

TypeOK ==
    /\ locked \in {0, 1}
    /\ waiters \in Seq(Tasks)
    /\ state \in [Tasks -> {"READY", "BLOCKED"}]
    /\ pc \in [Tasks -> PCs]
    /\ iter \in [Tasks -> Nat]
    /\ tmp \in [Tasks -> Nat]
    /\ to_wake \in [Tasks -> Tasks \cup {NoTask}]
    /\ counter \in Nat
    /\ done_count \in Nat
    /\ shell \in [Shells -> ShellPCs]
    /\ verdict \in [Shells -> {"none", "PASS", "FAIL"}]
    /\ clash \in BOOLEAN

\* Mutual exclusion (mutex.c): unless one test was started on top of another
\* (which re-initialises a mutex in use), at most one task is between
\* mutex_lock returning and mutex_unlock clearing the flag, and the flag is
\* set exactly while there is one.
MutualExclusion ==
    ~clash => /\ \A t, u \in Tasks : Holds(t) /\ Holds(u) => t = u
              /\ locked = 1 <=> \E t \in Tasks : Holds(t)

\* No lost updates (shell.c, the reason mutextest exists): every change of
\* mutex_test_counter adds one to the value being replaced or restarts it for
\* a new test.
CounterNeverLosesAnUpdate ==
    [][~clash' => \/ counter' = counter + 1
                  \/ counter' = 0 /\ ~Running]_counter

\* The command never prints FAIL for a test that had the globals to itself.
NeverReportsFail == ~clash => \A s \in Shells : verdict[s] # "FAIL"

\* Every entry of m->waiters is held by a task that is asleep or about
\* to go to sleep, once: mutex_unlock never wakes a task that is elsewhere.
WaitersAreSleepers ==
    ~clash => /\ \A i \in 1..Len(waiters) :
                    \/ pc[waiters[i]] = "block"
                    \/ pc[waiters[i]] = "lock" /\ state[waiters[i]] = "BLOCKED"
              /\ \A i, j \in 1..Len(waiters) : waiters[i] = waiters[j] => i = j
              /\ Len(waiters) <= MaxWaiters

\* The mutex is never held forever: the holder is never asleep, so it reaches
\* mutex_unlock.
AlwaysReleased == locked = 1 ~> locked = 0

\* mutex.c:38-44 says a task overtaken before task_block() "will just get
\* woken by whichever unlock() reaches us next".
SleeperIsWoken == \A t \in Tasks : state[t] = "BLOCKED" ~> state[t] = "READY"
=============================================================================
