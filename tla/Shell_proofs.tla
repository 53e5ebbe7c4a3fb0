---------------------------- MODULE Shell_proofs ----------------------------
(***************************************************************************)
(* Theorems about the shell and its commands: mutextest on the mutex, for  *)
(* any number of tasks, shells, iterations and waiter slots; what the      *)
(* console shows of a line, of what is printed and of a game of snake, for *)
(* every size of the screens and the field, every text, and any number of  *)
(* commands; and the tables of the KRONK interpreter, for any programs and *)
(* any number of terminals.                                                *)
(***************************************************************************)
EXTENDS Mutex, Terminal, Kronk, FiniteSetTheorems, WellFoundedInduction, TLAPS

----------------------------------------------------------------------------
(* mutextest and the mutex                                                 *)

\* The inductive strengthening of mutual exclusion.  A task about to write the
\* counter back still holds in tmp the value the counter has: nobody else can
\* have written it since, because nobody else holds the mutex.
TmpIsFresh == ~clash => \A t \in Tasks : pc[t] = "write" => tmp[t] = counter

MutexInv == TypeOK /\ MutualExclusion /\ TmpIsFresh

LEMMA InitTypeOK == Init => TypeOK
<1> SUFFICES ASSUME Init
             PROVE  TypeOK
  OBVIOUS
<1>1. clash \in BOOLEAN
  BY Zenon DEF Init
<1>2. waiters \in Seq(Tasks)
  BY DEF Init
<1>3. QED
  BY <1>1, <1>2, MutexAssumption DEF Init, TypeOK, PCs, ShellPCs

\* Every variable keeps its type: in particular m->waiters only ever holds
\* tasks, whatever the waiter array's capacity.
THEOREM MutexTypeCorrect == Spec => []TypeOK
<1> USE MutexAssumption DEF TypeOK, PCs, ShellPCs
<1>1. Init => TypeOK
  BY InitTypeOK
<1>2. ASSUME TypeOK, [Next]_vars
      PROVE  TypeOK'
  <2>1. CASE UNCHANGED vars
    BY <1>2, <2>1 DEF vars
  <2>2. ASSUME NEW t \in Tasks, Lock(t)
        PROVE  TypeOK'
    <3> HIDE DEF TypeOK
    <3>0. locked \in {0, 1} /\ waiters \in Seq(Tasks) /\ pc \in [Tasks -> PCs]
      BY <1>2, Zenon DEF TypeOK
    <3>1. waiters' = waiters \/ waiters' = Append(waiters, t)
      BY <2>2, Zenon DEF Lock
    <3>2. waiters' \in Seq(Tasks)
      BY <3>0, <3>1
    <3>3. locked' \in {0, 1} /\ pc' \in [Tasks -> PCs]
      BY <3>0, <2>2 DEF Lock
    <3> USE DEF TypeOK
    <3>4. QED
      BY <1>2, <2>2, <3>2, <3>3, Zenon DEF Lock, shellVars
  <2>3. ASSUME NEW t \in Tasks, Block(t)
        PROVE  TypeOK'
    BY <1>2, <2>3 DEF Block, mutexVars, shellVars
  <2>4. ASSUME NEW t \in Tasks, TryLock(t)
        PROVE  TypeOK'
    BY <1>2, <2>4 DEF TryLock, shellVars
  <2>5. ASSUME NEW t \in Tasks, Unlock(t)
        PROVE  TypeOK'
    <3>1. \/ /\ waiters # <<>> /\ waiters' = Tail(waiters)
             /\ to_wake' = [to_wake EXCEPT ![t] = Head(waiters)]
          \/ /\ waiters' = waiters
             /\ to_wake' = [to_wake EXCEPT ![t] = NoTask]
      BY <2>5, Zenon DEF Unlock
    <3>a. waiters \in Seq(Tasks) /\ to_wake \in [Tasks -> Tasks \cup {NoTask}]
      BY <1>2, Zenon
    <3>2. waiters' \in Seq(Tasks) /\ to_wake' \in [Tasks -> Tasks \cup {NoTask}]
      BY <3>a, <3>1
    <3>3. QED
      BY <1>2, <2>5, <3>2 DEF Unlock, shellVars
  <2>6. ASSUME NEW t \in Tasks, Wake(t)
        PROVE  TypeOK'
    BY <1>2, <2>6 DEF Wake, mutexVars, shellVars
  <2>7. ASSUME NEW t \in Tasks, ReadCounter(t)
        PROVE  TypeOK'
    BY <1>2, <2>7 DEF ReadCounter, mutexVars, shellVars
  <2>8. ASSUME NEW t \in Tasks, WriteCounter(t)
        PROVE  TypeOK'
    BY <1>2, <2>8 DEF WriteCounter, mutexVars, shellVars
  <2>9. ASSUME NEW t \in Tasks, ReadDone(t)
        PROVE  TypeOK'
    BY <1>2, <2>9 DEF ReadDone, mutexVars, shellVars
  <2>10. ASSUME NEW t \in Tasks, WriteDone(t)
         PROVE  TypeOK'
    BY <1>2, <2>10 DEF WriteDone, mutexVars, shellVars
  <2>11. ASSUME NEW s \in Shells, StartTest(s)
         PROVE  TypeOK'
    <3>1. clash' \in BOOLEAN
      BY <2>11, Zenon DEF StartTest
    <3>2. QED
      BY <1>2, <2>11, <3>1 DEF StartTest
  <2>12. ASSUME NEW s \in Shells, CreateTasks(s)
         PROVE  TypeOK'
    BY <1>2, <2>12 DEF CreateTasks, mutexVars
  <2>13. ASSUME NEW s \in Shells, Report(s)
         PROVE  TypeOK'
    BY <1>2, <2>13 DEF Report, mutexVars
  <2>14. QED
    BY <1>2, <2>1, <2>2, <2>3, <2>4, <2>5, <2>6, <2>7, <2>8, <2>9, <2>10,
       <2>11, <2>12, <2>13 DEF Next, TaskStep, ShellStep
<1>3. QED
  BY <1>1, <1>2, PTL DEF Spec

\* One step of any task or shell keeps the mutex exclusive and tmp fresh.
LEMMA MutexInvStep ==
  ASSUME MutexInv, [Next]_vars, TypeOK'
  PROVE  MutexInv'
<1> USE MutexAssumption DEF MutexInv, TypeOK, PCs, ShellPCs, MutualExclusion, TmpIsFresh, Holds
<1>1. CASE UNCHANGED vars
  BY <1>1 DEF vars
<1>2. ASSUME NEW t \in Tasks, Lock(t)
      PROVE  MutexInv'
  <2>1. clash' = clash /\ counter' = counter /\ tmp' = tmp
    BY <1>2 DEF Lock, shellVars
  <2>2. \/ /\ locked = 0 /\ locked' = 1
           /\ pc' = [pc EXCEPT ![t] = "read"]
        \/ /\ locked' = locked /\ pc[t] = "lock"
           /\ pc' = [pc EXCEPT ![t] = "block"]
    BY <1>2 DEF Lock
  <2>3. CASE locked = 0 /\ locked' = 1 /\ pc' = [pc EXCEPT ![t] = "read"]
    <3>1. ~clash' => MutualExclusion'
      BY <2>1, <2>3
    <3>2. ~clash' => TmpIsFresh'
      BY <2>1, <2>3
    <3>3. QED
      BY <3>1, <3>2
  <2>4. CASE locked' = locked /\ pc[t] = "lock" /\ pc' = [pc EXCEPT ![t] = "block"]
    BY <2>1, <2>4
  <2>5. QED
    BY <2>2, <2>3, <2>4
<1>3. ASSUME NEW t \in Tasks, Block(t)
      PROVE  MutexInv'
  BY <1>3 DEF Block, mutexVars, shellVars
<1>4. ASSUME NEW t \in Tasks, TryLock(t)
      PROVE  MutexInv'
  BY <1>4 DEF TryLock, shellVars
<1>5. ASSUME NEW t \in Tasks, Unlock(t)
      PROVE  MutexInv'
  BY <1>5 DEF Unlock, shellVars
<1>6. ASSUME NEW t \in Tasks, Wake(t)
      PROVE  MutexInv'
  BY <1>6 DEF Wake, mutexVars, shellVars
<1>7. ASSUME NEW t \in Tasks, ReadCounter(t)
      PROVE  MutexInv'
  BY <1>7 DEF ReadCounter, mutexVars, shellVars
<1>8. ASSUME NEW t \in Tasks, WriteCounter(t)
      PROVE  MutexInv'
  BY <1>8 DEF WriteCounter, mutexVars, shellVars
<1>9. ASSUME NEW t \in Tasks, ReadDone(t)
      PROVE  MutexInv'
  BY <1>9 DEF ReadDone, mutexVars, shellVars
<1>10. ASSUME NEW t \in Tasks, WriteDone(t)
       PROVE  MutexInv'
  BY <1>10 DEF WriteDone, mutexVars, shellVars
<1>11. ASSUME NEW s \in Shells, StartTest(s)
       PROVE  MutexInv'
  <2>1. ~clash' => \A t \in Tasks : pc[t] \in {"none", "halt"}
    BY <1>11, Zenon DEF StartTest, Running
  <2>2. QED
    BY <1>11, <2>1 DEF StartTest
<1>12. ASSUME NEW s \in Shells, CreateTasks(s)
       PROVE  MutexInv'
  BY <1>12 DEF CreateTasks, mutexVars
<1>13. ASSUME NEW s \in Shells, Report(s)
       PROVE  MutexInv'
  BY <1>13 DEF Report, mutexVars
<1>14. QED
  BY <1>1, <1>2, <1>3, <1>4, <1>5, <1>6, <1>7, <1>8, <1>9, <1>10, <1>11, <1>12, <1>13
     DEF Next, TaskStep, ShellStep

LEMMA MutexInvHolds == Spec => []MutexInv
<1>1. Init => MutexInv
  BY InitTypeOK DEF Init, MutexInv, MutualExclusion, TmpIsFresh, Holds
<1>2. TypeOK /\ TypeOK' /\ MutexInv /\ [Next]_vars => MutexInv'
  BY MutexInvStep
<1>3. QED
  BY <1>1, <1>2, MutexTypeCorrect, PTL DEF Spec

\* mutex_lock/mutex_unlock never let two tasks into the section they protect,
\* for any number of contenders and any size of the waiter array.
THEOREM MutexExcludes == Spec => []MutualExclusion
  BY MutexInvHolds, PTL DEF MutexInv

\* Every write of mutex_test_counter is an increment of the value it replaces
\* or the reset that begins a test of its own.
THEOREM MutexLosesNoUpdate == Spec => CounterNeverLosesAnUpdate
<1>1. ASSUME MutexInv, [Next]_vars
      PROVE  [~clash' => \/ counter' = counter + 1
                         \/ counter' = 0 /\ ~Running]_counter
  <2> SUFFICES ASSUME counter' # counter, ~clash'
               PROVE  \/ counter' = counter + 1
                      \/ counter' = 0 /\ ~Running
    OBVIOUS
  <2>1. \/ \E t \in Tasks : WriteCounter(t)
        \/ \E s \in Shells : StartTest(s)
    BY <1>1 DEF Next, TaskStep, ShellStep, Lock, Block, TryLock, Unlock, Wake, ReadCounter,
       ReadDone, WriteDone, CreateTasks, Report, vars
  <2>2. CASE \E t \in Tasks : WriteCounter(t)
    BY <1>1, <2>2 DEF WriteCounter, MutexInv, TmpIsFresh, shellVars
  <2>3. CASE \E s \in Shells : StartTest(s)
    BY <2>3, Zenon DEF StartTest
  <2>4. QED
    BY <2>1, <2>2, <2>3
<1>2. QED
  BY <1>1, MutexInvHolds, PTL DEF Spec, CounterNeverLosesAnUpdate

----------------------------------------------------------------------------
(* The waiter array                                                        *)

\* t has given up its turn and waits to be woken.
Sleeps(t) == pc[t] = "block" \/ (pc[t] = "lock" /\ state[t] = "BLOCKED")

\* A task that mutex_unlock has taken out of the array, and that is about to be
\* woken, still sleeps, is in the array no more, and is woken by one task only:
\* so it cannot register again before the wake-up reaches it.
WakersAreSound ==
    ~clash => \A t \in Tasks : to_wake[t] # NoTask =>
        /\ pc[t] = "wake" /\ Sleeps(to_wake[t])
        /\ \A i \in 1..Len(waiters) : waiters[i] # to_wake[t]
        /\ \A u \in Tasks : to_wake[u] = to_wake[t] => u = t

WaitersInv == WaitersAreSleepers /\ WakersAreSound

LEMMA WaitersInvStep ==
  ASSUME TypeOK, WaitersInv, [Next]_vars
  PROVE  WaitersInv'
<1> SUFFICES ASSUME ~clash'
             PROVE  WaitersInv'
  BY DEF WaitersInv, WaitersAreSleepers, WakersAreSound
<1> USE MutexAssumption DEF WaitersInv, WaitersAreSleepers, WakersAreSound, Sleeps
<1>0. /\ waiters \in Seq(Tasks) /\ pc \in [Tasks -> PCs]
      /\ state \in [Tasks -> {"READY", "BLOCKED"}]
      /\ to_wake \in [Tasks -> Tasks \cup {NoTask}]
  BY DEF TypeOK
<1>1. CASE UNCHANGED vars
  BY <1>0, <1>1 DEF vars
<1>2. ASSUME NEW t \in Tasks, Lock(t)
      PROVE  WaitersInv'
  <2>1. clash' = clash /\ state' = state /\ to_wake' = to_wake /\ pc[t] = "lock" /\ state[t] = "READY"
    BY <1>2 DEF Lock, shellVars
  <2>2. \A i \in 1..Len(waiters) : waiters[i] \in Tasks /\ waiters[i] # t
    BY <1>0, <2>1
  <2>3. \A u \in Tasks : to_wake[u] # t /\ to_wake[u] # NoTask => u # t
    BY <1>0, <2>1
  <2>4. CASE waiters' = waiters /\ \E l \in PCs : pc' = [pc EXCEPT ![t] = l]
    BY <1>0, <2>1, <2>2, <2>3, <2>4
  <2>5. CASE /\ Len(waiters) < MaxWaiters /\ waiters' = Append(waiters, t)
             /\ pc' = [pc EXCEPT ![t] = "block"]
    <3>1. /\ Len(waiters') = Len(waiters) + 1 /\ waiters'[Len(waiters) + 1] = t
          /\ \A i \in 1..Len(waiters) : waiters'[i] = waiters[i]
      BY <1>0, <2>5
    <3>2. WaitersAreSleepers'
      BY <1>0, <2>1, <2>2, <2>5, <3>1
    <3>3. WakersAreSound'
      BY <1>0, <2>1, <2>2, <2>3, <2>5, <3>1
    <3>4. QED
      BY <3>2, <3>3
  <2>6. QED
    BY <1>2, <2>4, <2>5 DEF Lock, PCs
<1>3. ASSUME NEW t \in Tasks, Block(t)
      PROVE  WaitersInv'
  BY <1>0, <1>3 DEF Block, mutexVars, shellVars
<1>4. ASSUME NEW t \in Tasks, TryLock(t)
      PROVE  WaitersInv'
  BY <1>0, <1>4 DEF TryLock, shellVars
<1>5. ASSUME NEW t \in Tasks, Unlock(t)
      PROVE  WaitersInv'
  <2>1. /\ clash' = clash /\ state' = state /\ pc[t] = "unlock"
        /\ pc' = [pc EXCEPT ![t] = "wake"]
    BY <1>5 DEF Unlock, shellVars
  <2>2. CASE waiters = <<>> /\ waiters' = waiters /\ to_wake' = [to_wake EXCEPT ![t] = NoTask]
    BY <1>0, <2>1, <2>2
  <2>3. CASE waiters # <<>> /\ waiters' = Tail(waiters)
        /\ to_wake' = [to_wake EXCEPT ![t] = Head(waiters)]
    <3>1. /\ Len(waiters') = Len(waiters) - 1 /\ Len(waiters) > 0 /\ Head(waiters) = waiters[1]
          /\ \A i \in 1..Len(waiters') : waiters'[i] = waiters[i + 1]
      BY <1>0, <2>3
    <3>a. /\ Len(waiters) \in Nat
          /\ \A i \in 1..Len(waiters) : waiters[i] \in Tasks /\ waiters[i] # t
      BY <1>0, <2>1
    <3>b. \A i \in 1..Len(waiters') : i + 1 \in 1..Len(waiters)
      BY <3>1, <3>a
    <3>2. WaitersAreSleepers'
      <4>1. (\A i \in 1..Len(waiters) : Sleeps(waiters[i]))'
        BY <1>0, <2>1, <3>1, <3>a, <3>b
      <4>2. ASSUME NEW i \in 1..Len(waiters'), NEW j \in 1..Len(waiters'), waiters'[i] = waiters'[j]
            PROVE i = j
        <5>1. i + 1 \in 1..Len(waiters) /\ j + 1 \in 1..Len(waiters)
          BY <3>b
        <5>2. waiters[i + 1] = waiters[j + 1]
          BY <3>1, <4>2
        <5>3. \A k, l \in 1..Len(waiters) : waiters[k] = waiters[l] => k = l
          BY <1>0, <2>1
        <5>4. i + 1 = j + 1
          BY <5>1, <5>2, <5>3
        <5> QED
          BY <5>4
      <4>3. Len(waiters') <= MaxWaiters
        BY <2>1, <3>1, <3>a
      <4>4. QED
        BY <4>1, <4>2, <4>3
    <3>3. WakersAreSound'
      BY <1>0, <2>1, <2>3, <3>1
    <3>4. QED
      BY <3>2, <3>3
  <2>4. QED
    BY <1>5, <2>2, <2>3 DEF Unlock
<1>6. ASSUME NEW t \in Tasks, Wake(t)
      PROVE  WaitersInv'
  BY <1>0, <1>6 DEF Wake, mutexVars, shellVars
<1>7. ASSUME NEW t \in Tasks, ReadCounter(t) \/ WriteCounter(t) \/ ReadDone(t) \/ WriteDone(t)
      PROVE  WaitersInv'
  BY <1>0, <1>7 DEF ReadCounter, WriteCounter, ReadDone, WriteDone, mutexVars, shellVars
<1>8. ASSUME NEW s \in Shells, StartTest(s)
      PROVE  WaitersInv'
  <2>1. ~clash /\ \A t \in Tasks : pc[t] \in {"none", "halt"}
    BY <1>8, Zenon DEF StartTest, Running
  <2>2. QED
    BY <1>0, <1>8, <2>1 DEF StartTest
<1>9. ASSUME NEW s \in Shells, CreateTasks(s)
      PROVE  WaitersInv'
  BY <1>0, <1>9 DEF CreateTasks, mutexVars
<1>10. ASSUME NEW s \in Shells, Report(s)
       PROVE  WaitersInv'
  BY <1>0, <1>10 DEF Report, mutexVars
<1>11. QED
  BY <1>1, <1>2, <1>3, <1>4, <1>5, <1>6, <1>7, <1>8, <1>9, <1>10 DEF Next, TaskStep, ShellStep

\* mutex_unlock only ever takes sleeping tasks out of m->waiters, and the array
\* holds no task twice, for any number of tasks and any capacity.
THEOREM WaitersOnlySleep == Spec => []WaitersAreSleepers
<1>1. Init => WaitersInv
  BY MutexAssumption DEF Init, WaitersInv, WaitersAreSleepers, WakersAreSound
<1>2. TypeOK /\ WaitersInv /\ [Next]_vars => WaitersInv'
  BY WaitersInvStep
<1>3. WaitersInv => WaitersAreSleepers
  BY DEF WaitersInv
<1>4. QED
  BY <1>1, <1>2, <1>3, MutexTypeCorrect, PTL DEF Spec

----------------------------------------------------------------------------
(* What mutextest counts                                                   *)

\* The loop of mutex_test_task.
LoopInv ==
    \A t \in Tasks :
        /\ pc[t] = "none" => iter[t] = 0
        /\ pc[t] \in {"lock", "block", "read", "write", "unlock", "wake"} => iter[t] < Iters
        /\ pc[t] \in {"finish", "finished", "halt"} => iter[t] = Iters

\* How often t has added to the counter.  The sum over the tasks of a test is
\* the size of a set of pairs.
Added(t) == IF pc[t] \in {"unlock", "wake"} THEN iter[t] + 1 ELSE iter[t]
Increments(C) == {p \in C \X (0..(Iters - 1)) : p[2] < Added(p[1])}
Halted(C) == {t \in C : pc[t] = "halt"}

\* C is the set of tasks of the test that is going on.  mutex_test_done_count is
\* incremented without a lock and may lose updates, so it is at most the number
\* of tasks that have finished, and so is every copy of it that is to be written.
TestOf(C) ==
    /\ Cardinality(C) = PerTest
    /\ \A t \in C : pc[t] # "none"
    /\ \A t \in Tasks \ C : pc[t] \in {"none", "halt"}
    /\ counter = Cardinality(Increments(C))
    /\ done_count <= Cardinality(Halted(C))
    /\ \A t \in C : pc[t] = "finished" => tmp[t] <= Cardinality(Halted(C))

\* As long as no test was started on top of another: one shell at a time is in
\* the command, and it finds the tasks and the globals in the state it needs.
OneCommand ==
    \A r, s \in Shells : shell[r] # "prompt" /\ shell[s] # "prompt" => r = s
CommandsAreSound ==
    /\ \A s \in Shells : shell[s] = "create" => counter = 0 /\ done_count = 0 /\ ~Running
    /\ \A s \in Shells : shell[s] = "wait" => \E C \in SUBSET Tasks : TestOf(C)
    /\ (\A s \in Shells : shell[s] = "prompt") => ~Running
TestInv == ~clash => OneCommand /\ CommandsAreSound /\ NeverReportsFail

LEMMA LoopInvStep ==
  ASSUME TypeOK, LoopInv, [Next]_vars
  PROVE  LoopInv'
<1> USE MutexAssumption DEF LoopInv
<1>0. pc \in [Tasks -> PCs] /\ iter \in [Tasks -> Nat]
  BY DEF TypeOK
<1>1. CASE UNCHANGED vars
  BY <1>0, <1>1 DEF vars
<1>2. ASSUME NEW t \in Tasks, Lock(t) \/ Block(t) \/ TryLock(t) \/ Unlock(t)
      PROVE  LoopInv'
  BY <1>0, <1>2 DEF Lock, Block, TryLock, Unlock, mutexVars, shellVars
<1>3. ASSUME NEW t \in Tasks, Wake(t)
      PROVE  LoopInv'
  BY <1>0, <1>3 DEF Wake, mutexVars, shellVars
<1>4. ASSUME NEW t \in Tasks, ReadCounter(t) \/ WriteCounter(t) \/ ReadDone(t) \/ WriteDone(t)
      PROVE  LoopInv'
  BY <1>0, <1>4 DEF ReadCounter, WriteCounter, ReadDone, WriteDone, mutexVars, shellVars
<1>5. ASSUME NEW s \in Shells, StartTest(s) \/ CreateTasks(s) \/ Report(s)
      PROVE  LoopInv'
  BY <1>0, <1>5 DEF StartTest, CreateTasks, Report, mutexVars
<1>6. QED
  BY <1>1, <1>2, <1>3, <1>4, <1>5 DEF Next, TaskStep, ShellStep

\* The pairs are finitely many.
LEMMA SetsAreFinite ==
  ASSUME NEW C \in SUBSET Tasks
  PROVE  /\ IsFiniteSet(C) /\ IsFiniteSet(Halted(C)) /\ IsFiniteSet(Increments(C))
         /\ IsFiniteSet(C \X (0..(Iters - 1)))
         /\ Cardinality(C \X (0..(Iters - 1))) = Cardinality(C) * Iters
         /\ Cardinality(Halted(C)) \in Nat
<1>1. IsFiniteSet(C)
  BY MutexAssumption, FS_Subset
<1>2. IsFiniteSet(0..(Iters - 1)) /\ Cardinality(0..(Iters - 1)) = Iters
  BY MutexAssumption, FS_Interval
<1>3. /\ IsFiniteSet(C \X (0..(Iters - 1)))
      /\ Cardinality(C \X (0..(Iters - 1))) = Cardinality(C) * Iters
  BY <1>1, <1>2, FS_Product
<1>4. IsFiniteSet(Halted(C)) /\ IsFiniteSet(Increments(C))
  BY <1>1, <1>3, FS_Subset DEF Halted, Increments
<1>5. QED
  BY <1>1, <1>3, <1>4, FS_CardinalityType

\* When mutex_test_done_count says so, every task has finished, and the counter
\* is what mutextest expects.
LEMMA TestEndsWell ==
  ASSUME TypeOK, LoopInv, NEW C \in SUBSET Tasks, TestOf(C), done_count >= PerTest
  PROVE  counter = PerTest * Iters /\ ~Running
<1>1. Halted(C) \in SUBSET C
  BY DEF Halted
<1>2. Cardinality(Halted(C)) <= Cardinality(C)
      /\ (Cardinality(C) = Cardinality(Halted(C)) => C = Halted(C))
  BY <1>1, SetsAreFinite, FS_Subset
<1>a. Cardinality(Halted(C)) \in Nat
  BY SetsAreFinite
<1>b. Cardinality(C) = PerTest /\ done_count <= Cardinality(Halted(C)) /\ done_count \in Nat
  BY DEF TestOf, TypeOK
<1>3. Cardinality(C) = Cardinality(Halted(C))
  BY <1>2, <1>a, <1>b, MutexAssumption
<1>4. \A t \in C : pc[t] = "halt"
  BY <1>2, <1>3 DEF Halted
<1>5. \A t \in C : Added(t) = Iters
  BY <1>4 DEF LoopInv, Added
<1>6. Increments(C) = C \X (0..(Iters - 1))
  <2>1. \A p \in C \X (0..(Iters - 1)) : p[1] \in C /\ p[2] \in 0..(Iters - 1)
    OBVIOUS
  <2>2. \A p \in C \X (0..(Iters - 1)) : p[2] < Added(p[1])
    BY <1>5, <2>1, MutexAssumption
  <2>3. QED
    BY <2>2 DEF Increments
<1>7. counter = PerTest * Iters
  BY <1>6, SetsAreFinite DEF TestOf
<1>8. ~Running
  BY <1>4 DEF TestOf, Running
<1>9. QED
  BY <1>7, <1>8

\* The steps that leave the counters and the position in the loop alone.
LEMMA QuietStep ==
  ASSUME NEW C \in SUBSET Tasks, TestOf(C), NEW t \in Tasks, TypeOK,
         pc[t] \notin {"none", "halt"}, pc'[t] \notin {"none", "halt"}, Added(t)' = Added(t),
         \A u \in Tasks \ {t} : pc'[u] = pc[u] /\ iter'[u] = iter[u] /\ tmp'[u] = tmp[u],
         counter' = counter, done_count' = done_count,
         tmp'[t] \in Nat, pc'[t] = "finished" => tmp'[t] <= done_count
  PROVE  TestOf(C)'
<1>1. \A u \in C : Added(u)' = Added(u)
  BY DEF Added
<1>2. Increments(C)' = Increments(C)
  <2>1. \A p \in C \X (0..(Iters - 1)) : p[1] \in C
    OBVIOUS
  <2>2. \A p \in C \X (0..(Iters - 1)) : p[2] < Added(p[1])' <=> p[2] < Added(p[1])
    BY <1>1, <2>1
  <2>3. QED
    BY <2>2 DEF Increments
<1>3. Halted(C)' = Halted(C)
  BY DEF Halted
<1>4. Cardinality(Halted(C)) \in Nat /\ done_count \in Nat
  BY SetsAreFinite DEF TypeOK
<1>5. \A u \in C : pc'[u] = "finished" => tmp'[u] <= Cardinality(Halted(C))
  <2>1. CASE pc'[t] = "finished"
    BY <1>4, <2>1 DEF TestOf
  <2>2. CASE pc'[t] # "finished"
    BY <2>2 DEF TestOf
  <2>3. QED
    BY <2>1, <2>2
<1>6. QED
  BY <1>2, <1>3, <1>5 DEF TestOf

\* A step of a task keeps the books of the test.
LEMMA TaskKeepsBooks ==
  ASSUME NEW C \in SUBSET Tasks, TestOf(C), NEW t \in Tasks, TaskStep(t), TypeOK, TypeOK',
         LoopInv, MutexInv, ~clash
  PROVE  TestOf(C)'
<1>0. /\ pc \in [Tasks -> PCs] /\ iter \in [Tasks -> Nat] /\ tmp \in [Tasks -> Nat]
      /\ counter \in Nat /\ done_count \in Nat /\ tmp'[t] \in Nat
  BY DEF TypeOK
<1>1. CASE Lock(t) \/ Block(t) \/ TryLock(t) \/ Unlock(t)
  <2>1. /\ pc[t] \notin {"none", "halt", "finished", "wake"}
        /\ \E l \in {"read", "block", "lock", "wake"} :
              pc' = [pc EXCEPT ![t] = l] /\ (l = "wake" <=> pc[t] = "unlock")
        /\ UNCHANGED <<iter, tmp, counter, done_count>>
    BY <1>1 DEF Lock, Block, TryLock, Unlock, mutexVars, shellVars
  <2>2. Added(t)' = Added(t)
    BY <1>0, <2>1 DEF Added
  <2>3. /\ pc'[t] \notin {"none", "halt", "finished"}
        /\ \A u \in Tasks \ {t} : pc'[u] = pc[u]
    BY <1>0, <2>1
  <2>4. QED
    BY <1>0, <2>1, <2>2, <2>3, QuietStep
<1>2. CASE Wake(t)
  <2>1. /\ pc[t] = "wake" /\ pc'[t] \in {"lock", "finish"} /\ iter'[t] = iter[t] + 1
        /\ \A u \in Tasks \ {t} : pc'[u] = pc[u] /\ iter'[u] = iter[u]
        /\ UNCHANGED <<tmp, counter, done_count>>
    BY <1>0, <1>2 DEF Wake, mutexVars, shellVars
  <2>2. Added(t)' = Added(t)
    BY <2>1 DEF Added
  <2>3. QED
    BY <1>0, <2>1, <2>2, QuietStep
<1>3. CASE ReadCounter(t) \/ ReadDone(t)
  <2>1. /\ pc[t] \in {"read", "finish"}
        /\ pc'[t] = "write" \/ (pc'[t] = "finished" /\ tmp'[t] = done_count)
        /\ \A u \in Tasks \ {t} : pc'[u] = pc[u] /\ tmp'[u] = tmp[u]
        /\ UNCHANGED <<iter, counter, done_count>>
    BY <1>0, <1>3 DEF ReadCounter, ReadDone, mutexVars, shellVars
  <2>2. Added(t)' = Added(t)
    BY <2>1 DEF Added
  <2>3. pc'[t] = "finished" => tmp'[t] <= done_count
    BY <1>0, <2>1
  <2>4. QED
    BY <1>0, <2>1, <2>2, <2>3, QuietStep
<1>4. CASE WriteCounter(t)
  <2>1. /\ pc[t] = "write" /\ pc'[t] = "unlock" /\ counter' = counter + 1
        /\ \A u \in Tasks \ {t} : pc'[u] = pc[u]
        /\ UNCHANGED <<iter, tmp, done_count>>
    BY <1>0, <1>4 DEF WriteCounter, mutexVars, shellVars, MutexInv, TmpIsFresh
  <2>2. t \in C /\ iter[t] \in 0..(Iters - 1)
    BY <1>0, <2>1, MutexAssumption DEF TestOf, LoopInv
  <2>3. Added(t) = iter[t] /\ Added(t)' = iter[t] + 1 /\ \A u \in Tasks \ {t} : Added(u)' = Added(u)
    BY <2>1 DEF Added
  <2>4. Increments(C)' = Increments(C) \cup {<<t, iter[t]>>}
    <3>1. \A u \in C, i \in 0..(Iters - 1) : i < Added(u)' <=> i < Added(u) \/ (u = t /\ i = iter[t])
      BY <1>0, <2>2, <2>3
    <3>2. <<t, iter[t]>> \in C \X (0..(Iters - 1))
      BY <2>2
    <3>3. \A p \in C \X (0..(Iters - 1)) :
             p[2] < Added(p[1])' <=> p[2] < Added(p[1]) \/ p = <<t, iter[t]>>
      BY <3>1
    <3>4. QED
      BY <3>2, <3>3 DEF Increments
  <2>5. <<t, iter[t]>> \notin Increments(C)
    BY <1>0, <2>3 DEF Increments
  <2>6. Cardinality(Increments(C)') = Cardinality(Increments(C)) + 1
    BY <2>4, <2>5, SetsAreFinite, FS_AddElement
  <2>7. Halted(C)' = Halted(C)
    BY <2>1 DEF Halted
  <2>8. QED
    BY <2>1, <2>6, <2>7 DEF TestOf
<1>5. CASE WriteDone(t)
  <2>1. /\ pc[t] = "finished" /\ pc'[t] = "halt" /\ done_count' = tmp[t] + 1
        /\ \A u \in Tasks \ {t} : pc'[u] = pc[u]
        /\ UNCHANGED <<iter, tmp, counter>>
    BY <1>0, <1>5 DEF WriteDone, mutexVars, shellVars
  <2>2. t \in C /\ tmp[t] <= Cardinality(Halted(C))
    BY <2>1 DEF TestOf
  <2>3. Increments(C)' = Increments(C)
    <3>1. \A u \in C : Added(u)' = Added(u)
      BY <2>1 DEF Added
    <3>2. \A p \in C \X (0..(Iters - 1)) : p[2] < Added(p[1])' <=> p[2] < Added(p[1])
      BY <3>1
    <3>3. QED
      BY <3>2 DEF Increments
  <2>4. Halted(C)' = Halted(C) \cup {t} /\ t \notin Halted(C)
    BY <2>1, <2>2 DEF Halted
  <2>5. Cardinality(Halted(C)') = Cardinality(Halted(C)) + 1 /\ Cardinality(Halted(C)) \in Nat
    BY <2>4, SetsAreFinite, FS_AddElement
  <2>6. done_count' <= Cardinality(Halted(C)')
    BY <1>0, <2>1, <2>2, <2>5
  <2>7. \A u \in C : pc'[u] = "finished" => tmp'[u] <= Cardinality(Halted(C)')
    BY <1>0, <2>1, <2>5 DEF TestOf
  <2>8. QED
    BY <2>1, <2>2, <2>3, <2>6, <2>7 DEF TestOf
<1>6. QED
  BY <1>1, <1>2, <1>3, <1>4, <1>5 DEF TaskStep

\* One step of any task or shell keeps what mutextest relies on.
LEMMA TestInvStep ==
  ASSUME TypeOK, TypeOK', LoopInv, MutexInv, TestInv, [Next]_vars
  PROVE  TestInv'
<1> SUFFICES ASSUME ~clash'
             PROVE  TestInv'
  BY DEF TestInv
<1>0. shell \in [Shells -> ShellPCs] /\ verdict \in [Shells -> {"none", "PASS", "FAIL"}]
  BY DEF TypeOK
<1>1. CASE UNCHANGED vars
  <2>1. \A C \in SUBSET Tasks : TestOf(C) => TestOf(C)'
    BY <1>1 DEF vars, TestOf, Increments, Halted, Added
  <2>2. ~clash /\ (Running' <=> Running)
    BY <1>1 DEF vars, Running
  <2>3. QED
    BY <1>1, <2>1, <2>2 DEF vars, TestInv, OneCommand, CommandsAreSound, NeverReportsFail
<1>2. ASSUME NEW t \in Tasks, TaskStep(t)
      PROVE  TestInv'
  <2>1. UNCHANGED <<shell, verdict, clash>> /\ Running
    BY <1>2 DEF TaskStep, Lock, Block, TryLock, Unlock, Wake, ReadCounter, WriteCounter, ReadDone,
                WriteDone, shellVars, Running
  <2>2. ~clash /\ OneCommand /\ CommandsAreSound /\ NeverReportsFail
    BY <2>1 DEF TestInv
  <2>3. PICK s \in Shells : shell[s] = "wait"
    BY <1>0, <2>1, <2>2 DEF CommandsAreSound, ShellPCs
  <2>4. PICK C \in SUBSET Tasks : TestOf(C)
    BY <2>2, <2>3 DEF CommandsAreSound
  <2>5. TestOf(C)'
    BY <1>2, <2>2, <2>4, TaskKeepsBooks
  <2>6. CommandsAreSound'
    <3>1. \A r \in Shells : shell'[r] # "create"
      BY <2>1, <2>2 DEF CommandsAreSound
    <3>2. shell'[s] = "wait"
      BY <2>1, <2>3
    <3>3. QED
      BY <2>5, <3>1, <3>2 DEF CommandsAreSound
  <2>7. QED
    BY <2>1, <2>2, <2>6 DEF TestInv, OneCommand, NeverReportsFail
<1>3. ASSUME NEW s \in Shells, StartTest(s)
      PROVE  TestInv'
  <2>1. ~clash /\ ~Running /\ \A r \in Shells : shell[r] = "prompt"
    BY <1>3, Zenon DEF StartTest
  <2>2. /\ counter' = 0 /\ done_count' = 0 /\ pc' = pc
        /\ shell' = [shell EXCEPT ![s] = "create"] /\ verdict' = [verdict EXCEPT ![s] = "none"]
    BY <1>3 DEF StartTest
  <2>3. ~Running'
    BY <2>1, <2>2 DEF Running
  <2>4. QED
    BY <1>0, <2>1, <2>2, <2>3 DEF TestInv, OneCommand, CommandsAreSound, NeverReportsFail
<1>4. ASSUME NEW s \in Shells, CreateTasks(s)
      PROVE  TestInv'
  <2>1. PICK T \in SUBSET {t \in Tasks : pc[t] = "none"} :
           /\ Cardinality(T) = PerTest
           /\ pc' = [t \in Tasks |-> IF t \in T THEN "lock" ELSE pc[t]]
    BY <1>4 DEF CreateTasks
  <2>2. /\ shell[s] = "create" /\ shell' = [shell EXCEPT ![s] = "wait"]
        /\ UNCHANGED <<iter, tmp, counter, done_count, verdict, clash>>
    BY <1>4 DEF CreateTasks
  <2>3. ~clash /\ OneCommand /\ NeverReportsFail /\ counter = 0 /\ done_count = 0 /\ ~Running
    BY <2>2 DEF TestInv, CommandsAreSound
  <2>4. /\ T \in SUBSET Tasks /\ \A t \in T : pc'[t] = "lock" /\ pc[t] = "none" /\ iter'[t] = 0
        /\ \A t \in Tasks \ T : pc'[t] \in {"none", "halt"}
    BY <2>1, <2>2, <2>3 DEF Running, LoopInv
  <2>5. Increments(T)' = {}
    <3>1. \A t \in T : Added(t)' = 0
      BY <2>4 DEF Added
    <3>2. \A p \in T \X (0..(Iters - 1)) : ~(p[2] < Added(p[1])')
      BY <3>1, MutexAssumption
    <3>3. QED
      BY <3>2 DEF Increments
  <2>6. Cardinality(Halted(T)') \in Nat
    <3>1. IsFiniteSet(T)
      BY <2>4, SetsAreFinite
    <3>2. Halted(T)' \in SUBSET T
      BY DEF Halted
    <3>3. QED
      BY <3>1, <3>2, FS_Subset, FS_CardinalityType
  <2>7. TestOf(T)'
    BY <2>1, <2>2, <2>3, <2>4, <2>5, <2>6, FS_EmptySet DEF TestOf
  <2>8. \A r \in Shells : r # s => shell'[r] = "prompt"
    BY <1>0, <2>2, <2>3 DEF OneCommand
  <2>9. shell'[s] = "wait"
    BY <1>0, <2>2
  <2>10. QED
    BY <2>2, <2>3, <2>4, <2>7, <2>8, <2>9 DEF TestInv, OneCommand, CommandsAreSound, NeverReportsFail
<1>5. ASSUME NEW s \in Shells, Report(s)
      PROVE  TestInv'
  <2>1. /\ shell[s] = "wait" /\ shell' = [shell EXCEPT ![s] = "prompt"] /\ done_count >= PerTest
        /\ verdict' = [verdict EXCEPT ![s] = IF counter = PerTest * Iters THEN "PASS" ELSE "FAIL"]
        /\ UNCHANGED <<pc, clash>>
    BY <1>5 DEF Report
  <2>2. ~clash /\ OneCommand /\ CommandsAreSound /\ NeverReportsFail
    BY <2>1 DEF TestInv
  <2>3. PICK C \in SUBSET Tasks : TestOf(C)
    BY <2>1, <2>2 DEF CommandsAreSound
  <2>4. counter = PerTest * Iters /\ ~Running
    BY <2>1, <2>3, TestEndsWell
  <2>5. ~Running' /\ \A r \in Shells : shell'[r] = "prompt"
    BY <1>0, <2>1, <2>2, <2>4 DEF OneCommand, Running
  <2>6. QED
    BY <1>0, <2>1, <2>2, <2>4, <2>5 DEF TestInv, OneCommand, CommandsAreSound, NeverReportsFail
<1>6. QED
  BY <1>1, <1>2, <1>3, <1>4, <1>5 DEF Next, ShellStep

LEMMA TestInvHolds == Spec => [](TypeOK /\ LoopInv /\ MutexInv /\ TestInv)
<1>1. Init => LoopInv /\ TestInv
  BY DEF Init, LoopInv, TestInv, OneCommand, CommandsAreSound, NeverReportsFail, Running
<1>2. TypeOK /\ LoopInv /\ [Next]_vars => LoopInv'
  BY LoopInvStep
<1>3. TypeOK /\ TypeOK' /\ LoopInv /\ MutexInv /\ TestInv /\ [Next]_vars => TestInv'
  BY TestInvStep
<1>4. QED
  BY <1>1, <1>2, <1>3, MutexTypeCorrect, MutexInvHolds, PTL DEF Spec

\* mutextest never prints FAIL for a test that had its globals to itself, however
\* many tasks and iterations it has, and although mutex_test_done_count is
\* incremented without a lock.
THEOREM MutexTestPasses == Spec => []NeverReportsFail
<1>1. TestInv => NeverReportsFail
  BY DEF TestInv, NeverReportsFail
<1>2. QED
  BY <1>1, TestInvHolds, PTL

----------------------------------------------------------------------------
(* The abstract lock                                                       *)

\* With one shell no test is ever started on top of another: the command only
\* returns when all its tasks have finished.
THEOREM OneShellNeverClashes ==
  ASSUME \A r, s \in Shells : r = s
  PROVE  Spec => []~clash
<1>1. Init => ~clash
  BY Zenon DEF Init
<1>2. ASSUME TestInv, ~clash, [Next]_vars
      PROVE  ~clash'
  <2>1. CASE \E s \in Shells : StartTest(s)
    <3>1. PICK s \in Shells : StartTest(s)
      BY <2>1
    <3>2. \A r \in Shells : shell[r] = "prompt"
      BY <3>1 DEF StartTest
    <3>3. ~Running
      BY <1>2, <3>2 DEF TestInv, CommandsAreSound
    <3>4. QED
      BY <1>2, <3>1, <3>2, <3>3, Zenon DEF StartTest
  <2>2. CASE ~\E s \in Shells : StartTest(s)
    BY <1>2, <2>2 DEF Next, TaskStep, ShellStep, Lock, Block, TryLock, Unlock, Wake, ReadCounter,
       WriteCounter, ReadDone, WriteDone, CreateTasks, Report, vars, shellVars
  <2>3. QED
    BY <2>1, <2>2
<1>3. QED
  BY <1>1, <1>2, TestInvHolds, PTL DEF Spec

\* The abstract owner is the one task that holds the mutex.
OwnerIsHolder ==
    /\ \A t \in Tasks : Holds(t) <=> owner = t
    /\ (\A t \in Tasks : ~Holds(t)) <=> owner = NoTask
    /\ locked # 1 => owner = NoTask

LEMMA OwnerIsDefined == MutualExclusion /\ ~clash => OwnerIsHolder
<1> SUFFICES ASSUME MutualExclusion, ~clash
             PROVE  OwnerIsHolder
  OBVIOUS
<1> USE DEF OwnerIsHolder
<1>1. CASE \E t \in Tasks : Holds(t)
  <2>1. PICK t \in Tasks : Holds(t)
    BY <1>1
  <2>2. owner \in Tasks /\ Holds(owner)
    BY <2>1, Zenon DEF owner
  <2>3. QED
    BY <2>1, <2>2, MutexAssumption DEF MutualExclusion
<1>2. CASE ~\E t \in Tasks : Holds(t)
  BY <1>2, MutexAssumption DEF owner
<1>3. QED
  BY <1>1, <1>2 DEF MutualExclusion

\* The refinement, step by step.
LEMMA StepRefines ==
  ASSUME TypeOK, MutexInv, MutexInv', OwnerIsHolder, OwnerIsHolder', ~clash, ~clash', [Next]_vars
  PROVE  [CL!CLNext]_(CL!clVars)
<1> USE DEF CL!CLNext, CL!clVars, CL!Acquire, CL!Increment, CL!Release, CL!Restart
<1>0. /\ pc \in [Tasks -> PCs] /\ locked \in {0, 1}
      /\ MutualExclusion /\ MutualExclusion'
  BY DEF TypeOK, MutexInv
<1>a. /\ \A t \in Tasks : Holds(t) <=> owner = t
      /\ (\A t \in Tasks : ~Holds(t)) <=> owner = NoTask
      /\ locked # 1 => owner = NoTask
  BY DEF OwnerIsHolder
<1>b. /\ \A t \in Tasks : Holds(t)' <=> owner' = t
      /\ (\A t \in Tasks : ~Holds(t)') <=> owner' = NoTask
  BY DEF OwnerIsHolder
<1>1. CASE counter' = counter /\ \A t \in Tasks : Holds(t)' <=> Holds(t)
  <2>1. owner' = owner
    <3>1. CASE \A t \in Tasks : ~Holds(t)
      BY <1>a, <1>b, <1>1, <3>1
    <3>2. CASE \E t \in Tasks : Holds(t)
      BY <1>a, <1>b, <1>1, <3>2
    <3>3. QED
      BY <3>1, <3>2
  <2>2. QED
    BY <1>1, <2>1
<1>2. ASSUME NEW t \in Tasks, locked = 0, pc'[t] = "read", counter' = counter
      PROVE  CL!CLNext
  <2>1. owner = NoTask /\ owner' = t
    BY <1>a, <1>b, <1>2 DEF Holds
  <2>2. QED
    BY <1>2, <2>1
<1>3. ASSUME NEW t \in Tasks, Lock(t) \/ TryLock(t)
      PROVE  [CL!CLNext]_(CL!clVars)
  <2>1. CASE locked = 0 /\ pc' = [pc EXCEPT ![t] = "read"] /\ counter' = counter
    BY <1>0, <1>2, <2>1
  <2>2. CASE pc[t] = "lock" /\ pc' = [pc EXCEPT ![t] = "block"] /\ counter' = counter
    BY <1>0, <1>1, <2>2 DEF Holds
  <2>3. QED
    BY <1>3, <2>1, <2>2 DEF Lock, TryLock
<1>4. ASSUME NEW t \in Tasks, Unlock(t)
      PROVE  CL!CLNext
  <2>1. /\ Holds(t) /\ counter' = counter
        /\ \A u \in Tasks : ~Holds(u)'
    BY <1>0, <1>4 DEF Unlock, Holds, MutualExclusion
  <2>2. owner = t /\ owner' = NoTask
    BY <1>a, <1>b, <2>1
  <2>3. QED
    BY <2>1, <2>2
<1>5. ASSUME NEW t \in Tasks, WriteCounter(t)
      PROVE  CL!CLNext
  <2>1. counter' = counter + 1 /\ Holds(t) /\ Holds(t)'
    BY <1>0, <1>5 DEF WriteCounter, Holds, MutexInv, TmpIsFresh
  <2>2. owner = t /\ owner' = t
    BY <1>a, <1>b, <2>1
  <2>3. QED
    BY <2>1, <2>2
<1>6. ASSUME NEW t \in Tasks, Block(t) \/ Wake(t) \/ ReadCounter(t) \/ ReadDone(t) \/ WriteDone(t)
      PROVE  [CL!CLNext]_(CL!clVars)
  BY <1>0, <1>1, <1>6 DEF Block, Wake, ReadCounter, ReadDone, WriteDone, Holds
<1>7. ASSUME NEW s \in Shells, StartTest(s)
      PROVE  CL!CLNext
  <2>1. counter' = 0 /\ pc' = pc /\ ~Running
    BY <1>7, Zenon DEF StartTest
  <2>2. \A t \in Tasks : ~Holds(t) /\ ~Holds(t)'
    BY <2>1 DEF Running, Holds
  <2>3. owner = NoTask /\ owner' = NoTask
    BY <1>a, <1>b, <2>2
  <2>4. QED
    BY <2>1, <2>3
<1>8. ASSUME NEW s \in Shells, CreateTasks(s) \/ Report(s)
      PROVE  [CL!CLNext]_(CL!clVars)
  BY <1>0, <1>1, <1>8 DEF CreateTasks, Report, Holds
<1>9. CASE UNCHANGED vars
  BY <1>1, <1>9 DEF vars, Holds
<1>10. QED
  BY <1>3, <1>4, <1>5, <1>6, <1>7, <1>8, <1>9 DEF Next, TaskStep, ShellStep

\* mutex.c under mutextest, with one shell, implements the abstract counting lock
\* for any number of tasks: waiting, waking and the bookkeeping of the command
\* are invisible, and everything else is a step of the lock.
THEOREM MutexImplementsCountingLock ==
  ASSUME \A r, s \in Shells : r = s
  PROVE  Spec => ImplementsCountingLock
<1>1. Init => CL!CLInit
  BY DEF Init, CL!CLInit, owner, Holds
<1>2. TypeOK /\ MutexInv /\ MutexInv' /\ OwnerIsHolder /\ OwnerIsHolder' /\ ~clash /\ ~clash'
      /\ [Next]_vars
         => [CL!CLNext]_(CL!clVars)
  BY StepRefines
<1>3. Spec => []~clash
  BY OneShellNeverClashes
<1>4. MutexInv /\ ~clash => OwnerIsHolder
  BY OwnerIsDefined DEF MutexInv
<1>5. QED
  BY <1>1, <1>2, <1>3, <1>4, TestInvHolds, PTL DEF Spec, ImplementsCountingLock, CL!CLSpec

----------------------------------------------------------------------------
(* Snake: the rules of the game                                            *)

Cells == Int \X Int

LEMMA CellParts ==
    ASSUME NEW p \in Cells
    PROVE p[1] \in Int /\ p[2] \in Int /\ p = <<p[1], p[2]>>
  BY DEF Cells

LEMMA Bounds ==
    /\ MaxLen \in Nat /\ 3 <= MaxLen /\ Top \in Nat /\ Bottom \in Nat /\ Left \in Nat /\ Right \in Nat
    /\ Top <= Bottom /\ Left + 4 <= Right
  BY SnakeAssumption

LEMMA FieldCells == Field \subseteq Cells
  BY SnakeAssumption DEF Field, Cells

LEMMA OppositeFacts ==
    ASSUME NEW d \in Dirs
    PROVE Opposite(d) \in Dirs /\ Opposite(Opposite(d)) = d /\ Opposite(d) # d
  BY DEF Dirs, Opposite

\* The way back is the opposite way, and no other.
LEMMA WayBack ==
    ASSUME NEW p \in Cells, NEW d \in Dirs, NEW e \in Dirs
    PROVE /\ Neighbour(p, d) \in Cells /\ Neighbour(p, d) # p
          /\ Neighbour(Neighbour(p, d), e) = p <=> e = Opposite(d)
  <1>1. PICK r \in Int, c \in Int : p = <<r, c>>
    BY DEF Cells
  <1>2. Neighbour(p, d) = CASE d = "up" -> <<r - 1, c>> [] d = "down" -> <<r + 1, c>>
                            [] d = "left" -> <<r, c - 1>> [] d = "right" -> <<r, c + 1>>
    BY <1>1 DEF Neighbour
  <1>3. CASE d = "up"
    <2>1. Neighbour(p, d) = <<r - 1, c>>
      BY <1>2, <1>3
    <2>2. Neighbour(<<r - 1, c>>, "up") = <<r - 2, c>> /\ Neighbour(<<r - 1, c>>, "down") = <<r, c>>
          /\ Neighbour(<<r - 1, c>>, "left") = <<r - 1, c - 1>>
               /\ Neighbour(<<r - 1, c>>, "right") = <<r - 1, c + 1>>
      BY DEF Neighbour
    <2> QED
      BY <1>1, <1>3, <2>1, <2>2 DEF Dirs, Opposite, Cells
  <1>4. CASE d = "down"
    <2>1. Neighbour(p, d) = <<r + 1, c>>
      BY <1>2, <1>4
    <2>2. Neighbour(<<r + 1, c>>, "up") = <<r, c>> /\ Neighbour(<<r + 1, c>>, "down") = <<r + 2, c>>
          /\ Neighbour(<<r + 1, c>>, "left") = <<r + 1, c - 1>>
               /\ Neighbour(<<r + 1, c>>, "right") = <<r + 1, c + 1>>
      BY DEF Neighbour
    <2> QED
      BY <1>1, <1>4, <2>1, <2>2 DEF Dirs, Opposite, Cells
  <1>5. CASE d = "left"
    <2>1. Neighbour(p, d) = <<r, c - 1>>
      BY <1>2, <1>5
    <2>2. Neighbour(<<r, c - 1>>, "up") = <<r - 1, c - 1>>
          /\ Neighbour(<<r, c - 1>>, "down") = <<r + 1, c - 1>>
          /\ Neighbour(<<r, c - 1>>, "left") = <<r, c - 2>>
               /\ Neighbour(<<r, c - 1>>, "right") = <<r, c>>
      BY DEF Neighbour
    <2> QED
      BY <1>1, <1>5, <2>1, <2>2 DEF Dirs, Opposite, Cells
  <1>6. CASE d = "right"
    <2>1. Neighbour(p, d) = <<r, c + 1>>
      BY <1>2, <1>6
    <2>2. Neighbour(<<r, c + 1>>, "up") = <<r - 1, c + 1>>
          /\ Neighbour(<<r, c + 1>>, "down") = <<r + 1, c + 1>>
          /\ Neighbour(<<r, c + 1>>, "left") = <<r, c>>
               /\ Neighbour(<<r, c + 1>>, "right") = <<r, c + 2>>
      BY DEF Neighbour
    <2> QED
      BY <1>1, <1>6, <2>1, <2>2 DEF Dirs, Opposite, Cells
  <1> QED
    BY <1>3, <1>4, <1>5, <1>6 DEF Dirs

Games == [body : Seq(Field), direction : Dirs, requested : Dirs, food : Field, quit : BOOLEAN]

\* The neck lies behind the head, and the key that counts does not point there.
HeadsOn(g) ==
    g.body[1] = Neighbour(g.body[2], g.direction) /\ g.requested # Opposite(g.direction)

Path(body) ==
    /\ \A i \in 1..(Len(body) - 1) : Adjacent(body[i], body[i + 1])
    /\ \A i, j \in 1..Len(body) : body[i] = body[j] => i = j

GameSound(g) ==
    /\ g \in Games /\ Len(g.body) \in 3..MaxLen /\ Path(g.body) /\ HeadsOn(g)
    /\ g.food \in Range(g.body) => Len(g.body) = MaxLen

\* Where the cells of a snake are after it has moved.
LEMMA Extended ==
    ASSUME NEW S, NEW h \in S, NEW b \in Seq(S)
    PROVE LET c == <<h>> \o b IN
          /\ c \in Seq(S) /\ Len(c) = Len(b) + 1 /\ c[1] = h /\ \A i \in 1..Len(b) : c[i + 1] = b[i]
          /\ SubSeq(c, 1, Len(b)) \in Seq(S) /\ Len(SubSeq(c, 1, Len(b))) = Len(b)
          /\ \A i \in 1..Len(b) : SubSeq(c, 1, Len(b))[i] = c[i]
  <1> DEFINE c == <<h>> \o b
  <1>1. c \in Seq(S) /\ Len(c) = Len(b) + 1 /\ c[1] = h /\ \A i \in 1..Len(b) : c[i + 1] = b[i]
    OBVIOUS
  <1> HIDE DEF c
  <1>2. SubSeq(c, 1, Len(b)) \in Seq(S) /\ Len(SubSeq(c, 1, Len(b))) = Len(b)
        /\ \A i \in 1..Len(b) : SubSeq(c, 1, Len(b))[i] = c[i]
    BY <1>1
  <1> QED
    BY <1>1, <1>2 DEF c

LEMMA RangeIs ==
    ASSUME NEW S, NEW b \in Seq(S)
    PROVE Range(b) = {b[i] : i \in 1..Len(b)} /\ Range(b) \subseteq S
  BY DEF Range

\* A snake that goes on to a free cell is still a path.
LEMMA PathGrows ==
    ASSUME NEW b \in Seq(Field), Len(b) >= 3, Path(b), NEW d \in Dirs, Neighbour(b[1], d) \in Field,
           Neighbour(b[1], d) \notin Range(b), NEW c \in Seq(Field), Len(c) \in {Len(b), Len(b) + 1},
           c[1] = Neighbour(b[1], d), \A i \in 2..Len(c) : c[i] = b[i - 1]
    PROVE Path(c)
  <1>1. Adjacent(c[1], c[2])
    <2>1. c[2] = b[1] /\ b[1] \in Cells
      BY FieldCells
    <2>2. Neighbour(c[1], Opposite(d)) = c[2] /\ Opposite(d) \in Dirs
      BY <2>1, WayBack, OppositeFacts
    <2> QED
      BY <2>2 DEF Adjacent
  <1>2. ASSUME NEW i \in 1..(Len(c) - 1) PROVE Adjacent(c[i], c[i + 1])
    <2>1. CASE i > 1
      <3>1. i \in 2..Len(c) /\ i + 1 \in 2..Len(c) /\ i - 1 \in 1..(Len(b) - 1)
            /\ (i + 1) - 1 = (i - 1) + 1
        BY <2>1
      <3>2. c[i] = b[i - 1]
        BY <3>1
      <3>3. c[i + 1] = b[(i + 1) - 1]
        BY <3>1
      <3>4. c[i + 1] = b[(i - 1) + 1]
        BY <3>1, <3>3, Zenon
      <3> QED
        BY <3>1, <3>2, <3>4 DEF Path
    <2> QED
      BY <1>1, <2>1
  <1>3. \A i \in 2..Len(c) : c[i] \in Range(b) /\ i - 1 \in 1..Len(b)
    BY RangeIs
  <1>4. ASSUME NEW i \in 1..Len(c), NEW j \in 1..Len(c), c[i] = c[j] PROVE i = j
    <2>1. CASE i = 1 \/ j = 1
      BY <1>3, <1>4, <2>1
    <2>2. CASE i \in 2..Len(c) /\ j \in 2..Len(c)
      <3>1. b[i - 1] = b[j - 1] /\ i - 1 \in 1..Len(b) /\ j - 1 \in 1..Len(b)
        BY <1>3, <1>4, <2>2
      <3>2. i - 1 = j - 1
        BY <3>1 DEF Path
      <3> QED
        BY <3>2
    <2> QED
      BY <2>1, <2>2
  <1> QED
    BY <1>2, <1>4 DEF Path
LEMMA FoodChanges ==
    ASSUME NEW b, NEW d, NEW e, NEW q, NEW old, NEW new
    PROVE [[body |-> b, direction |-> d, requested |-> e, food |-> old, quit |-> q] EXCEPT !.food = new]
          = [body |-> b, direction |-> d, requested |-> e, food |-> new, quit |-> q]
  OBVIOUS

LEMMA BodyChanges ==
    ASSUME NEW old, NEW d, NEW e, NEW q, NEW f, NEW new
    PROVE [[body |-> old, direction |-> d, requested |-> e, food |-> f, quit |-> q] EXCEPT !.body = new]
          = [body |-> new, direction |-> d, requested |-> e, food |-> f, quit |-> q]
  OBVIOUS

LEMMA NewGameSound ==
    ASSUME NEW food \in FreeCells(NewGame.body)
    PROVE GameSound([NewGame EXCEPT !.food = food])
  <1> DEFINE row == (Top + Bottom) \div 2
             col == (Left + Right) \div 2
             b == <<<<row, col>>, <<row, col - 1>>, <<row, col - 2>>>>
             g == [NewGame EXCEPT !.food = food]
  <1>1. g = [body |-> b, direction |-> "right", requested |-> "right", food |-> food, quit |-> FALSE]
    <2>1. NewGame = [NoGame EXCEPT !.body = b]
      BY DEF NewGame
    <2> HIDE DEF b
    <2> PICK z : z = <<0, 0>>
      OBVIOUS
    <2>2. NoGame = [body |-> <<>>, direction |-> "right", requested |-> "right", food |-> z, quit |-> FALSE]
      BY DEF NoGame
    <2> HIDE DEF g
    <2>3. NewGame = [body |-> b, direction |-> "right", requested |-> "right", food |-> z, quit |-> FALSE]
      BY <2>1, <2>2, BodyChanges
    <2>4. g = [NewGame EXCEPT !.food = food]
      BY DEF g
    <2> QED
      BY <2>3, <2>4, FoodChanges
  <1>2. row \in Top..Bottom /\ col \in Left..Right /\ col - 1 \in Left..Right
        /\ col - 2 \in Left..Right
    BY SnakeAssumption
  <1> HIDE DEF row, col, g
  <1>3. b[1] = <<row, col>> /\ b[2] = <<row, col - 1>> /\ b[3] = <<row, col - 2>> /\ Len(b) = 3
    OBVIOUS
  <1>4. b \in Seq(Field)
    <2>1. <<row, col>> \in Field /\ <<row, col - 1>> \in Field /\ <<row, col - 2>> \in Field
      BY <1>2 DEF Field
    <2> QED
      BY <2>1
  <1>5. row \in Int /\ col \in Int
    BY <1>2, SnakeAssumption
  <1>6. food \in Field /\ food \notin Range(b)
    BY DEF FreeCells, NewGame, NoGame, row, col
  <1> HIDE DEF b
  <1>7. b[2] = Neighbour(b[1], "left") /\ b[3] = Neighbour(b[2], "left")
        /\ b[1] = Neighbour(b[2], "right")
    BY <1>3, <1>5 DEF Neighbour
  <1>8. Path(b)
    <2>1. Adjacent(b[1], b[2]) /\ Adjacent(b[2], b[3])
      BY <1>7 DEF Adjacent, Dirs
    <2>2. b[1] # b[2] /\ b[2] # b[3] /\ b[1] # b[3]
      BY <1>3, <1>5
    <2>3. \A i \in 1..2 : Adjacent(b[i], b[i + 1])
      <3> TAKE i \in 1..2
      <3>1. i = 1 \/ i = 2
        OBVIOUS
      <3> QED
        BY <2>1, <3>1
    <2>4. \A i, j \in 1..3 : b[i] = b[j] => i = j
      <3> TAKE i, j \in 1..3
      <3>1. (i = 1 \/ i = 2 \/ i = 3) /\ (j = 1 \/ j = 2 \/ j = 3)
        OBVIOUS
      <3> QED
        BY <2>2, <3>1
    <2> QED
      BY <1>3, <2>3, <2>4 DEF Path
  <1>9. HeadsOn(g)
    BY <1>1, <1>7 DEF HeadsOn, Opposite
  <1>10. g \in Games
    BY <1>1, <1>4, <1>6 DEF Games, Dirs
  <1>12. g.body = b /\ g.food = food
    BY <1>1
  <1>11. GameSound(g)
    BY <1>12, <1>3, <1>6, <1>8, <1>9, <1>10, Bounds DEF GameSound
  <1> QED
    BY <1>11 DEF g

LEMMA TurnSound ==
    ASSUME NEW g, GameSound(g), NEW d \in Dirs
    PROVE GameSound(Turned(g, d))
  <1>1. CASE d = Opposite(g.direction)
    BY <1>1 DEF Turned
  <1>2. CASE d # Opposite(g.direction)
    <2>1. Turned(g, d) = [g EXCEPT !.requested = d]
      BY <1>2 DEF Turned
    <2> QED
      BY <1>2, <2>1 DEF GameSound, Games, HeadsOn
  <1> QED
    BY <1>1, <1>2

LEMMA QuitSound ==
    ASSUME NEW g, GameSound(g)
    PROVE GameSound([g EXCEPT !.quit = TRUE])
  BY DEF GameSound, Games, HeadsOn

\* What a step makes of the snake.
LEMMA StepFacts ==
    ASSUME NEW g, GameSound(g), ~ Dies(g), NEW food
    PROVE LET b == g.body
              c == Stepped(g, food).body
              h == new_head(g) IN
          /\ h \in Field /\ h \notin Range(b)
          /\ Stepped(g, food) = [body |-> c, direction |-> g.requested, requested |-> g.requested,
                                food |-> IF Eats(g) THEN food ELSE g.food, quit |-> g.quit]
          /\ c \in Seq(Field) /\ Len(c) = (IF Eats(g) THEN Len(b) + 1 ELSE Len(b))
          /\ c[1] = h /\ \A i \in 2..Len(c) : c[i] = b[i - 1]
          /\ Eats(g) => c = <<h>> \o b
  <1> DEFINE b == g.body
             h == new_head(g)
             e == <<h>> \o b
             c == IF Eats(g) THEN e ELSE SubSeq(e, 1, Len(b))
             n == [body |-> c, direction |-> g.requested, requested |-> g.requested,
                   food |-> IF Eats(g) THEN food ELSE g.food, quit |-> g.quit]
  <1>1. h \in Field /\ h \notin Range(b)
    BY DEF Dies
  <1>2. b \in Seq(Field) /\ Len(b) \in Nat
    BY DEF GameSound, Games
  <1>3. Stepped(g, food) = n
    <2>1. Stepped(g, food) = [g EXCEPT !.direction = g.requested, !.body = c,
                                       !.food = IF Eats(g) THEN food ELSE g.food]
      BY DEF Stepped
    <2> HIDE DEF c
    <2> QED
      BY <2>1 DEF GameSound, Games
  <1>4. /\ e \in Seq(Field) /\ Len(e) = Len(b) + 1 /\ e[1] = h /\ \A i \in 1..Len(b) : e[i + 1] = b[i]
        /\ SubSeq(e, 1, Len(b)) \in Seq(Field) /\ Len(SubSeq(e, 1, Len(b))) = Len(b)
        /\ \A i \in 1..Len(b) : SubSeq(e, 1, Len(b))[i] = e[i]
    BY <1>1, <1>2, Extended
  <1>5. Len(b) >= 3
    BY DEF GameSound
  <1> HIDE DEF h, e, b
  <1>6. c \in Seq(Field) /\ Len(c) = (IF Eats(g) THEN Len(b) + 1 ELSE Len(b)) /\ c[1] = h
        /\ \A i \in 2..Len(c) : c[i] = e[i]
    BY <1>2, <1>4, <1>5
  <1>7. ASSUME NEW i \in 2..Len(c) PROVE c[i] = b[i - 1]
    <2>1. i - 1 \in 1..Len(b) /\ (i - 1) + 1 = i
      BY <1>2, <1>6
    <2> QED
      BY <1>4, <1>6, <2>1
  <1>8. n.body = c
    OBVIOUS
  <1>9. Eats(g) => c = e
    OBVIOUS
  <1> HIDE DEF c, n
  <1>10. Stepped(g, food).body = c
    BY <1>3, <1>8
  <1>11. n = [body |-> c, direction |-> g.requested, requested |-> g.requested,
              food |-> IF Eats(g) THEN food ELSE g.food, quit |-> g.quit]
    BY DEF n
  <1> QED
    BY <1>1, <1>3, <1>6, <1>7, <1>9, <1>10, <1>11 DEF h, e, b

LEMMA StepSound ==
    ASSUME NEW g, GameSound(g), ~ Dies(g),
           NEW food \in IF Eats(g) THEN FreeCells(<<new_head(g)>> \o g.body) ELSE {g.food}
    PROVE GameSound(Stepped(g, food))
  <1> DEFINE b == g.body
             n == Stepped(g, food)
             c == n.body
             h == new_head(g)
  <1>1. /\ h \in Field /\ h \notin Range(b)
        /\ n = [body |-> c, direction |-> g.requested, requested |-> g.requested,
                food |-> IF Eats(g) THEN food ELSE g.food, quit |-> g.quit]
        /\ c \in Seq(Field) /\ Len(c) = (IF Eats(g) THEN Len(b) + 1 ELSE Len(b))
        /\ c[1] = h /\ \A i \in 2..Len(c) : c[i] = b[i - 1]
        /\ Eats(g) => c = <<h>> \o b
    BY StepFacts
  <1>2. /\ b \in Seq(Field) /\ Len(b) \in 3..MaxLen /\ Path(b) /\ g.requested \in Dirs
           /\ g.quit \in BOOLEAN
        /\ g.food \in Field /\ (g.food \in Range(b) => Len(b) = MaxLen)
    BY DEF GameSound, Games
  <1>3. h = Neighbour(b[1], g.requested)
    BY DEF new_head
  <1>9. Eats(g) <=> h = g.food /\ Len(b) < MaxLen
    BY DEF Eats
  <1> HIDE DEF h, c, n, b
  <1>4. n.food \in Field /\ (n.food \in Range(c) => Len(c) = MaxLen)
    <2>1. CASE Eats(g)
      <3>1. food \in FreeCells(c)
        BY <1>1, <2>1 DEF h, b
      <3> QED
        BY <1>1, <2>1, <3>1 DEF FreeCells
    <2>2. CASE ~ Eats(g)
      <3>1. n.food = g.food /\ Len(c) = Len(b)
        BY <1>1, <2>2
      <3>2. ASSUME g.food \in Range(c), Len(c) # MaxLen PROVE FALSE
        <4>1. PICK i \in 1..Len(c) : c[i] = g.food
          BY <1>1, <3>2, RangeIs
        <4>2. CASE i = 1
          BY <1>1, <1>2, <1>9, <2>2, <3>1, <3>2, <4>1, <4>2, Bounds
        <4>3. CASE i > 1
          <5>1. i - 1 \in 1..Len(b) /\ c[i] = b[i - 1]
            BY <1>1, <1>2, <3>1, <4>3
          <5>2. g.food \in Range(b)
            BY <1>2, <4>1, <5>1, RangeIs
          <5> QED
            BY <1>2, <3>1, <3>2, <5>2
        <4> QED
          BY <4>2, <4>3
      <3> QED
        BY <1>2, <3>1, <3>2
    <2> QED
      BY <2>1, <2>2
  <1>5. Len(c) \in 3..MaxLen /\ Len(c) \in {Len(b), Len(b) + 1}
    BY <1>1, <1>2, <1>9, Bounds
  <1>6. Path(c)
    <2>1. Len(b) >= 3 /\ Neighbour(b[1], g.requested) \in Field
          /\ Neighbour(b[1], g.requested) \notin Range(b)
      BY <1>1, <1>2, <1>3
    <2>2. c[1] = Neighbour(b[1], g.requested) /\ \A i \in 2..Len(c) : c[i] = b[i - 1]
      BY <1>1, <1>3
    <2> QED
      BY <1>1, <1>2, <1>5, <2>1, <2>2, PathGrows
  <1>7. HeadsOn(n)
    <2>1. c[1] = Neighbour(c[2], n.direction)
      <3>1. c[1] = h /\ c[2] = b[1] /\ n.direction = g.requested
        BY <1>1, <1>2, <1>5
      <3> QED
        BY <1>3, <3>1
    <2>2. n.requested # Opposite(n.direction)
      BY <1>1, <1>2, OppositeFacts
    <2> QED
      BY <2>1, <2>2 DEF HeadsOn, c
  <1>8. n \in Games
    BY <1>1, <1>2, <1>4 DEF Games
  <1> QED
    BY <1>4, <1>5, <1>6, <1>7, <1>8 DEF GameSound, c, n

\* A game is going on from the command to the key that ends it.
Playing == mode \in {"play", "over"} \/ (mode = "print" /\ then = "play")

\* A game obeys the rules (GameSound) from the command to the key that ends it.
GameInv ==
    /\ then \in {"read", "dispatch", "play"}
    /\ IF Playing THEN GameSound(game) ELSE game = NoGame

LEMMA SoundGameIsOn == ASSUME NEW g, GameSound(g) PROVE g # NoGame
  BY DEF GameSound, NoGame

LEMMA InvKnowsSnake == GameInv => SnakeIsSound
  <1> SUFFICES ASSUME GameInv PROVE SnakeIsSound
    OBVIOUS
  <1>1. NeverTurnsBack
    <2> SUFFICES ASSUME mode = "play" PROVE new_head(game) # game.body[2]
      BY DEF NeverTurnsBack
    <2>1. GameSound(game)
      BY DEF GameInv, Playing
    <2>2. game.body[1] \in Cells /\ game.body[2] \in Cells
      BY <2>1, FieldCells DEF GameSound, Games
    <2>3. game.direction \in Dirs /\ game.requested \in Dirs
      BY <2>1 DEF GameSound, Games
    <2> QED
      BY <2>1, <2>2, <2>3, WayBack DEF GameSound, HeadsOn, new_head
  <1>2. SnakeIsAPath
    <2> SUFFICES ASSUME game # NoGame PROVE GameSound(game) => SnakeIsAPath
      BY DEF GameInv, SnakeIsAPath
    <2>1. ASSUME GameSound(game)
          PROVE DOMAIN game.body = 1..Len(game.body) /\ Range(game.body) \subseteq Field
                /\ game.food \in Field
      BY <2>1, RangeIs DEF GameSound, Games
    <2> QED
      BY <2>1 DEF SnakeIsAPath, GameSound, Path
  <1> QED
    BY <1>1, <1>2 DEF SnakeIsSound

LEMMA NextGame == GameInv /\ [TerminalNext]_terminalVars => GameInv'
  <1> SUFFICES ASSUME GameInv, [TerminalNext]_terminalVars PROVE GameInv'
    OBVIOUS
  <1> USE DEF GameInv, Playing
  <1>1. CASE PutChar \/ FinishPut
    BY <1>1 DEF PutChar, FinishPut
  <1>12. CASE \E ch \in {"x", NL, BS} : OtherWrites(ch)
    BY <1>12 DEF OtherWrites
  <1>13. CASE \E area \in Areas : ProgramDraws(area)
    BY <1>13 DEF ProgramDraws
  <1>2. CASE PrintEnds
    BY <1>2 DEF PrintEnds
  <1>3. CASE (\E ch \in Letters : TypeLetter(ch)) \/ TypeBackspace \/ TypeEnter
    BY <1>3 DEF TypeLetter, TypeBackspace, TypeEnter, vga_write
  <1>4. CASE NoCommand \/ (\E text \in Outputs : CmdPrints(text)) \/ CmdClear \/ CmdDesktop
        \/ CmdDesktopFails
    BY <1>4 DEF NoCommand, CmdPrints, CmdClear, CmdDesktop, CmdDesktopFails, Command, PromptAfter,
       vga_write
  <1>5. CASE DesktopEnds \/ LeaveGame
    BY <1>5 DEF DesktopEnds, LeaveGame, PromptAfter, vga_write
  <1>6. CASE CmdSnake
    BY <1>6, NewGameSound DEF CmdSnake, vga_write
  <1>7. CASE \E d \in Dirs : Turn(d)
    BY <1>7, TurnSound DEF Turn
  <1>8. CASE Quit
    BY <1>8, QuitSound DEF Quit
  <1>9. CASE Move
    BY <1>9, StepSound DEF Move
  <1>10. CASE GameOver
    BY <1>10 DEF GameOver
  <1>11. CASE UNCHANGED terminalVars
    BY <1>11 DEF terminalVars, sessionVars
  <1> QED
    BY <1>1, <1>2, <1>3, <1>4, <1>5, <1>6, <1>7, <1>8, <1>9, <1>10, <1>11, <1>12,
       <1>13 DEF TerminalNext

\* snake_run never turns the snake into its own neck, however many keys are read
\* between two steps, and the snake stays a path of the field that does not cross
\* itself, with its food beside it.
THEOREM SnakeStaysSound == TerminalSpec => []SnakeIsSound
  <1>1. TerminalInit => GameInv
    BY DEF TerminalInit, GameInv, Playing
  <1> QED
    BY <1>1, NextGame, InvKnowsSnake, PTL DEF TerminalSpec

----------------------------------------------------------------------------
(* The console: what its operations make of a grid and a cursor            *)

Positions(rows, cols) == (0..(rows - 1)) \X (0..(cols - 1))
Glyphs == Characters \cup {"x", " ", "@", "o", "*", "#", "score", "game over", "desktop", "black",
                         "program"}
Grids(rows, cols) == [Positions(rows, cols) -> Glyphs]

\* The screen with its cursor at most so many rows below the last.
Reals(below) ==
    [screen : Grids(Height, Width), buffer : Grids(FbRows, FbCols),
     cursor : (0..(Height + below - 1)) \X (0..(Width - 1)), initialized : BOOLEAN,
     switched : BOOLEAN, painted : BOOLEAN]
Windows == [grid : Grids(WinRows, WinCols), cursor : Positions(WinRows, WinCols) \cup {LastRow}]

LEMMA Sizes ==
    /\ Rows \in Nat \ {0} /\ Cols \in Nat \ {0} /\ WinRows \in Nat \ {0} /\ WinCols \in Nat \ {0}
    /\ FbRows \in Nat \ {0} /\ FbCols \in Nat \ {0} /\ Rows <= FbRows /\ Cols <= FbCols
    /\ Height \in Nat \ {0} /\ Width \in Nat \ {0} /\ Rows <= Height /\ Cols <= Width
    /\ Height <= FbRows /\ Width <= FbCols
  BY ConsoleAssumption DEF Height, Width

LEMMA BlankTyped == ASSUME NEW rows, NEW cols PROVE Blank(rows, cols) \in Grids(rows, cols)
  BY DEF Blank, Grids, Positions, Glyphs

LEMMA StoredTyped ==
    ASSUME NEW rows, NEW cols, NEW grid \in Grids(rows, cols), NEW at, NEW ch \in Glyphs
    PROVE Stored(grid, at, ch, cols) \in Grids(rows, cols)
  <1>1. Glyph(ch) \in Glyphs
    BY DEF Glyph, Glyphs
  <1> QED
    BY <1>1 DEF Stored, Grids

LEMMA ScrolledTyped ==
    ASSUME NEW rows \in Nat \ {0}, NEW cols \in Nat \ {0}, NEW grid \in Grids(rows, cols)
    PROVE Scrolled(grid, rows) \in Grids(rows, cols)
  <1>1. ASSUME NEW p \in Positions(rows, cols), p[1] < rows - 1
        PROVE <<p[1] + 1, p[2]>> \in Positions(rows, cols)
    BY <1>1 DEF Positions
  <1> QED
    BY <1>1 DEF Scrolled, Grids, Glyphs

\* The cursor moves by one row at most, and what is stored is where it is.
LEMMA CursorMoves ==
    ASSUME NEW cols \in Nat \ {0}, NEW at \in Nat \X (0..(cols - 1)), NEW ch
    PROVE /\ Moved(at, ch, cols) \in Nat \X (0..(cols - 1)) /\ Moved(at, ch, cols)[1] <= at[1] + 1
          /\ Back(at, cols) \in Nat \X (0..(cols - 1)) /\ Back(at, cols)[1] <= at[1]
          /\ \A p \in Touched(at, ch, cols) : p \in Nat \X (0..(cols - 1)) /\ p[1] <= at[1]
  <1>1. PICK r \in Nat, c \in 0..(cols - 1) : at = <<r, c>>
    OBVIOUS
  <1>2. Back(at, cols) \in Nat \X (0..(cols - 1)) /\ Back(at, cols)[1] <= at[1]
    BY <1>1 DEF Back
  <1>3. Forward(at, cols) \in Nat \X (0..(cols - 1)) /\ Forward(at, cols)[1] <= at[1] + 1
    BY <1>1 DEF Forward
  <1> QED
    BY <1>1, <1>2, <1>3 DEF Moved, Touched

LEMMA PlaceTyped ==
    ASSUME NEW k \in Nat, NEW r \in Reals(k), NEW ch \in Glyphs
    PROVE Place(r, ch) \in Reals(k + 1)
  <1> DEFINE inited == IF gui /\ ~ r.initialized
                       THEN [r EXCEPT !.buffer = Blank(FbRows, FbCols), !.screen = Blank(FbRows, FbCols),
                                      !.initialized = TRUE, !.painted = FALSE]
                       ELSE r
  <1>1. inited \in Reals(k) /\ inited.cursor = r.cursor
    <2>1. gui => Height = FbRows /\ Width = FbCols
      BY DEF Height, Width
    <2> QED
      BY <2>1, BlankTyped DEF Reals
  <1> HIDE DEF inited
  <1>2. Place(r, ch) = [inited EXCEPT !.screen = Stored(inited.screen, r.cursor, ch, Width),
                                      !.buffer = IF gui THEN Stored(inited.buffer, r.cursor, ch, Width)
                                                 ELSE inited.buffer,
                                      !.cursor = Moved(inited.cursor, ch, Width)]
    BY DEF Place, inited
  <1>3. Stored(inited.screen, r.cursor, ch, Width) \in Grids(Height, Width)
    BY <1>1, StoredTyped DEF Reals
  <1>4. gui => Stored(inited.buffer, r.cursor, ch, Width) \in Grids(FbRows, FbCols)
    <2>1. gui => Height = FbRows /\ Width = FbCols
      BY DEF Height, Width
    <2> QED
      BY <1>1, <2>1, StoredTyped DEF Reals
  <1>5. Moved(inited.cursor, ch, Width) \in (0..(Height + (k + 1) - 1)) \X (0..(Width - 1))
    <2>1. inited.cursor \in Nat \X (0..(Width - 1)) /\ inited.cursor[1] <= Height + k - 1
      BY <1>1, Sizes DEF Reals
    <2>2. Moved(inited.cursor, ch, Width) \in Nat \X (0..(Width - 1))
          /\ Moved(inited.cursor, ch, Width)[1] <= inited.cursor[1] + 1
      BY <2>1, Sizes, CursorMoves
    <2> QED
      BY <2>1, <2>2, Sizes
  <1> QED
    BY <1>1, <1>2, <1>3, <1>4, <1>5 DEF Reals

\* A screen with another picture and cursor.
LEMMA Redrawn ==
    ASSUME NEW k \in Nat, NEW r \in Reals(k), NEW screen \in Grids(Height, Width), NEW j \in Nat,
           NEW buffer \in Grids(FbRows, FbCols), NEW at \in (0..(Height + j - 1)) \X (0..(Width - 1))
    PROVE /\ [r EXCEPT !.screen = screen, !.buffer = buffer, !.cursor = at] \in Reals(j)
          /\ [r EXCEPT !.screen = screen, !.cursor = at] \in Reals(j)
  BY DEF Reals

LEMMA PaintedField ==
    ASSUME NEW k \in Nat, NEW r \in Reals(k), NEW painted \in BOOLEAN
    PROVE [r EXCEPT !.painted = painted] \in Reals(k)
  BY DEF Reals

LEMMA ScrollTyped ==
    ASSUME NEW k \in Nat, NEW r \in Reals(k)
    PROVE Scroll(r) \in Reals(0)
  <1>1. CASE ~ BelowEnd(r.cursor[1], Height)
    <2>1. r.cursor \in (0..(Height - 1)) \X (0..(Width - 1))
      BY <1>1, Sizes DEF Reals, BelowEnd
    <2> QED
      BY <1>1, <2>1, Sizes DEF Scroll, Reals
  <1>2. CASE BelowEnd(r.cursor[1], Height)
    <2> DEFINE at == <<Height - 1, r.cursor[2]>>
    <2> PICK scrolled : scrolled = Scrolled(IF gui THEN r.buffer ELSE r.screen, Height)
      OBVIOUS
    <2>1. scrolled \in Grids(Height, Width) /\ (gui => scrolled \in Grids(FbRows, FbCols))
      <3>1. gui => Height = FbRows /\ Width = FbCols
        BY DEF Height, Width
      <3> QED
        BY <3>1, ScrolledTyped, Sizes DEF Reals
    <2> PICK buffer : buffer = IF gui THEN scrolled ELSE r.buffer
      OBVIOUS
    <2> PICK painted \in BOOLEAN : painted = (r.painted /\ ~ gui)
      OBVIOUS
    <2> PICK e : e = [r EXCEPT !.screen = scrolled, !.buffer = buffer, !.cursor = at]
      OBVIOUS
    <2>2. Scroll(r) = [r EXCEPT !.screen = scrolled, !.buffer = buffer, !.cursor = at,
                                !.painted = painted]
      BY <1>2 DEF Scroll
    <2>7. Scroll(r) = [e EXCEPT !.painted = painted]
      BY <2>2
    <2>3. at \in (0..(Height + 0 - 1)) \X (0..(Width - 1))
      BY Sizes DEF Reals
    <2>4. buffer \in Grids(FbRows, FbCols)
      BY <2>1 DEF Reals
    <2> HIDE DEF at
    <2>6. e \in Reals(0)
      BY <2>1, <2>3, <2>4, Redrawn
    <2>5. [e EXCEPT !.painted = painted] \in Reals(0)
      BY <2>6, PaintedField
    <2> QED
      BY <2>5, <2>7
  <1> QED
    BY <1>1, <1>2

\* The cursor after vga_scroll in text mode is on the framebuffer's screen, too.
LEMMA TextScrollTyped ==
    ASSUME NEW k \in Nat, NEW r \in Reals(k)
    PROVE TextScroll(r) \in Reals(0)
  <1> PICK a \in Nat, b \in 0..(Width - 1) : r.cursor = <<a, b>>
    BY Sizes DEF Reals
  <1> PICK at : at = IF BelowEnd(r.cursor[1], Rows) THEN <<Rows - 1, r.cursor[2]>> ELSE r.cursor
    OBVIOUS
  <1>1. at \in (0..(Height + 0 - 1)) \X (0..(Width - 1))
    BY Sizes DEF BelowEnd
  <1>2. TextScroll(r) = [r EXCEPT !.cursor = at, !.switched = FALSE]
    BY DEF TextScroll
  <1> QED
    BY <1>1, <1>2 DEF Reals

\* What a program draws changes nothing but the picture.
PaintedAs(r, area, screen) ==
    /\ screen \in Grids(FbRows, FbCols)
    /\ Painted(r, area) = [r EXCEPT !.screen = screen, !.painted = TRUE]
    /\ gui => \A p \in Positions(FbRows, FbCols) :
                 screen[p] = IF p \in area THEN "program" ELSE r.screen[p]

LEMMA PaintedTyped ==
    ASSUME NEW k \in Nat, NEW r \in Reals(k), NEW area, gui \in BOOLEAN
    PROVE \E screen : PaintedAs(r, area, screen)
  <1> DEFINE cell(p) == CASE p \in area -> "program"
                          [] p \notin area /\ gui -> r.screen[p]
                          [] p \notin area /\ ~ gui -> "black"
             screen == [p \in Positions(FbRows, FbCols) |-> cell(p)]
  <1>1. \A p \in Positions(FbRows, FbCols) :
            cell(p) \in Glyphs /\ (gui => cell(p) = IF p \in area THEN "program" ELSE r.screen[p])
    <2>1. gui => r.screen \in Grids(FbRows, FbCols)
      BY DEF Reals, Height, Width
    <2> TAKE p \in Positions(FbRows, FbCols)
    <2>2. gui => r.screen[p] \in Glyphs
      BY <2>1 DEF Grids
    <2>3. CASE p \in area
      BY <2>3 DEF Glyphs
    <2>4. CASE p \notin area /\ gui
      BY <2>2, <2>4
    <2>5. CASE p \notin area /\ ~ gui
      BY <2>5 DEF Glyphs
    <2> QED
      BY <2>3, <2>4, <2>5
  <1>2. Painted(r, area) = [r EXCEPT !.screen = screen, !.painted = TRUE]
    BY DEF Painted, Positions
  <1> HIDE DEF cell
  <1>3. screen \in Grids(FbRows, FbCols)
    BY <1>1 DEF Grids
  <1>4. gui => \A p \in Positions(FbRows, FbCols) :
                   screen[p] = IF p \in area THEN "program" ELSE r.screen[p]
    BY <1>1
  <1> QED
    BY <1>2, <1>3, <1>4 DEF PaintedAs

LEMMA ClearTyped ==
    ASSUME NEW k \in Nat, NEW r \in Reals(k)
    PROVE RealCleared(r, gui) \in Reals(0)
  <1> DEFINE at == <<0, 0>>
  <1>3. at \in (0..(Height + 0 - 1)) \X (0..(Width - 1))
    BY Sizes
  <1>1. CASE gui
    <2>1. Height = FbRows /\ Width = FbCols
      BY <1>1 DEF Height, Width
    <2>2. RealCleared(r, gui) = [screen |-> Blank(FbRows, FbCols), buffer |-> Blank(FbRows, FbCols),
                                 cursor |-> at, initialized |-> TRUE, switched |-> FALSE,
                                 painted |-> FALSE]
      BY <1>1 DEF RealCleared
    <2> HIDE DEF at
    <2> QED
      BY <1>3, <2>1, <2>2, Sizes, BlankTyped DEF Reals
  <1>2. CASE ~ gui
    <2>1. Height = Rows /\ Width = Cols
      BY <1>2 DEF Height, Width
    <2>2. RealCleared(r, gui) = [r EXCEPT !.screen = Blank(Rows, Cols), !.cursor = at]
      BY <1>2 DEF RealCleared
    <2> HIDE DEF at
    <2>3. [r EXCEPT !.screen = Blank(Rows, Cols), !.cursor = at] \in Reals(0)
      <3>1. Blank(Rows, Cols) \in Grids(Height, Width) /\ r.buffer \in Grids(FbRows, FbCols)
        BY <2>1, BlankTyped DEF Reals
      <3> QED
        BY <1>3, <3>1, Redrawn
    <2> QED
      BY <2>2, <2>3
  <1> QED
    BY <1>1, <1>2

LEMMA ClearIs ==
    ASSUME NEW k \in Nat, NEW r \in Reals(k)
    PROVE /\ gui => RealCleared(r, gui).initialized
             /\ RealCleared(r, gui).screen = RealCleared(r, gui).buffer
          /\ RealCleared(r, gui).screen = Blank(Height, Width)
               /\ RealCleared(r, gui).cursor = <<0, 0>>
          /\ (r.initialized => gui) => (RealCleared(r, gui).initialized => gui)
          /\ ~ r.switched => ~ RealCleared(r, gui).switched
  <1> PICK at : at = <<0, 0>>
    OBVIOUS
  <1>1. CASE gui
    <2>1. RealCleared(r, gui) = [screen |-> Blank(FbRows, FbCols), buffer |-> Blank(FbRows, FbCols),
                                 cursor |-> at, initialized |-> TRUE, switched |-> FALSE,
                                 painted |-> FALSE]
      BY <1>1 DEF RealCleared
    <2>2. Height = FbRows /\ Width = FbCols
      BY <1>1 DEF Height, Width
    <2>3. /\ RealCleared(r, gui).screen = Blank(FbRows, FbCols) /\ RealCleared(r, gui).cursor = at
          /\ RealCleared(r, gui).buffer = Blank(FbRows, FbCols) /\ RealCleared(r, gui).initialized
          /\ ~ RealCleared(r, gui).switched
      BY <2>1
    <2> QED
      BY <1>1, <2>2, <2>3
  <1>2. CASE ~ gui
    <2>1. RealCleared(r, gui) = [r EXCEPT !.screen = Blank(Rows, Cols), !.cursor = at]
      BY <1>2 DEF RealCleared
    <2>2. Height = Rows /\ Width = Cols
      BY <1>2 DEF Height, Width
    <2>3. /\ RealCleared(r, gui).screen = Blank(Rows, Cols) /\ RealCleared(r, gui).cursor = at
          /\ RealCleared(r, gui).initialized = r.initialized
          /\ RealCleared(r, gui).switched = r.switched
      BY <2>1 DEF Reals
    <2> QED
      BY <1>2, <2>2, <2>3
  <1> QED
    BY <1>1, <1>2

Pictures(pic) == \A p \in DOMAIN pic : pic[p] \in Glyphs

LEMMA PutAtTyped ==
    ASSUME NEW k \in Nat, NEW r \in Reals(k), NEW picture, Pictures(picture)
    PROVE /\ PutAt(r, picture) \in Reals(k) /\ PutAt(r, picture).cursor = r.cursor
          /\ PutAt(r, picture).buffer = r.buffer /\ PutAt(r, picture).initialized = r.initialized
          /\ PutAt(r, picture).switched = r.switched
  <1> DEFINE cells == {p \in DOMAIN picture : p[1] \in 0..(Rows - 1) /\ p[2] \in 0..(Cols - 1)}
             screen == [p \in DOMAIN r.screen |-> IF p \in cells THEN picture[p] ELSE r.screen[p]]
  <1>1. screen \in Grids(Height, Width)
    BY DEF Reals, Grids, Pictures
  <1>2. PutAt(r, picture) = [r EXCEPT !.screen = screen]
    BY DEF PutAt
  <1> HIDE DEF screen
  <1> QED
    BY <1>1, <1>2 DEF Reals

----------------------------------------------------------------------------
(* The window, the line, and the types of a session                        *)

LEMMA LastRowTyped == LastRow \in Nat \X (0..(WinCols - 1))
    /\ \A k \in Nat : LastRow \in (0..(Height + k - 1)) \X (0..(Width - 1))
  <1>1. Rows - 1 \in Nat /\ 0 \in 0..(WinCols - 1) /\ 0 \in 0..(Width - 1)
    BY Sizes
  <1>2. \A k \in Nat : Rows - 1 \in 0..(Height + k - 1)
    BY Sizes
  <1> QED
    BY <1>1, <1>2 DEF LastRow

\* A window whose cursor is where it belongs.
OpenWindows == [grid : Grids(WinRows, WinCols), cursor : Positions(WinRows, WinCols)]

LEMMA WindowClearedTyped == WindowCleared \in OpenWindows
  <1> DEFINE at == <<0, 0>>
  <1>1. at \in Positions(WinRows, WinCols)
    BY Sizes DEF Positions
  <1>2. WindowCleared = [grid |-> Blank(WinRows, WinCols), cursor |-> at]
    BY DEF WindowCleared
  <1> HIDE DEF at
  <1> QED
    BY <1>1, <1>2, BlankTyped DEF OpenWindows

LEMMA OpenWindowsAre == OpenWindows \subseteq Windows
  BY DEF OpenWindows, Windows

LEMMA RedirectTyped ==
    ASSUME NEW w \in Windows, NEW ch \in Characters
    PROVE redirect_putc(w, ch) \in OpenWindows
  <1> DEFINE grid == Stored(w.grid, w.cursor, ch, WinCols)
             at == Moved(w.cursor, ch, WinCols)
             up == <<WinRows - 1, at[2]>>
  <1>1. grid \in Grids(WinRows, WinCols)
    BY StoredTyped DEF Windows, Glyphs
  <1>2. at \in Nat \X (0..(WinCols - 1))
    <2>1. w.cursor \in Nat \X (0..(WinCols - 1))
      BY LastRowTyped DEF Windows, Positions
    <2> QED
      BY <2>1, Sizes, CursorMoves
  <1>3. ~ BelowEnd(at[1], WinRows) => at \in Positions(WinRows, WinCols)
    BY <1>2, Sizes DEF BelowEnd, Positions
  <1>4. up \in Positions(WinRows, WinCols)
    BY <1>2, Sizes DEF Positions
  <1>5. redirect_putc(w, ch) = IF BelowEnd(at[1], WinRows) THEN [grid |-> Scrolled(grid, WinRows), cursor |-> up]
                               ELSE [grid |-> grid, cursor |-> at]
    BY DEF redirect_putc
  <1> HIDE DEF grid, at, up
  <1>6. Scrolled(grid, WinRows) \in Grids(WinRows, WinCols)
    BY <1>1, Sizes, ScrolledTyped
  <1>7. [grid |-> Scrolled(grid, WinRows), cursor |-> up] \in OpenWindows
    BY <1>4, <1>6 DEF OpenWindows
  <1>8. ~ BelowEnd(at[1], WinRows) => [grid |-> grid, cursor |-> at] \in OpenWindows
    BY <1>1, <1>3 DEF OpenWindows
  <1> QED
    BY <1>5, <1>7, <1>8

\* Only a graphical desktop hosts a shell, and only the console defers scrolling.
SessionTyped ==
    /\ gui \in BOOLEAN /\ hosted \in BOOLEAN /\ pending \in BOOLEAN /\ disturbed \in BOOLEAN
    /\ hosted => gui
    /\ pending => mode = "print" /\ ~ hosted
    /\ mode \in {"print", "read", "dispatch", "play", "over"}
    /\ out \in Texts /\ line \in Seq(Letters) /\ Len(line) <= LineMax /\ calls \in Nat
Below == IF pending THEN 1 ELSE 0
RealTyped == real \in Reals(Below)
WindowTyped == window \in Windows /\ (~ hosted \/ game = NoGame => window \in OpenWindows)

\* Graphics mode has been engaged under a character only by a program that draws,
\* and only until that character is scrolled.
SwitchInv == real.switched => pending /\ disturbed

\* The game obeys its rules, and the session, the screen and the window have types.
TerminalInv == GameInv /\ SessionTyped /\ RealTyped /\ WindowTyped /\ SwitchInv

LEMMA TextFacts ==
    /\ Prompt \in Texts /\ Banner \in Texts /\ Controls \in Texts /\ Goodbye \in Texts
         /\ Outputs \subseteq Texts
    /\ <<>> \in Texts /\ <<NL>> \in Texts /\ <<BS>> \in Texts /\ \A ch \in Letters : <<ch>> \in Texts
    /\ \A s, r \in Texts : s \o r \in Texts
    /\ LineMax \in Nat /\ MaxCalls \in Nat
  <1>1. {NL, BS} \subseteq Characters /\ Letters \subseteq Characters
    BY TerminalAssumption
  <1>2. Prompt \in Texts /\ Banner \in Texts /\ Controls \in Texts /\ Goodbye \in Texts
        /\ Outputs \subseteq Texts
    BY TerminalAssumption
  <1>3. LineMax \in Nat /\ MaxCalls \in Nat
    BY TerminalAssumption
  <1>4. <<>> \in Texts /\ <<NL>> \in Texts /\ <<BS>> \in Texts /\ \A ch \in Letters : <<ch>> \in Texts
    BY <1>1 DEF Texts
  <1>5. \A s, r \in Texts : s \o r \in Texts
    BY DEF Texts
  <1> QED
    BY <1>2, <1>3, <1>4, <1>5

LEMMA PromptTyped ==
    ASSUME NEW text \in Texts, PromptAfter(text)
    PROVE mode' = "print" /\ out' \in Texts /\ line' \in Seq(Letters) /\ Len(line') <= LineMax
  <1>1. line' = <<>> /\ LineMax \in Nat /\ mode' = "print" /\ out' = text \o Prompt
    BY TextFacts DEF PromptAfter, vga_write
  <1>2. out' \in Texts
    BY <1>1, TextFacts
  <1> QED
    BY <1>1, <1>2

LEMMA NextSession == GameInv /\ SessionTyped /\ [TerminalNext]_terminalVars => SessionTyped'
  <1> SUFFICES ASSUME GameInv, SessionTyped, [TerminalNext]_terminalVars PROVE SessionTyped'
    OBVIOUS
  <1> USE DEF SessionTyped
  <1>1. CASE PutChar
    <2>1. out' \in Texts
      BY <1>1 DEF PutChar, Texts
    <2>2. pending' \in BOOLEAN /\ (pending' => ~ hosted)
      <3>1. CASE hosted
        BY <1>1, <3>1 DEF PutChar
      <3>2. CASE ~ hosted
        BY <1>1, <3>2 DEF PutChar, BelowEnd
      <3> QED
        BY <3>1, <3>2
    <2> QED
      BY <1>1, <2>1, <2>2 DEF PutChar
  <1>2. CASE FinishPut
    BY <1>2 DEF FinishPut
  <1>3. CASE PrintEnds
    BY <1>3 DEF PrintEnds, GameInv, consoleVars
  <1>4. CASE \E ch \in {"x", NL, BS} : OtherWrites(ch)
    BY <1>4 DEF OtherWrites, consoleVars
  <1>14. CASE \E area \in Areas : ProgramDraws(area)
    BY <1>14 DEF ProgramDraws
  <1>5. CASE \E ch \in Letters : TypeLetter(ch)
    <2> PICK ch \in Letters : TypeLetter(ch)
      BY <1>5
    <2>1. line' \in Seq(Letters) /\ Len(line') = Len(line) + 1
      BY DEF TypeLetter
    <2>2. out' \in Texts /\ mode' = "print" /\ Len(line) < LineMax
      BY TextFacts DEF TypeLetter, vga_write
    <2>3. Len(line') <= LineMax
      BY <2>1, <2>2, TextFacts
    <2> QED
      BY <2>1, <2>2, <2>3 DEF TypeLetter, consoleVars
  <1>6. CASE TypeBackspace
    <2>1. line' \in Seq(Letters) /\ Len(line') <= Len(line)
      BY <1>6 DEF TypeBackspace, consoleVars
    <2> QED
      BY <1>6, <2>1, TextFacts DEF TypeBackspace, vga_write, consoleVars
  <1>7. CASE TypeEnter
    <2>1. out' \in Texts /\ mode' = "print"
      BY <1>7, TextFacts DEF TypeEnter, vga_write
    <2> QED
      BY <1>7, <2>1 DEF TypeEnter, consoleVars
  <1>8. CASE NoCommand \/ CmdDesktopFails \/ \E text \in Outputs : CmdPrints(text)
    <2>1. PICK text \in Texts : PromptAfter(text)
      BY <1>8, TextFacts DEF NoCommand, CmdPrints, CmdDesktopFails
    <2>2. UNCHANGED <<gui, hosted, pending, calls, disturbed>> /\ ~ pending
      BY <1>8 DEF NoCommand, CmdPrints, CmdDesktopFails, Command, consoleVars
    <2> QED
      BY <2>1, <2>2, PromptTyped
  <1>9. CASE CmdClear \/ LeaveGame
    <2>1. PromptAfter(<<>>) /\ <<>> \in Texts
      BY <1>9, TextFacts DEF CmdClear, LeaveGame
    <2>2. UNCHANGED <<gui, hosted, pending, calls>> /\ ~ pending /\ disturbed' \in BOOLEAN
      <3>1. UNCHANGED <<gui, hosted, pending, calls>> /\ ~ pending
        BY <1>9 DEF CmdClear, LeaveGame, Command
      <3>2. disturbed' = disturbed \/ disturbed' = FALSE
        BY <1>9 DEF CmdClear, LeaveGame, vga_clear
      <3> QED
        BY <3>1, <3>2
    <2> QED
      BY <2>1, <2>2, PromptTyped
  <1>10. CASE CmdDesktop \/ DesktopEnds
    <2>1. PICK text \in Texts : PromptAfter(text)
      BY <1>10, TextFacts DEF CmdDesktop, DesktopEnds
    <2>2. UNCHANGED <<pending, calls>> /\ ~ pending
      BY <1>10 DEF CmdDesktop, DesktopEnds, Command
    <2>3. gui' \in BOOLEAN /\ hosted' \in BOOLEAN /\ disturbed' \in BOOLEAN /\ (hosted' => gui')
      BY <1>10 DEF CmdDesktop, DesktopEnds
    <2> QED
      BY <2>1, <2>2, <2>3, PromptTyped
  <1>11. CASE CmdSnake
    <2>1. UNCHANGED <<gui, hosted, pending, calls>> /\ ~ pending /\ disturbed' \in BOOLEAN
      BY <1>11 DEF CmdSnake, Command
    <2>2. mode' = "print" /\ out' = Controls /\ line' = <<>>
      BY <1>11 DEF CmdSnake, vga_write
    <2>3. line' \in Seq(Letters) /\ Len(line') <= LineMax /\ out' \in Texts
      BY <2>2, TextFacts
    <2> QED
      BY <2>1, <2>2, <2>3
  <1>12. CASE (\E d \in Dirs : Turn(d)) \/ Quit \/ Move \/ GameOver
    <2>1. UNCHANGED <<gui, hosted, pending, disturbed, out, line, calls>>
      BY <1>12 DEF Turn, Quit, Move, GameOver, consoleVars
    <2>2. ~ pending /\ mode' \in {"play", "over"}
      BY <1>12 DEF Turn, Quit, Move, GameOver, consoleVars
    <2> QED
      BY <2>1, <2>2
  <1>13. CASE UNCHANGED terminalVars
    BY <1>13 DEF terminalVars, sessionVars, consoleVars
  <1> QED
    BY <1>1, <1>2, <1>3, <1>4, <1>5, <1>6, <1>7, <1>8, <1>9, <1>10, <1>11, <1>12, <1>13, <1>14
       DEF TerminalNext, consoleVars

LEMMA NextWindow == GameInv /\ SessionTyped /\ WindowTyped /\ [TerminalNext]_terminalVars
    /\ GameInv' => WindowTyped'
  <1> SUFFICES ASSUME GameInv, SessionTyped, WindowTyped, [TerminalNext]_terminalVars, GameInv'
        PROVE WindowTyped'
    OBVIOUS
  <1>0. /\ WindowCleared \in OpenWindows /\ OpenWindows \subseteq Windows
        /\ (window' = window /\ hosted' = hosted /\ (game' = NoGame => game = NoGame \/ ~ hosted) => WindowTyped')
        /\ (window' \in OpenWindows => WindowTyped')
    BY WindowClearedTyped, OpenWindowsAre DEF WindowTyped, Windows, OpenWindows, LastRow, Grids,
       Positions, Glyphs
  <1>1. CASE PutChar
    <2>1. CASE hosted
      <3>1. Head(out) \in Characters
        BY <1>1 DEF PutChar, SessionTyped, Texts
      <3>2. window' \in OpenWindows
        BY <1>1, <2>1, <3>1, RedirectTyped DEF PutChar, WindowTyped
      <3> QED
        BY <1>0, <3>2
    <2>2. CASE ~ hosted
      BY <1>0, <1>1, <2>2 DEF PutChar
    <2> QED
      BY <2>1, <2>2
  <1>2. CASE FinishPut \/ PrintEnds \/ (\E ch \in {"x", NL, BS} : OtherWrites(ch))
        \/ \E area \in Areas : ProgramDraws(area)
    BY <1>0, <1>2 DEF FinishPut, PrintEnds, OtherWrites, ProgramDraws, consoleVars
  <1>3. CASE (\E ch \in Letters : TypeLetter(ch)) \/ TypeBackspace \/ TypeEnter
    BY <1>0, <1>3 DEF TypeLetter, TypeBackspace, TypeEnter, consoleVars
  <1>4. CASE NoCommand \/ CmdDesktopFails \/ \E text \in Outputs : CmdPrints(text)
    BY <1>0, <1>4 DEF NoCommand, CmdPrints, CmdDesktopFails, consoleVars
  <1>5. CASE CmdClear
    BY <1>0, <1>5 DEF CmdClear, vga_clear
  <1>6. CASE LeaveGame
    <2>1. CASE hosted
      BY <1>0, <1>6, <2>1 DEF LeaveGame, vga_clear
    <2>2. CASE ~ hosted
      BY <1>0, <1>6, <2>2 DEF LeaveGame, vga_clear
    <2> QED
      BY <2>1, <2>2
  <1>7. CASE CmdDesktop \/ DesktopEnds
    BY <1>0, <1>7 DEF CmdDesktop, DesktopEnds
  <1>8. CASE CmdSnake
    <2>1. game' # NoGame
      BY <1>8, SoundGameIsOn DEF CmdSnake, GameInv, Playing, vga_write
    <2>2. CASE hosted
      <3>1. PICK r : vga_set_cursor_pos(r, WindowCleared, LastRow)
        BY <1>8, <2>2 DEF CmdSnake
      <3>2. window' = [WindowCleared EXCEPT !.cursor = LastRow] /\ hosted'
        BY <1>8, <2>2, <3>1 DEF CmdSnake, vga_set_cursor_pos
      <3> QED
        BY <1>0, <2>1, <3>2 DEF WindowTyped, Windows
    <2>3. CASE ~ hosted
      BY <1>0, <1>8, <2>1, <2>3 DEF CmdSnake, vga_set_cursor_pos, WindowTyped
    <2> QED
      BY <2>2, <2>3
  <1>9. CASE (\E d \in Dirs : Turn(d)) \/ Quit \/ Move
    <2>1. game' # NoGame
      BY <1>9, SoundGameIsOn DEF Turn, Quit, Move, GameInv, Playing
    <2>2. UNCHANGED <<window, hosted>>
      BY <1>9 DEF Turn, Quit, Move, consoleVars
    <2> QED
      BY <1>0, <2>1, <2>2
  <1>10. CASE GameOver
    <2>1. game' # NoGame
      BY <1>10, SoundGameIsOn DEF GameOver, GameInv, Playing
    <2>2. CASE hosted
      <3>1. window' = [window EXCEPT !.cursor = LastRow] /\ hosted'
        BY <1>10, <2>2 DEF GameOver, vga_set_cursor_pos
      <3> QED
        BY <2>1, <3>1 DEF WindowTyped, Windows
    <2>3. CASE ~ hosted
      BY <1>0, <1>10, <2>1, <2>3 DEF GameOver, vga_set_cursor_pos
    <2> QED
      BY <2>2, <2>3
  <1>11. CASE UNCHANGED terminalVars
    BY <1>0, <1>11 DEF terminalVars, sessionVars, consoleVars
  <1> QED
    BY <1>1, <1>2, <1>3, <1>4, <1>5, <1>6, <1>7, <1>8, <1>9, <1>10, <1>11 DEF TerminalNext

\* Where the size of the screen does not change, a picture stays one of that size.
LEMMA SameSize ==
    ASSUME UNCHANGED gui, NEW k \in Nat, real' \in Reals(k), k = Below'
    PROVE RealTyped'
  BY DEF RealTyped, Reals, Height, Width

LEMMA SetCursorTyped ==
    ASSUME NEW r \in Reals(0), NEW w, vga_set_cursor_pos(r, w, LastRow)
    PROVE real' \in Reals(0)
  <1>1. LastRow \in (0..(Height + 0 - 1)) \X (0..(Width - 1))
    BY LastRowTyped
  <1> QED
    BY <1>1 DEF vga_set_cursor_pos, Reals

LEMMA EverywhereTyped == ASSUME NEW cells, NEW ch \in Glyphs PROVE Pictures(Everywhere(cells, ch))
  BY DEF Pictures, Everywhere

LEMMA OverTyped ==
    ASSUME NEW above, NEW below, Pictures(above), Pictures(below)
    PROVE Pictures(Over(above, below))
  BY DEF Pictures, Over

LEMMA ScoreTyped == \A alive \in BOOLEAN : Pictures(draw_score(alive))
  BY DEF draw_score, Pictures, Glyphs

LEMMA MarksAreGlyphs == {"@", "o", "*", "#", " "} \subseteq Glyphs
  BY DEF Glyphs

LEMMA FirstPictureTyped == ASSUME NEW g PROVE Pictures(FirstPicture(g))
  <1>1. Pictures(Snake(g.body))
    BY EverywhereTyped, OverTyped, MarksAreGlyphs DEF Snake
  <1>2. Pictures(Everywhere({g.food}, "*")) /\ Pictures(Everywhere(Border, "#"))
        /\ Pictures(draw_score(TRUE))
    BY EverywhereTyped, OverTyped, MarksAreGlyphs, ScoreTyped
  <1> QED
    BY <1>1, <1>2, EverywhereTyped, OverTyped DEF FirstPicture

LEMMA StepPictureTyped == ASSUME NEW g, NEW n PROVE Pictures(StepPicture(g, n))
  <1> DEFINE head == Over(Everywhere({n.body[1]}, "@"), Everywhere({n.body[2]}, "o"))
             change == IF Eats(g) THEN Everywhere({n.food}, "*")
                       ELSE Everywhere({g.body[Len(g.body)]}, " ")
  <1>1. Pictures(head)
    BY EverywhereTyped, OverTyped, MarksAreGlyphs
  <1>2. Pictures(change)
    BY EverywhereTyped, OverTyped, MarksAreGlyphs
  <1>3. StepPicture(g, n) = Over(draw_score(TRUE), Over(head, change))
    BY DEF StepPicture
  <1> QED
    BY <1>1, <1>2, <1>3, EverywhereTyped, OverTyped, ScoreTyped

LEMMA NextReal == GameInv /\ SessionTyped /\ RealTyped /\ [TerminalNext]_terminalVars => RealTyped'
  <1> SUFFICES ASSUME GameInv, SessionTyped, RealTyped, [TerminalNext]_terminalVars PROVE RealTyped'
    OBVIOUS
  <1>0. Below \in {0, 1} /\ real \in Reals(Below) /\ (~ pending => real \in Reals(0))
    BY DEF Below, RealTyped
  <1>1. CASE PutChar
    <2>1. CASE hosted
      BY <1>0, <1>1, <2>1, SameSize DEF PutChar, Below, SessionTyped
    <2>2. CASE ~ hosted
      <3> PICK ch \in Characters : ch = Head(out)
        BY <1>1 DEF PutChar, SessionTyped, Texts
      <3>1. real' = Place(real, ch) /\ pending' = BelowEnd(real'.cursor[1], Height) /\ UNCHANGED gui
        BY <1>1, <2>2 DEF PutChar
      <3>2. real' \in Reals(1)
        <4>1. real \in Reals(0) /\ ch \in Glyphs
          BY <1>0, <1>1 DEF PutChar, Glyphs
        <4> QED
          BY <3>1, <4>1, PlaceTyped
      <3>3. CASE pending'
        BY <3>1, <3>2, <3>3, SameSize DEF Below
      <3>4. CASE ~ pending'
        <4>1. real'.cursor \in (0..(Height + 0 - 1)) \X (0..(Width - 1))
          <5> PICK a, b : a \in 0..(Height + 1 - 1) /\ b \in 0..(Width - 1) /\ real'.cursor = <<a, b>>
            BY <3>2 DEF Reals
          <5>2. a \in Nat /\ real'.cursor[1] = a /\ Height \in Nat
            BY Sizes
          <5>3. ~ BelowEnd(a, Height)
            BY <3>1, <3>4, <5>2
          <5>1. a < Height
            BY <5>2, <5>3 DEF BelowEnd
          <5> QED
            BY <5>1, Sizes
        <4>2. real' \in Reals(0)
          BY <3>2, <4>1 DEF Reals
        <4> QED
          BY <3>1, <3>4, <4>2, SameSize DEF Below
      <3> QED
        BY <3>3, <3>4
    <2> QED
      BY <2>1, <2>2
  <1>2. CASE FinishPut
    <2>1. real' \in Reals(0)
      BY <1>0, <1>2, ScrollTyped, TextScrollTyped DEF FinishPut
    <2> QED
      BY <1>2, <2>1, SameSize DEF FinishPut, Below
  <1>3. CASE \E ch \in {"x", NL, BS} : OtherWrites(ch)
    <2> PICK ch \in {"x", NL, BS} : OtherWrites(ch)
      BY <1>3
    <2>1. ch \in Glyphs
      BY TerminalAssumption DEF Glyphs
    <2>2. Place(real, ch) \in Reals(Below + 1)
      BY <1>0, <2>1, PlaceTyped
    <2>3. real' \in Reals(0)
      BY <1>0, <2>2, ScrollTyped DEF OtherWrites
    <2>4. CASE ~ pending
      BY <2>3, <2>4, SameSize DEF OtherWrites, Below
    <2>5. CASE pending
      <3>1. Reals(0) \subseteq Reals(1)
        BY Sizes DEF Reals
      <3> QED
        BY <2>3, <2>5, <3>1, SameSize DEF OtherWrites, Below
    <2> QED
      BY <2>4, <2>5
  <1>15. CASE \E area \in Areas : ProgramDraws(area)
    <2> PICK area \in Areas : ProgramDraws(area)
      BY <1>15
    <2>5. Below \in Nat /\ gui \in BOOLEAN
      BY <1>0 DEF SessionTyped
    <2> PICK screen : PaintedAs(real, area, screen)
      BY <1>0, <2>5, PaintedTyped
    <2>6. screen \in Grids(FbRows, FbCols)
          /\ Painted(real, area) = [real EXCEPT !.screen = screen, !.painted = TRUE]
      BY DEF PaintedAs
    <2> PICK switched \in BOOLEAN : switched = (real.switched \/ (pending /\ ~ gui))
      OBVIOUS
    <2>1. real' = [real EXCEPT !.screen = screen, !.painted = TRUE, !.switched = switched]
      <3>1. Painted(real, area).switched = real.switched
        BY <1>0, <2>6 DEF Reals
      <3> QED
        BY <2>6, <3>1 DEF ProgramDraws
    <2>2. real.cursor \in (0..(FbRows + Below - 1)) \X (0..(FbCols - 1))
      BY <1>0, Sizes DEF Reals
    <2>3. real' \in [screen : Grids(FbRows, FbCols), buffer : Grids(FbRows, FbCols),
                     cursor : (0..(FbRows + Below - 1)) \X (0..(FbCols - 1)), initialized : BOOLEAN,
                     switched : BOOLEAN, painted : BOOLEAN]
      BY <1>0, <2>1, <2>2, <2>6 DEF Reals
    <2>4. Height' = FbRows /\ Width' = FbCols /\ Below' = Below
      BY DEF ProgramDraws, Height, Width, Below
    <2> QED
      BY <2>3, <2>4 DEF RealTyped, Reals
  <1>4. ASSUME UNCHANGED <<gui, real, pending>> PROVE RealTyped'
    BY <1>0, <1>4, SameSize DEF Below
  <1>5. CASE PrintEnds \/ (\E ch \in Letters : TypeLetter(ch)) \/ TypeBackspace \/ TypeEnter
    BY <1>4, <1>5 DEF PrintEnds, TypeLetter, TypeBackspace, TypeEnter, consoleVars
  <1>6. CASE NoCommand \/ CmdDesktopFails \/ \E text \in Outputs : CmdPrints(text)
    BY <1>4, <1>6 DEF NoCommand, CmdPrints, CmdDesktopFails, consoleVars
  <1>7. CASE (\E d \in Dirs : Turn(d)) \/ Quit \/ UNCHANGED terminalVars
    BY <1>4, <1>7 DEF Turn, Quit, terminalVars, sessionVars, consoleVars
  <1>8. ASSUME real' \in Reals(0), ~ pending, UNCHANGED <<gui, pending>> PROVE RealTyped'
    BY <1>8, SameSize DEF Below
  <1>9. CASE CmdClear \/ LeaveGame
    <2>1. ~ pending /\ UNCHANGED <<gui, pending>>
      BY <1>9 DEF CmdClear, LeaveGame, Command, SessionTyped
    <2>2. vga_clear
      BY <1>9 DEF CmdClear, LeaveGame
    <2>3. CASE hosted
      BY <1>4, <2>1, <2>2, <2>3 DEF vga_clear
    <2>4. CASE ~ hosted
      <3>1. real' \in Reals(0)
        BY <1>0, <2>2, <2>4, ClearTyped DEF vga_clear
      <3> QED
        BY <1>8, <2>1, <3>1
    <2> QED
      BY <2>3, <2>4
  <1>10. CASE CmdDesktop
    <2>1. real' = [real EXCEPT !.screen = [p \in DOMAIN real.buffer |-> "desktop"]] /\ ~ pending
          /\ ~ pending' /\ gui'
      BY <1>10 DEF CmdDesktop, Command, SessionTyped
    <2>2. real.buffer \in Grids(FbRows, FbCols)
      BY <1>0 DEF Reals
    <2> PICK screen : screen = [p \in DOMAIN real.buffer |-> "desktop"]
      OBVIOUS
    <2>3. screen \in Grids(FbRows, FbCols)
      BY <2>2 DEF Grids, Glyphs
    <2>4. real.cursor \in (0..(FbRows + 0 - 1)) \X (0..(FbCols - 1))
      BY <1>0, <2>1, Sizes DEF Reals
    <2>5. real' \in [screen : Grids(FbRows, FbCols), buffer : Grids(FbRows, FbCols),
                     cursor : (0..(FbRows + 0 - 1)) \X (0..(FbCols - 1)), initialized : BOOLEAN,
                     switched : BOOLEAN, painted : BOOLEAN]
      BY <1>0, <2>1, <2>3, <2>4 DEF Reals
    <2>6. Height' = FbRows /\ Width' = FbCols /\ Below' = 0
      BY <2>1 DEF Height, Width, Below
    <2> QED
      BY <2>5, <2>6 DEF RealTyped, Reals
  <1>11. CASE DesktopEnds
    <2>1. ~ pending /\ UNCHANGED <<gui, pending>>
      BY <1>11 DEF DesktopEnds, SessionTyped
    <2> DEFINE black == [real EXCEPT !.screen = [p \in DOMAIN real.screen |-> "black"]]
    <2>2. black \in Reals(0)
      <3> PICK screen : screen = [p \in DOMAIN real.screen |-> "black"]
        OBVIOUS
      <3>1. screen \in Grids(Height, Width)
        BY <1>0 DEF Reals, Grids, Glyphs
      <3> QED
        BY <1>0, <2>1, <3>1 DEF Reals
    <2>3. real' = RealCleared(black, gui)
      BY <1>11 DEF DesktopEnds
    <2> HIDE DEF black
    <2> QED
      BY <1>8, <2>1, <2>2, <2>3, ClearTyped
  <1>12. CASE CmdSnake
    <2>1. ~ pending /\ UNCHANGED <<gui, pending>>
      BY <1>12 DEF CmdSnake, Command, SessionTyped
    <2>2. PICK r, g, w : r = (IF hosted THEN real ELSE RealCleared(real, gui))
                         /\ vga_set_cursor_pos(PutAt(r, FirstPicture(g)), w, LastRow)
      BY <1>12 DEF CmdSnake
    <2>3. r \in Reals(0)
      BY <1>0, <2>1, <2>2, ClearTyped
    <2>4. PutAt(r, FirstPicture(g)) \in Reals(0)
      BY <2>3, FirstPictureTyped, PutAtTyped
    <2> QED
      BY <1>8, <2>1, <2>2, <2>4, SetCursorTyped
  <1>13. CASE Move
    <2>1. ~ pending /\ UNCHANGED <<gui, pending>>
      BY <1>13 DEF Move, SessionTyped
    <2>2. real' = PutAt(real, StepPicture(game, game'))
      BY <1>13 DEF Move
    <2> QED
      BY <1>0, <1>8, <2>1, <2>2, StepPictureTyped, PutAtTyped
  <1>14. CASE GameOver
    <2>1. ~ pending /\ UNCHANGED <<gui, pending>>
      BY <1>14 DEF GameOver, SessionTyped
    <2>2. vga_set_cursor_pos(PutAt(real, draw_score(FALSE)), window, LastRow)
      BY <1>14 DEF GameOver
    <2>3. PutAt(real, draw_score(FALSE)) \in Reals(0)
      BY <1>0, <2>1, ScoreTyped, PutAtTyped
    <2> QED
      BY <1>8, <2>1, <2>2, <2>3, SetCursorTyped
  <1> QED
    BY <1>1, <1>2, <1>3, <1>5, <1>6, <1>7, <1>9, <1>10, <1>11, <1>12, <1>13, <1>14,
       <1>15 DEF TerminalNext

LEMMA NextSwitch ==
    SessionTyped /\ RealTyped /\ SwitchInv /\ [TerminalNext]_terminalVars => SwitchInv'
  <1> SUFFICES ASSUME SessionTyped, RealTyped, SwitchInv, [TerminalNext]_terminalVars, real'.switched
               PROVE pending' /\ disturbed'
    BY DEF SwitchInv
  <1> USE DEF SwitchInv
  <1>0. /\ real \in Reals(Below) /\ Below \in Nat
        /\ \A ch : Place(real, ch).switched = real.switched
    <2>1. real \in Reals(Below) /\ Below \in Nat
      BY DEF RealTyped, Below
    <2> QED
      BY <2>1 DEF Place, Reals
  <1>2. CASE PutChar
    <2>1. CASE hosted
      BY <1>2, <2>1 DEF PutChar
    <2>2. CASE ~ hosted
      BY <1>0, <1>2, <2>2 DEF PutChar
    <2> QED
      BY <2>1, <2>2
  <1>3. CASE FinishPut
    <2>1. CASE real.switched
      BY <1>0, <1>3, <2>1 DEF FinishPut, TextScroll, Reals
    <2>2. CASE ~ real.switched
      BY <1>0, <1>3, <2>2 DEF FinishPut, Scroll, Reals
    <2> QED
      BY <2>1, <2>2
  <1>4. CASE \E ch \in {"x", NL, BS} : OtherWrites(ch)
    <2> PICK ch \in {"x", NL, BS} : OtherWrites(ch)
      BY <1>4
    <2>1. Place(real, ch) \in Reals(Below + 1)
      BY <1>0, PlaceTyped, TerminalAssumption DEF Glyphs
    <2>2. Scroll(Place(real, ch)).switched = Place(real, ch).switched
      BY <2>1 DEF Scroll, Reals
    <2> QED
      BY <1>0, <2>2 DEF OtherWrites
  <1>5. CASE \E area \in Areas : ProgramDraws(area)
    <2> PICK area \in Areas : ProgramDraws(area)
      BY <1>5
    <2>1. real'.switched = (real.switched \/ (pending /\ ~ gui))
      BY <1>0 DEF ProgramDraws, Painted, Reals
    <2> QED
      BY <2>1 DEF ProgramDraws
  <1>6. CASE PrintEnds \/ (\E ch \in Letters : TypeLetter(ch)) \/ TypeBackspace \/ TypeEnter
        \/ NoCommand \/ CmdDesktopFails \/ (\E text \in Outputs : CmdPrints(text))
        \/ (\E d \in Dirs : Turn(d)) \/ Quit \/ UNCHANGED terminalVars
    BY <1>6 DEF PrintEnds, TypeLetter, TypeBackspace, TypeEnter, NoCommand, CmdDesktopFails, CmdPrints,
       Turn, Quit, terminalVars, sessionVars, consoleVars
  <1>8. CASE CmdClear \/ LeaveGame
    <2>1. ~ pending /\ vga_clear
      BY <1>8 DEF CmdClear, LeaveGame, Command, SessionTyped
    <2>2. ~ real.switched
      BY <2>1
    <2>3. CASE hosted
      BY <2>1, <2>2, <2>3 DEF vga_clear
    <2>4. CASE ~ hosted
      <3>1. real' = RealCleared(real, gui)
        BY <2>1, <2>4 DEF vga_clear
      <3>2. ~ RealCleared(real, gui).switched
        BY <1>0, <2>2, ClearIs
      <3> QED
        BY <3>1, <3>2
    <2> QED
      BY <2>3, <2>4
  <1>9. CASE CmdDesktop
    <2>1. ~ pending /\ real'.switched = real.switched
      BY <1>0, <1>9 DEF CmdDesktop, Command, SessionTyped, Reals
    <2> QED
      BY <2>1
  <1>10. CASE DesktopEnds
    <2>1. gui /\ real'.switched = FALSE
      BY <1>10 DEF DesktopEnds, RealCleared, SessionTyped
    <2> QED
      BY <2>1
  <1>11. CASE CmdSnake
    <2>1. ~ pending /\ ~ real.switched
      BY <1>11 DEF CmdSnake, Command, SessionTyped
    <2>2. PICK r, g, w : r = (IF hosted THEN real ELSE RealCleared(real, gui))
                         /\ vga_set_cursor_pos(PutAt(r, FirstPicture(g)), w, LastRow)
      BY <1>11 DEF CmdSnake
    <2>3. ~ r.switched /\ \E k \in Nat : r \in Reals(k)
      BY <1>0, <2>1, <2>2, ClearTyped, ClearIs
    <2>4. ~ PutAt(r, FirstPicture(g)).switched /\ \E k \in Nat : PutAt(r, FirstPicture(g)) \in Reals(k)
      BY <2>3, FirstPictureTyped, PutAtTyped
    <2>5. ~ real'.switched
      BY <2>2, <2>4 DEF vga_set_cursor_pos, Reals
    <2> QED
      BY <2>5
  <1>12. CASE Move
    <2>1. ~ pending /\ real' = PutAt(real, StepPicture(game, game'))
      BY <1>12 DEF Move, SessionTyped
    <2> QED
      BY <1>0, <2>1, StepPictureTyped, PutAtTyped
  <1>13. CASE GameOver
    <2>1. ~ pending /\ vga_set_cursor_pos(PutAt(real, draw_score(FALSE)), window, LastRow)
      BY <1>13 DEF GameOver, SessionTyped
    <2>2. ~ PutAt(real, draw_score(FALSE)).switched /\ PutAt(real, draw_score(FALSE)) \in Reals(Below)
      BY <1>0, <2>1, ScoreTyped, PutAtTyped
    <2> QED
      BY <2>1, <2>2 DEF vga_set_cursor_pos, Reals
  <1> QED
    BY <1>2, <1>3, <1>4, <1>5, <1>6, <1>8, <1>9, <1>10, <1>11, <1>12, <1>13 DEF TerminalNext

LEMMA InitTerminal == TerminalInit => TerminalInv
  <1> SUFFICES ASSUME TerminalInit PROVE TerminalInv
    OBVIOUS
  <1>1. GameInv
    BY DEF TerminalInit, GameInv, Playing
  <1>2. SessionTyped
    <2>1. out \in Texts /\ line \in Seq(Letters) /\ Len(line) <= LineMax /\ calls \in Nat
      BY TextFacts DEF TerminalInit
    <2> QED
      BY <2>1 DEF TerminalInit, ConsoleInit, SessionTyped
  <1>3. RealTyped
    <2> PICK at : at = <<0, 0>>
      OBVIOUS
    <2>1. real = [screen |-> Blank(Rows, Cols), buffer |-> Blank(FbRows, FbCols), cursor |-> at, initialized |-> FALSE,
                 switched |-> FALSE, painted |-> FALSE]
      BY DEF TerminalInit, ConsoleInit
    <2>2. Height = Rows /\ Width = Cols /\ Below = 0
      BY DEF TerminalInit, ConsoleInit, Height, Width, Below
    <2>3. at \in (0..(Height + 0 - 1)) \X (0..(Width - 1))
      BY Sizes
    <2> QED
      BY <2>1, <2>2, <2>3, BlankTyped DEF RealTyped, Reals
  <1>4. WindowTyped
    <2>1. window = WindowCleared
      BY DEF TerminalInit, ConsoleInit, WindowCleared
    <2> QED
      BY <2>1, WindowClearedTyped, OpenWindowsAre DEF WindowTyped
  <1>5. SwitchInv
    BY DEF TerminalInit, ConsoleInit, SwitchInv
  <1> QED
    BY <1>1, <1>2, <1>3, <1>4, <1>5 DEF TerminalInv

LEMMA NextTerminal == TerminalInv /\ [TerminalNext]_terminalVars => TerminalInv'
  BY NextGame, NextSession, NextReal, NextWindow, NextSwitch DEF TerminalInv

LEMMA TypesFollow == TerminalInv => TerminalTypeOK
  <1> SUFFICES ASSUME TerminalInv PROVE TerminalTypeOK
    OBVIOUS
  <1> USE DEF TerminalInv
  <1>1. /\ real.cursor \in (0..(Height + Below - 1)) \X (0..(Width - 1))
        /\ DOMAIN real.screen = (0..(Height - 1)) \X (0..(Width - 1))
    BY DEF RealTyped, Reals, Grids, Positions
  <1>2. window.cursor \in (0..(WinRows - 1)) \X (0..(WinCols - 1))
        \/ (window.cursor = LastRow /\ game # NoGame)
    BY DEF WindowTyped, Windows, OpenWindows, Positions
  <1> QED
    BY <1>1, <1>2 DEF TerminalTypeOK, SessionTyped, Below

----------------------------------------------------------------------------
(* No character is stored past the end                                     *)

LEMMA StepStaysInside ==
    TerminalInv /\ [TerminalNext]_terminalVars =>
        (overran' # overran => (pending /\ calls' < calls) \/ (hosted /\ game # NoGame))
  <1> SUFFICES ASSUME TerminalInv, [TerminalNext]_terminalVars, overran' # overran
               PROVE (pending /\ calls' < calls) \/ (hosted /\ game # NoGame)
    OBVIOUS
  <1> USE DEF TerminalInv
  <1>1. ASSUME ~ pending, NEW ch PROVE ~ PastScreen(real, ch)
    <2>1. real.cursor \in Nat \X (0..(Width - 1)) /\ real.cursor[1] <= Height - 1
      BY <1>1, Sizes DEF RealTyped, Reals, Below
    <2>2. \A p \in Touched(real.cursor, ch, Width) : p \in Nat \X (0..(Width - 1))
          /\ p[1] <= real.cursor[1]
      BY <2>1, Sizes, CursorMoves
    <2>3. \A p \in Touched(real.cursor, ch, Width) : p \in (0..(Height - 1)) \X (0..(Width - 1))
      BY <2>1, <2>2, Sizes
    <2> QED
      BY <2>3 DEF PastScreen
  <1>2. CASE PutChar
    <2>1. CASE hosted
      <3>1. ASSUME game = NoGame, NEW ch PROVE ~ PastWindow(window, ch)
        <4>1. window.cursor \in Nat \X (0..(WinCols - 1)) /\ window.cursor[1] <= WinRows - 1
              /\ DOMAIN window.grid = (0..(WinRows - 1)) \X (0..(WinCols - 1))
          BY <3>1, Sizes DEF WindowTyped, OpenWindows, Positions, Grids
        <4>2. \A p \in Touched(window.cursor, ch, WinCols) :
                  p \in Nat \X (0..(WinCols - 1)) /\ p[1] <= window.cursor[1]
          BY <4>1, Sizes, CursorMoves
        <4>3. \A p \in Touched(window.cursor, ch, WinCols) : p \in DOMAIN window.grid
          BY <4>1, <4>2, Sizes
        <4> QED
          BY <4>3 DEF PastWindow
      <3> QED
        BY <1>2, <2>1, <3>1 DEF PutChar
    <2>2. CASE ~ hosted
      BY <1>1, <1>2, <2>2 DEF PutChar
    <2> QED
      BY <2>1, <2>2
  <1>3. CASE \E ch \in {"x", NL, BS} : OtherWrites(ch)
    <2>1. PICK ch \in {"x", NL, BS} : OtherWrites(ch)
      BY <1>3
    <2>2. pending
      BY <1>1, <2>1 DEF OtherWrites
    <2>3. calls' < calls
      BY <2>1 DEF OtherWrites, SessionTyped
    <2> QED
      BY <2>2, <2>3
  <1>4. CASE FinishPut \/ PrintEnds \/ (\E ch \in Letters : TypeLetter(ch)) \/ TypeBackspace
        \/ TypeEnter \/ \E area \in Areas : ProgramDraws(area)
    BY <1>4 DEF FinishPut, ProgramDraws, PrintEnds, TypeLetter, TypeBackspace, TypeEnter, consoleVars
  <1>5. CASE NoCommand \/ (\E text \in Outputs : CmdPrints(text)) \/ CmdClear \/ CmdDesktop
        \/ CmdDesktopFails
    BY <1>5 DEF NoCommand, CmdPrints, CmdClear, CmdDesktop, CmdDesktopFails, consoleVars
  <1>6. CASE DesktopEnds \/ CmdSnake \/ (\E d \in Dirs : Turn(d)) \/ Quit \/ Move \/ GameOver
        \/ LeaveGame
    BY <1>6 DEF DesktopEnds, CmdSnake, Turn, Quit, Move, GameOver, LeaveGame, consoleVars
  <1>7. CASE UNCHANGED terminalVars
    BY <1>7 DEF terminalVars, consoleVars
  <1> QED
    BY <1>2, <1>3, <1>4, <1>5, <1>6, <1>7 DEF TerminalNext

\* A character is stored past the end of the screen or of the window's buffer by
\* nobody but another program between the two halves of vga_putc, or the shell of
\* a window after snake has moved its cursor.
THEOREM WritesAreInside == TerminalSpec => WritesStayInside
  <1>1. TerminalInit => TerminalInv
    BY InitTerminal
  <1>2. TerminalInv /\ [TerminalNext]_terminalVars => TerminalInv'
    BY NextTerminal
  <1>3. TerminalInv /\ [TerminalNext]_terminalVars =>
            [overran' # overran => (pending /\ calls' < calls) \/ (hosted /\ game # NoGame)]_terminalVars
    BY StepStaysInside
  <1> QED
    BY <1>1, <1>2, <1>3, PTL DEF TerminalSpec, WritesStayInside

Board == ((Top - 1)..(Bottom + 1)) \X ((Left - 1)..(Right + 1))

LEMMA BoardFacts ==
    /\ Field \subseteq Board /\ Border \subseteq Board /\ Field \cap Border = {}
    /\ Board \subseteq Positions(Rows, Cols) /\ Board \subseteq Positions(Height, Width)
    /\ <<0, 0>> \notin Board /\ \A c : <<Rows - 1, c>> \notin Board
  <1>1. /\ Top \in Nat /\ Bottom \in Nat /\ Left \in Nat /\ Right \in Nat /\ Top <= Bottom
           /\ Left <= Right
        /\ 2 <= Top /\ Bottom + 2 < Rows /\ 1 <= Left /\ Right + 1 < Cols
    BY Bounds, TerminalAssumption
  <1>2. Field \subseteq Board
    BY <1>1 DEF Field, Board
  <1>3. Border \subseteq Board /\ Field \cap Border = {}
    BY DEF Border, Board
  <1>4. Board \subseteq Positions(Rows, Cols) /\ Board \subseteq Positions(Height, Width)
    BY <1>1, Sizes DEF Board, Positions
  <1>5. 0 \notin (Top - 1)..(Bottom + 1) /\ Rows - 1 \notin (Top - 1)..(Bottom + 1)
    BY <1>1, Sizes
  <1>6. <<0, 0>> \notin Board /\ \A c : <<Rows - 1, c>> \notin Board
    BY <1>5 DEF Board
  <1> QED
    BY <1>2, <1>3, <1>4, <1>6

Draws(picture, p, ch) == p \in DOMAIN picture /\ picture[p] = ch
Misses(picture, p) == p \notin DOMAIN picture

LEMMA EverywhereDraws ==
    ASSUME NEW cells, NEW ch, NEW p \in cells PROVE Draws(Everywhere(cells, ch), p, ch)
  BY DEF Everywhere, Draws

LEMMA EverywhereMisses ==
    ASSUME NEW cells, NEW ch, NEW p, p \notin cells PROVE Misses(Everywhere(cells, ch), p)
  BY DEF Everywhere, Misses

LEMMA OverAbove ==
    ASSUME NEW above, NEW below, NEW p, NEW ch, Draws(above, p, ch)
    PROVE Draws(Over(above, below), p, ch)
  BY DEF Over, Draws

LEMMA OverBelow ==
    ASSUME NEW above, NEW below, NEW p, NEW ch, Misses(above, p), Draws(below, p, ch)
    PROVE Draws(Over(above, below), p, ch)
  BY DEF Over, Draws, Misses

LEMMA OverMisses ==
    ASSUME NEW above, NEW below, NEW p, Misses(above, p), Misses(below, p)
    PROVE Misses(Over(above, below), p)
  BY DEF Over, Misses

LEMMA PutAtDraws ==
    ASSUME NEW k \in Nat, NEW r \in Reals(k), NEW picture, NEW p \in Board
    PROVE PutAt(r, picture).screen[p] = IF p \in DOMAIN picture THEN picture[p] ELSE r.screen[p]
  <1> DEFINE cells == {q \in DOMAIN picture : q[1] \in 0..(Rows - 1) /\ q[2] \in 0..(Cols - 1)}
             screen == [q \in DOMAIN r.screen |-> IF q \in cells THEN picture[q] ELSE r.screen[q]]
  <1>1. PutAt(r, picture) = [r EXCEPT !.screen = screen]
    BY DEF PutAt
  <1>2. p \in DOMAIN r.screen /\ p[1] \in 0..(Rows - 1) /\ p[2] \in 0..(Cols - 1)
    BY BoardFacts DEF Reals, Grids, Positions
  <1>3. screen[p] = IF p \in DOMAIN picture THEN picture[p] ELSE r.screen[p]
    BY <1>2
  <1> HIDE DEF screen
  <1> QED
    BY <1>1, <1>3 DEF Reals

LEMMA SnakeDraws ==
    ASSUME NEW b, b[1] \in Range(b), NEW p
    PROVE /\ p \in Range(b) => Draws(Snake(b), p, Snake(b)[p])
             /\ Snake(b)[p] = IF p = b[1] THEN "@" ELSE "o"
          /\ p \notin Range(b) => Misses(Snake(b), p)
  <1>1. CASE p = b[1]
    <2>1. p \in {b[1]}
      BY <1>1
    <2>2. Draws(Everywhere({b[1]}, "@"), p, "@")
      BY <2>1, EverywhereDraws
    <2>3. Draws(Snake(b), p, "@")
      BY <2>2, OverAbove DEF Snake
    <2> QED
      BY <1>1, <2>3 DEF Draws
  <1>2. CASE p # b[1]
    <2>1. Misses(Everywhere({b[1]}, "@"), p)
      BY <1>2, EverywhereMisses
    <2>2. CASE p \in Range(b)
      <3>1. Draws(Everywhere(Range(b), "o"), p, "o")
        BY <2>2, EverywhereDraws
      <3>2. Draws(Snake(b), p, "o")
        BY <2>1, <3>1, OverBelow DEF Snake
      <3> QED
        BY <1>2, <2>2, <3>2 DEF Draws
    <2>3. CASE p \notin Range(b)
      <3>1. Misses(Everywhere(Range(b), "o"), p)
        BY <2>3, EverywhereMisses
      <3>2. Misses(Snake(b), p)
        BY <2>1, <3>1, OverMisses DEF Snake
      <3> QED
        BY <2>3, <3>2
    <2> QED
      BY <2>2, <2>3
  <1> QED
    BY <1>1, <1>2

LEMMA ScoreMisses == ASSUME NEW alive, NEW p \in Board PROVE Misses(draw_score(alive), p)
  <1>1. p # <<0, 0>>
    BY BoardFacts
  <1>2. DOMAIN draw_score(alive) = {0} \X {0}
    BY DEF draw_score
  <1>3. p \notin {0} \X {0}
    BY <1>1
  <1> QED
    BY <1>2, <1>3 DEF Misses

LEMMA FirstPictureDraws ==
    ASSUME NEW g, GameSound(g), g.food \notin Range(g.body), NEW p \in Board
    PROVE /\ p = g.food => Draws(FirstPicture(g), p, "*")
          /\ p \in Range(g.body) => Draws(FirstPicture(g), p, Snake(g.body)[p])
          /\ p \in Border => Draws(FirstPicture(g), p, "#")
          /\ p \in Field \ Range(g.body) /\ p # g.food => Misses(FirstPicture(g), p)
  <1> DEFINE border == Everywhere(Border, "#")
             snake == Over(Snake(g.body), border)
             food == Over(Everywhere({g.food}, "*"), snake)
  <1>1. g.body[1] \in Range(g.body)
    BY RangeIs DEF GameSound, Games
  <1>2. Range(g.body) \subseteq Field /\ g.food \in Field
    BY RangeIs DEF GameSound, Games
  <1>3. Misses(draw_score(TRUE), p)
    BY ScoreMisses
  <1>4. FirstPicture(g) = Over(draw_score(TRUE), food)
    BY DEF FirstPicture
  <1>5. \A ch : Draws(food, p, ch) => Draws(FirstPicture(g), p, ch)
    BY <1>3, <1>4, OverBelow
  <1>6. Misses(food, p) => Misses(FirstPicture(g), p)
    BY <1>3, <1>4, OverMisses
  <1> HIDE DEF food
  <1>7. CASE p = g.food
    <2>1. p \in {g.food} /\ p \notin Range(g.body) /\ p \notin Border
      BY <1>2, <1>7, BoardFacts
    <2>2. Draws(food, p, "*")
      BY <2>1, EverywhereDraws, OverAbove DEF food
    <2> QED
      BY <1>5, <1>7, <2>1, <2>2
  <1>8. CASE p # g.food
    <2>1. Misses(Everywhere({g.food}, "*"), p)
      BY <1>8, EverywhereMisses
    <2>2. \A ch : Draws(snake, p, ch) => Draws(food, p, ch)
      BY <2>1, OverBelow DEF food
    <2>3. Misses(snake, p) => Misses(food, p)
      BY <2>1, OverMisses DEF food
    <2> HIDE DEF snake
    <2>4. CASE p \in Range(g.body)
      <3>1. Draws(Snake(g.body), p, Snake(g.body)[p])
        BY <1>1, <2>4, SnakeDraws
      <3>2. Draws(snake, p, Snake(g.body)[p])
        BY <3>1, OverAbove DEF snake
      <3>3. p \notin Border
        BY <1>2, <2>4, BoardFacts
      <3> QED
        BY <1>5, <1>8, <2>2, <2>4, <3>2, <3>3
    <2>5. CASE p \notin Range(g.body)
      <3>1. Misses(Snake(g.body), p)
        BY <1>1, <2>5, SnakeDraws
      <3>2. p \in Border => Draws(snake, p, "#")
        BY <3>1, EverywhereDraws, OverBelow DEF snake
      <3>3. p \notin Border => Misses(snake, p)
        BY <3>1, EverywhereMisses, OverMisses DEF snake
      <3>4. p \in Field => p \notin Border
        BY BoardFacts
      <3> QED
        BY <1>5, <1>6, <1>8, <2>2, <2>3, <2>5, <3>2, <3>3, <3>4
    <2> QED
      BY <2>4, <2>5
  <1> QED
    BY <1>7, <1>8

LEMMA StepPictureDraws ==
    ASSUME NEW g, NEW n, NEW p \in Board
    PROVE LET tail == g.body[Len(g.body)] IN
          /\ p = n.body[1] => Draws(StepPicture(g, n), p, "@")
          /\ p = n.body[2] /\ p # n.body[1] => Draws(StepPicture(g, n), p, "o")
          /\ p \notin {n.body[1], n.body[2]} =>
                /\ Eats(g) /\ p = n.food => Draws(StepPicture(g, n), p, "*")
                /\ ~ Eats(g) /\ p = tail => Draws(StepPicture(g, n), p, " ")
                /\ p # (IF Eats(g) THEN n.food ELSE tail) => Misses(StepPicture(g, n), p)
  <1> DEFINE tail == g.body[Len(g.body)]
             head == Over(Everywhere({n.body[1]}, "@"), Everywhere({n.body[2]}, "o"))
             change == IF Eats(g) THEN Everywhere({n.food}, "*") ELSE Everywhere({tail}, " ")
             both == Over(head, change)
  <1> HIDE DEF tail
  <1>1. Misses(draw_score(TRUE), p)
    BY ScoreMisses
  <1>2. StepPicture(g, n) = Over(draw_score(TRUE), both)
    BY DEF StepPicture, tail
  <1>3. \A ch : Draws(both, p, ch) => Draws(StepPicture(g, n), p, ch)
    BY <1>1, <1>2, OverBelow
  <1>4. Misses(both, p) => Misses(StepPicture(g, n), p)
    BY <1>1, <1>2, OverMisses
  <1> HIDE DEF both
  <1>5. CASE p = n.body[1]
    <2>1. p \in {n.body[1]}
      BY <1>5
    <2>2. Draws(both, p, "@")
      BY <2>1, EverywhereDraws, OverAbove DEF both
    <2> QED
      BY <1>3, <1>5, <2>2
  <1>6. CASE p # n.body[1]
    <2>1. Misses(Everywhere({n.body[1]}, "@"), p)
      BY <1>6, EverywhereMisses
    <2>2. CASE p = n.body[2]
      <3>1. p \in {n.body[2]}
        BY <2>2
      <3>2. Draws(head, p, "o")
        BY <2>1, <3>1, EverywhereDraws, OverBelow
      <3>3. Draws(both, p, "o")
        BY <3>2, OverAbove DEF both
      <3> QED
        BY <1>3, <1>6, <2>2, <3>3
    <2>3. CASE p # n.body[2]
      <3>1. Misses(head, p)
        BY <2>1, <2>3, EverywhereMisses, OverMisses
      <3> HIDE DEF head
      <3>2. CASE Eats(g)
        <4>1. change = Everywhere({n.food}, "*")
          BY <3>2
        <4> HIDE DEF change
        <4>2. p = n.food => Draws(both, p, "*")
          BY <3>1, <4>1, EverywhereDraws, OverBelow DEF both
        <4>3. p # n.food => Misses(both, p)
          BY <3>1, <4>1, EverywhereMisses, OverMisses DEF both
        <4> QED
          BY <1>3, <1>4, <1>6, <2>3, <3>2, <4>2, <4>3
      <3>3. CASE ~ Eats(g)
        <4>1. change = Everywhere({tail}, " ")
          BY <3>3
        <4> HIDE DEF change
        <4>2. p = tail => Draws(both, p, " ")
          BY <3>1, <4>1, EverywhereDraws, OverBelow DEF both
        <4>3. p # tail => Misses(both, p)
          <5>1. p # tail => p \notin {tail}
            OBVIOUS
          <5>2. p # tail => Misses(change, p)
            BY <4>1, <5>1, EverywhereMisses
          <5> QED
            BY <3>1, <5>2, OverMisses DEF both
        <4>4. tail = g.body[Len(g.body)] /\ (IF Eats(g) THEN n.food ELSE tail) = tail
          BY <3>3 DEF tail
        <4>5. p = tail => Draws(StepPicture(g, n), p, " ")
          BY <1>3, <4>2
        <4>6. p # tail => Misses(StepPicture(g, n), p)
          BY <1>4, <4>3
        <4> QED
          BY <1>6, <2>3, <3>3, <4>4, <4>5, <4>6
      <3> QED
        BY <3>2, <3>3
    <2> QED
      BY <2>2, <2>3
  <1> QED
    BY <1>5, <1>6

----------------------------------------------------------------------------
(* A game and what is drawn of it                                          *)

\* A game on the screen: what is drawn of it.
DrawnOn(screen, body, food) ==
    /\ \A p \in Range(body) : screen[p] = Snake(body)[p]
    /\ \A p \in FreeCells(body) \ {food} : screen[p] = " "
    /\ food \notin Range(body) => screen[food] = "*" \/ (Len(body) = MaxLen /\ screen[food] = " ")
    /\ \A p \in Border : screen[p] = "#"

\* From the command on, the help that is still to be printed ends on the last row.
HelpFits ==
    mode = "print" => /\ ~ pending /\ Printable(out) /\ real.cursor[1] = Rows - 1
                      /\ real.cursor[2] + Len(out) = Len(Controls)

\* While the game is played on an undisturbed screen, it is drawn there, and the help
\* that is still to be printed does not reach it.
DrawnInv ==
    Playing /\ mode # "over" /\ ~ hosted /\ ~ disturbed =>
        DrawnOn(real.screen, game.body, game.food) /\ (gui => real.initialized) /\ HelpFits

LEMMA BlankOnBoard ==
    ASSUME NEW k \in Nat, NEW r \in Reals(k), NEW p \in Board
    PROVE RealCleared(r, gui).screen[p] = " "
  <1> DEFINE at == <<0, 0>>
  <1>1. CASE gui
    <2>1. RealCleared(r, gui) = [screen |-> Blank(FbRows, FbCols), buffer |-> Blank(FbRows, FbCols),
                                 cursor |-> at, initialized |-> TRUE, switched |-> FALSE,
                                 painted |-> FALSE]
      BY <1>1 DEF RealCleared
    <2> HIDE DEF at
    <2>2. p \in (0..(FbRows - 1)) \X (0..(FbCols - 1))
      BY <1>1, BoardFacts DEF Positions, Height, Width
    <2>3. Blank(FbRows, FbCols)[p] = " "
      BY <2>2 DEF Blank
    <2>4. RealCleared(r, gui).screen = Blank(FbRows, FbCols)
      BY <2>1
    <2> QED
      BY <2>3, <2>4
  <1>2. CASE ~ gui
    <2>1. RealCleared(r, gui) = [r EXCEPT !.screen = Blank(Rows, Cols), !.cursor = at]
      BY <1>2 DEF RealCleared
    <2> HIDE DEF at
    <2>2. p \in (0..(Rows - 1)) \X (0..(Cols - 1))
      BY BoardFacts DEF Positions
    <2>3. Blank(Rows, Cols)[p] = " "
      BY <2>2 DEF Blank
    <2> QED
      BY <2>1, <2>3 DEF Reals
  <1> QED
    BY <1>1, <1>2

LEMMA EndsOfBody == ASSUME NEW l \in Nat, 3 <= l PROVE 1 \in 1..l /\ l \in 1..l /\ l # 1
  OBVIOUS

LEMMA GameCells ==
    ASSUME NEW g, GameSound(g)
    PROVE /\ Range(g.body) = {g.body[i] : i \in 1..Len(g.body)}
          /\ Range(g.body) \subseteq Field /\ g.food \in Field
          /\ g.body[1] \in Range(g.body) /\ Len(g.body) \in Nat /\ Len(g.body) >= 3
          /\ g.body[Len(g.body)] \in Range(g.body) /\ g.body[Len(g.body)] # g.body[1]
          /\ \A i \in 1..Len(g.body) : g.body[i] = g.body[Len(g.body)] => i = Len(g.body)
  <1>1. g.body \in Seq(Field) /\ g.food \in Field /\ Len(g.body) \in 3..MaxLen /\ MaxLen \in Nat
    BY Bounds DEF GameSound, Games
  <1>2. Range(g.body) = {g.body[i] : i \in 1..Len(g.body)} /\ Range(g.body) \subseteq Field
    BY <1>1, RangeIs
  <1>3. \A i, j \in 1..Len(g.body) : g.body[i] = g.body[j] => i = j
    BY DEF GameSound, Path
  <1>4. 1 \in 1..Len(g.body) /\ Len(g.body) \in 1..Len(g.body) /\ Len(g.body) # 1
    <2>1. Len(g.body) \in Nat /\ 3 <= Len(g.body)
      BY <1>1
    <2> QED
      BY <2>1, EndsOfBody
  <1> QED
    BY <1>1, <1>2, <1>3, <1>4

LEMMA FirstDrawn ==
    ASSUME NEW g, GameSound(g), g.food \notin Range(g.body), NEW k \in Nat, NEW r \in Reals(k),
           \A p \in Board : r.screen[p] = " "
    PROVE DrawnOn(PutAt(r, FirstPicture(g)).screen, g.body, g.food)
  <1>1. ASSUME NEW p \in Board, NEW ch, Draws(FirstPicture(g), p, ch)
        PROVE PutAt(r, FirstPicture(g)).screen[p] = ch
    BY <1>1, PutAtDraws DEF Draws
  <1>2. ASSUME NEW p \in Board, Misses(FirstPicture(g), p)
        PROVE PutAt(r, FirstPicture(g)).screen[p] = " "
    BY <1>2, PutAtDraws DEF Misses
  <1>3. Range(g.body) \subseteq Board /\ g.food \in Board /\ g.food \in Field
        /\ Border \subseteq Board /\ Field \subseteq Board
    BY GameCells, BoardFacts
  <1> PICK screen : screen = PutAt(r, FirstPicture(g)).screen
    OBVIOUS
  <1>4. ASSUME NEW p \in Range(g.body) PROVE screen[p] = Snake(g.body)[p]
    BY <1>1, <1>3, FirstPictureDraws
  <1>5. screen[g.food] = "*"
    BY <1>1, <1>3, FirstPictureDraws
  <1>6. ASSUME NEW p \in Border PROVE screen[p] = "#"
    BY <1>1, <1>3, FirstPictureDraws
  <1>7. ASSUME NEW p \in FreeCells(g.body) \ {g.food} PROVE screen[p] = " "
    <2>1. p \in Field \ Range(g.body) /\ p # g.food /\ p \in Board
      BY <1>3 DEF FreeCells
    <2> QED
      BY <1>2, <2>1, FirstPictureDraws
  <1> QED
    BY <1>4, <1>5, <1>6, <1>7 DEF DrawnOn

LEMMA StepDrawn ==
    ASSUME NEW g, GameSound(g), ~ Dies(g), NEW k \in Nat, NEW r \in Reals(k),
           DrawnOn(r.screen, g.body, g.food),
           NEW food \in IF Eats(g) THEN FreeCells(<<new_head(g)>> \o g.body) ELSE {g.food}
    PROVE DrawnOn(PutAt(r, StepPicture(g, Stepped(g, food))).screen, Stepped(g, food).body, Stepped(g, food).food)
  <1> DEFINE b == g.body
             h == new_head(g)
             tail == b[Len(b)]
  <1> PICK n : n = Stepped(g, food)
    OBVIOUS
  <1> PICK c : c = n.body
    OBVIOUS
  <1> PICK screen : screen = PutAt(r, StepPicture(g, n)).screen
    OBVIOUS
  <1> PICK old : old = r.screen
    OBVIOUS
  <1>1. /\ h \in Field /\ h \notin Range(b)
        /\ n.food = IF Eats(g) THEN food ELSE g.food
        /\ c \in Seq(Field) /\ Len(c) = (IF Eats(g) THEN Len(b) + 1 ELSE Len(b))
        /\ c[1] = h /\ \A i \in 2..Len(c) : c[i] = b[i - 1]
        /\ Eats(g) => c = <<h>> \o b
    BY StepFacts
  <1>2. GameSound(n)
    BY StepSound
  <1>3. /\ Range(b) = {b[i] : i \in 1..Len(b)} /\ Range(b) \subseteq Field /\ g.food \in Field
        /\ b[1] \in Range(b) /\ Len(b) \in Nat /\ Len(b) >= 3
        /\ tail \in Range(b) /\ tail # b[1] /\ \A i \in 1..Len(b) : b[i] = tail => i = Len(b)
    BY GameCells
  <1>4. /\ Range(c) = {c[i] : i \in 1..Len(c)} /\ Range(c) \subseteq Field /\ n.food \in Field
           /\ c[1] \in Range(c)
    <2>1. Range(n.body) \subseteq Field /\ n.food \in Field /\ n.body[1] \in Range(n.body)
      BY <1>2, GameCells
    <2>2. Range(c) = {c[i] : i \in 1..Len(c)}
      BY <1>1, RangeIs
    <2> QED
      BY <2>1, <2>2
  <1>5. (g.food \in Range(b) => Len(b) = MaxLen) /\ (Eats(g) <=> h = g.food /\ Len(b) < MaxLen)
    BY DEF GameSound, Eats
  <1>6. /\ \A p \in Range(b) : old[p] = Snake(b)[p]
        /\ \A p \in FreeCells(b) \ {g.food} : old[p] = " "
        /\ g.food \notin Range(b) => old[g.food] = "*" \/ (Len(b) = MaxLen /\ old[g.food] = " ")
        /\ \A p \in Border : old[p] = "#"
    BY DEF DrawnOn
  <1>7. ASSUME NEW p \in Range(b) PROVE Snake(b)[p] = IF p = b[1] THEN "@" ELSE "o"
    BY <1>3, SnakeDraws
  <1>8. ASSUME NEW p \in Range(c) PROVE Snake(c)[p] = IF p = h THEN "@" ELSE "o"
    <2>1. c[1] \in Range(c) /\ c[1] = h
      BY <1>1, <1>4
    <2>2. Snake(c)[p] = IF p = c[1] THEN "@" ELSE "o"
      BY <2>1, SnakeDraws
    <2> QED
      BY <2>1, <2>2
  <1>9. Field \subseteq Board /\ Border \subseteq Board /\ Field \cap Border = {}
    BY BoardFacts
  <1>10. ASSUME NEW p \in Board, NEW ch, Draws(StepPicture(g, n), p, ch) PROVE screen[p] = ch
    BY <1>10, PutAtDraws DEF Draws
  <1>11. ASSUME NEW p \in Board, Misses(StepPicture(g, n), p) PROVE screen[p] = old[p]
    BY <1>11, PutAtDraws DEF Misses
  <1>12. c[2] = b[1] /\ n.body = c
    <2>1. 2 \in 2..Len(c) /\ 2 - 1 = 1
      BY <1>1, <1>3
    <2>2. \A i \in 2..Len(c) : c[i] = b[i - 1]
      BY <1>1
    <2> QED
      BY <2>1, <2>2
  <1>13. ASSUME NEW p \in Board
         PROVE /\ p = h => screen[p] = "@"
               /\ p = b[1] /\ p # h => screen[p] = "o"
               /\ p \notin {h, b[1]} =>
                     /\ Eats(g) /\ p = n.food => screen[p] = "*"
                     /\ ~ Eats(g) /\ p = tail => screen[p] = " "
                     /\ p # (IF Eats(g) THEN n.food ELSE tail) => screen[p] = old[p]
    BY ZenonT(60), <1>1, <1>10, <1>11, <1>12, StepPictureDraws
  <1> HIDE DEF h, b, tail
  <1>14. \A p \in Border : screen[p] = "#"
    <2> TAKE p \in Border
    <2>1. p \in Board /\ p \notin Field
      BY <1>9
    <2>2. p # h /\ p # b[1] /\ p # tail /\ p # n.food
      BY <1>1, <1>3, <1>4, <2>1
    <2>3. screen[p] = old[p]
      BY <1>13, <2>1, <2>2
    <2> QED
      BY <1>6, <2>3
  <1>15. CASE Eats(g)
    <2>1. Len(c) = Len(b) + 1
      BY <1>1, <1>15
    <2>2. Range(c) = {h} \cup Range(b)
      <3>1. ASSUME NEW p \in Range(c) PROVE p \in {h} \cup Range(b)
        <4>1. PICK i \in 1..Len(c) : p = c[i]
          BY <1>4
        <4>2. i = 1 \/ (i \in 2..Len(c) /\ i - 1 \in 1..Len(b))
          BY <1>3, <2>1
        <4> QED
          BY <1>1, <1>3, <4>1, <4>2
      <3>2. ASSUME NEW p \in Range(b) PROVE p \in Range(c)
        <4>1. PICK i \in 1..Len(b) : p = b[i]
          BY <1>3
        <4>2. i + 1 \in 2..Len(c) /\ (i + 1) - 1 = i /\ i + 1 \in 1..Len(c)
          BY <1>3, <2>1
        <4>3. c[i + 1] = p
          BY <1>1, <4>1, <4>2
        <4> QED
          BY <1>4, <4>2, <4>3
      <3> QED
        BY <1>1, <1>4, <3>1, <3>2
    <2>3. n.food \in Field /\ n.food \notin Range(c)
      <3>1. food \in FreeCells(c)
        BY <1>1, <1>15 DEF h, b
      <3> QED
        BY <1>1, <1>15, <3>1 DEF FreeCells
    <2>4. ASSUME NEW p \in Range(c) PROVE screen[p] = Snake(c)[p]
      <3>1. p \in Board /\ p # n.food /\ (p = h \/ p \in Range(b))
        BY <1>4, <1>9, <2>2, <2>3
      <3>2. CASE p = h
        BY ZenonT(60), <1>8, <1>13, <3>1, <3>2
      <3>3. CASE p # h /\ p = b[1]
        <4>1. screen[p] = "o"
          BY <1>13, <3>1, <3>3
        <4>2. Snake(c)[p] = "o"
          BY <1>8, <3>3
        <4> QED
          BY <4>1, <4>2
      <3>4. CASE p # h /\ p # b[1]
        <4>1. screen[p] = old[p]
          BY <1>13, <1>15, <3>1, <3>4
        <4>2. old[p] = "o"
          BY <1>6, <1>7, <3>1, <3>4
        <4> QED
          BY <1>8, <3>4, <4>1, <4>2
      <3> QED
        BY <3>2, <3>3, <3>4
    <2>5. screen[n.food] = "*"
      <3>1. n.food \in Board /\ n.food # h /\ n.food # b[1]
        BY <1>3, <1>9, <2>2, <2>3
      <3> QED
        BY <1>13, <1>15, <3>1
    <2>6. ASSUME NEW p \in FreeCells(c) \ {n.food} PROVE screen[p] = " "
      <3>1. p \in Field /\ p \notin Range(c) /\ p # n.food
        BY DEF FreeCells
      <3>2. p # h /\ p \notin Range(b) /\ p # b[1] /\ p \in Board
        BY <1>3, <1>9, <2>2, <3>1
      <3>3. screen[p] = old[p]
        BY <1>13, <1>15, <3>1, <3>2
      <3>4. p \in FreeCells(b) \ {g.food}
        BY <1>5, <1>15, <3>1, <3>2 DEF FreeCells
      <3> QED
        BY <1>6, <3>3, <3>4
    <2>7. DrawnOn(screen, c, n.food)
      BY <1>14, <2>4, <2>5, <2>6 DEF DrawnOn
    <2> QED
      BY <2>7
  <1>16. CASE ~ Eats(g)
    <2>1. Len(c) = Len(b) /\ n.food = g.food
      BY <1>1, <1>16
    <2>2. ASSUME NEW p PROVE p \in Range(c) <=> p = h \/ (p \in Range(b) /\ p # tail)
      <3>1. ASSUME p \in Range(c) PROVE p = h \/ (p \in Range(b) /\ p # tail)
        <4>1. PICK i \in 1..Len(c) : p = c[i]
          BY <1>4, <3>1
        <4>2. i = 1 \/ (i \in 2..Len(c) /\ i - 1 \in 1..Len(b) /\ i - 1 # Len(b))
          BY <1>3, <2>1
        <4> QED
          BY <1>1, <1>3, <4>1, <4>2
      <3>2. ASSUME p \in Range(b), p # tail PROVE p \in Range(c)
        <4>1. PICK i \in 1..Len(b) : p = b[i]
          BY <1>3, <3>2
        <4>2. i # Len(b)
          BY <3>2, <4>1 DEF tail
        <4>3. i + 1 \in 2..Len(c) /\ (i + 1) - 1 = i /\ i + 1 \in 1..Len(c)
          BY <1>3, <2>1, <4>2
        <4>4. c[i + 1] = p
          BY <1>1, <4>1, <4>3
        <4> QED
          BY <1>4, <4>3, <4>4
      <3>3. p = h => p \in Range(c)
        BY <1>1, <1>4
      <3> QED
        BY <3>1, <3>2, <3>3
    <2>3. tail # h /\ tail # b[1] /\ tail \in Field
      BY <1>1, <1>3
    <2>4. ASSUME NEW p \in Range(c) PROVE screen[p] = Snake(c)[p]
      <3>1. p \in Board /\ (p = h \/ p \in Range(b)) /\ p # tail
        BY <1>4, <1>9, <2>2, <2>3
      <3>2. CASE p = h
        BY ZenonT(60), <1>8, <1>13, <3>1, <3>2
      <3>3. CASE p # h /\ p = b[1]
        <4>1. screen[p] = "o"
          BY <1>13, <3>1, <3>3
        <4>2. Snake(c)[p] = "o"
          BY <1>8, <3>3
        <4> QED
          BY <4>1, <4>2
      <3>4. CASE p # h /\ p # b[1]
        <4>1. screen[p] = old[p]
          BY <1>13, <1>16, <3>1, <3>4
        <4>2. old[p] = "o"
          BY <1>6, <1>7, <3>1, <3>4
        <4> QED
          BY <1>8, <3>4, <4>1, <4>2
      <3> QED
        BY <3>2, <3>3, <3>4
    <2>5. screen[tail] = " "
      BY <1>9, <1>13, <1>16, <2>3
    <2>6. ASSUME NEW p \in Field, p \notin Range(b), p # h PROVE screen[p] = old[p]
      <3>1. p \in Board /\ p # b[1] /\ p # tail
        BY <1>3, <1>9, <2>6
      <3> QED
        BY <1>13, <1>16, <2>6, <3>1
    <2>7. ASSUME NEW p \in FreeCells(c) \ {n.food} PROVE screen[p] = " "
      <3>1. p \in Field /\ p \notin Range(c) /\ p # g.food
        BY <2>1 DEF FreeCells
      <3>2. CASE p = tail
        BY <2>5, <3>2
      <3>3. CASE p # tail
        <4>1. p \notin Range(b) /\ p # h
          BY <2>2, <3>1, <3>3
        <4>2. p \in FreeCells(b) \ {g.food}
          BY <3>1, <4>1 DEF FreeCells
        <4> QED
          BY <1>6, <2>6, <3>1, <4>1, <4>2
      <3> QED
        BY <3>2, <3>3
    <2>8. ASSUME n.food \notin Range(c)
          PROVE screen[n.food] = "*" \/ (Len(c) = MaxLen /\ screen[n.food] = " ")
      <3>1. CASE g.food \in Range(b)
        <4>1. g.food = tail /\ Len(c) = MaxLen
          BY <1>5, <2>1, <2>2, <2>8, <3>1
        <4> QED
          BY <2>1, <2>5, <4>1
      <3>2. CASE g.food \notin Range(b)
        <4>1. g.food # h
          BY <2>1, <2>2, <2>8
        <4>2. screen[g.food] = old[g.food]
          BY <1>3, <2>6, <3>2, <4>1
        <4> QED
          BY <1>6, <2>1, <3>2, <4>2
      <3> QED
        BY <3>1, <3>2
    <2>9. DrawnOn(screen, c, n.food)
      BY <1>14, <2>4, <2>7, <2>8 DEF DrawnOn
    <2> QED
      BY <2>9
  <1> QED
    BY <1>15, <1>16

LEMMA PlaceDraws ==
    ASSUME NEW k \in Nat, NEW r \in Reals(k), gui => r.initialized, NEW ch \in Glyphs,
           ch \notin {NL, BS},
           r.cursor[1] = Rows - 1, r.cursor[2] + 1 < Cols
    PROVE /\ \A p \in Board : Place(r, ch).screen[p] = r.screen[p]
          /\ Place(r, ch).initialized = r.initialized
          /\ Place(r, ch).cursor[1] = Rows - 1 /\ Place(r, ch).cursor[2] = r.cursor[2] + 1
  <1>1. Place(r, ch) = [r EXCEPT !.screen = Stored(r.screen, r.cursor, ch, Width),
                                 !.buffer = IF gui THEN Stored(r.buffer, r.cursor, ch, Width) ELSE r.buffer,
                                 !.cursor = Moved(r.cursor, ch, Width)]
    BY DEF Place
  <1>2. r.cursor[2] \in Nat /\ r.cursor[2] + 1 < Width /\ r.cursor = <<r.cursor[1], r.cursor[2]>>
    BY Sizes DEF Reals
  <1>3. Moved(r.cursor, ch, Width)[1] = Rows - 1 /\ Moved(r.cursor, ch, Width)[2] = r.cursor[2] + 1
    <2>1. Moved(r.cursor, ch, Width) = Forward(r.cursor, Width)
      BY DEF Moved
    <2>2. Forward(r.cursor, Width) = <<r.cursor[1], r.cursor[2] + 1>>
      BY <1>2, Sizes DEF Forward
    <2> QED
      BY <2>1, <2>2
  <1>4. ASSUME NEW p \in Board PROVE Stored(r.screen, r.cursor, ch, Width)[p] = r.screen[p]
    <2>1. Touched(r.cursor, ch, Width) = {r.cursor}
      BY DEF Touched
    <2>2. r.cursor \notin Board
      BY <1>2, BoardFacts
    <2>3. p \in DOMAIN r.screen
      BY BoardFacts DEF Reals, Grids
    <2> QED
      BY <2>1, <2>2, <2>3 DEF Stored
  <1>5. /\ Place(r, ch).screen = Stored(r.screen, r.cursor, ch, Width)
        /\ Place(r, ch).cursor = Moved(r.cursor, ch, Width)
        /\ Place(r, ch).initialized = r.initialized
    BY <1>1 DEF Reals
  <1> QED
    BY <1>3, <1>4, <1>5

LEMMA PrintableTail ==
    ASSUME NEW text \in Texts, Printable(text), text # <<>>
    PROVE /\ Head(text) \in Characters /\ Head(text) \notin {NL, BS}
          /\ Tail(text) \in Texts /\ Printable(Tail(text)) /\ Len(Tail(text)) = Len(text) - 1
               /\ Len(text) \in Nat
  <1>1. Len(text) \in Nat /\ Len(text) >= 1 /\ Head(text) = text[1]
    BY DEF Texts
  <1>2. Head(text) \in Characters /\ Head(text) \notin {NL, BS}
    BY <1>1 DEF Texts, Printable
  <1>3. /\ Tail(text) \in Texts /\ Len(Tail(text)) = Len(text) - 1
        /\ \A i \in 1..(Len(text) - 1) : Tail(text)[i] = text[i + 1]
    BY <1>1 DEF Texts
  <1>4. Printable(Tail(text))
    BY <1>1, <1>3 DEF Printable
  <1> QED
    BY <1>1, <1>2, <1>3, <1>4

LEMMA DrawnDepends ==
    ASSUME NEW old, NEW new, NEW g, GameSound(g), DrawnOn(old, g.body, g.food),
           \A p \in Board : new[p] = old[p]
    PROVE DrawnOn(new, g.body, g.food)
  <1>1. Range(g.body) \subseteq Board /\ g.food \in Board /\ Border \subseteq Board
        /\ FreeCells(g.body) \subseteq Board
    BY GameCells, BoardFacts DEF FreeCells
  <1> QED
    BY <1>1 DEF DrawnOn

LEMMA NextDrawn == TerminalInv /\ DrawnInv /\ [TerminalNext]_terminalVars /\ TerminalInv' => DrawnInv'
  <1> SUFFICES ASSUME TerminalInv, DrawnInv, [TerminalNext]_terminalVars, TerminalInv',
                      Playing', mode' # "over", ~ hosted', ~ disturbed'
               PROVE /\ DrawnOn(real'.screen, game'.body, game'.food) /\ (gui' => real'.initialized)
                     /\ HelpFits'
    BY DEF DrawnInv
  <1>0. GameSound(game') /\ Below \in Nat /\ real \in Reals(Below) /\ (~ pending => real \in Reals(0))
    BY DEF TerminalInv, GameInv, Below, RealTyped, Playing
  <1>1. CASE PutChar
    <2>1. Playing /\ mode = "print" /\ ~ hosted /\ ~ disturbed /\ game' = game /\ UNCHANGED gui
      BY <1>1 DEF PutChar, Playing
    <2>2. DrawnOn(real.screen, game.body, game.food) /\ (gui => real.initialized) /\ HelpFits
      BY <2>1 DEF DrawnInv
    <2>3. out \in Texts /\ Printable(out) /\ out # <<>> /\ ~ pending /\ real.cursor[1] = Rows - 1
          /\ real.cursor[2] + Len(out) = Len(Controls)
      BY <1>1, <2>1, <2>2 DEF PutChar, HelpFits, TerminalInv, SessionTyped
    <2> PICK ch : ch = Head(out)
      OBVIOUS
    <2>4. /\ ch \in Characters /\ ch \notin {NL, BS}
          /\ Printable(Tail(out)) /\ Len(Tail(out)) = Len(out) - 1 /\ Len(out) \in Nat
      BY <2>3, PrintableTail
    <2>5. Len(out) >= 1 /\ Len(Controls) < Cols /\ Len(Controls) \in Nat /\ real.cursor[2] \in Nat
      <3>1. Len(out) >= 1
        BY <2>3 DEF Texts
      <3>2. Len(Controls) < Cols /\ Len(Controls) \in Nat
        BY TerminalAssumption, TextFacts DEF Texts
      <3>3. real.cursor[2] \in Nat
        BY <1>0, <2>3, Sizes DEF Reals
      <3> QED
        BY <3>1, <3>2, <3>3
    <2>6. real.cursor[2] + 1 < Cols
      BY SMTT(30), <2>3, <2>4, <2>5, Sizes
    <2>7. real' = Place(real, ch) /\ pending' = BelowEnd(real'.cursor[1], Height) /\ out' = Tail(out)
      BY <1>1, <2>1 DEF PutChar
    <2>8. /\ \A p \in Board : real'.screen[p] = real.screen[p]
          /\ real'.initialized = real.initialized
          /\ real'.cursor[1] = Rows - 1 /\ real'.cursor[2] = real.cursor[2] + 1
      BY ZenonT(60), <1>0, <2>2, <2>3, <2>4, <2>6, <2>7, PlaceDraws DEF Glyphs
    <2>9. ~ pending'
      <3>1. ~ BelowEnd(Rows - 1, Height)
        BY Sizes DEF BelowEnd
      <3> QED
        BY <2>7, <2>8, <3>1
    <2>10. real'.cursor[2] + Len(out') = Len(Controls)
      BY SMTT(30), <2>3, <2>4, <2>5, <2>7, <2>8
    <2>11. DrawnOn(real'.screen, game'.body, game'.food)
      BY <1>0, <2>1, <2>2, <2>8, DrawnDepends
    <2> QED
      BY <2>1, <2>2, <2>4, <2>7, <2>8, <2>9, <2>10, <2>11 DEF HelpFits
  <1>2. CASE FinishPut
    <2>1. Playing /\ mode = "print" /\ ~ hosted /\ ~ disturbed /\ pending
      BY <1>2 DEF FinishPut, Playing, TerminalInv, SessionTyped
    <2> QED
      BY <2>1 DEF DrawnInv, HelpFits
  <1>3. CASE \E ch \in {"x", NL, BS} : OtherWrites(ch)
    BY <1>3 DEF OtherWrites
  <1>13. CASE \E area \in Areas : ProgramDraws(area)
    BY <1>13 DEF ProgramDraws
  <1>4. ASSUME UNCHANGED consoleVars, game'.body = game.body, game'.food = game.food,
               Playing, mode # "over", ~ hosted, ~ disturbed, mode' = "play"
        PROVE DrawnOn(real'.screen, game'.body, game'.food) /\ (gui' => real'.initialized)
              /\ HelpFits'
    BY <1>4 DEF consoleVars, DrawnInv, HelpFits
  <1>5. CASE PrintEnds
    <2>1. Playing /\ mode # "over" /\ ~ hosted /\ ~ disturbed /\ mode' = "play"
          /\ UNCHANGED <<consoleVars, game>>
      BY <1>5 DEF PrintEnds, Playing, TerminalInv, GameInv
    <2> QED
      BY <1>4, <2>1
  <1>6. CASE (\E d \in Dirs : Turn(d)) \/ Quit
    <2>1. mode = "play" /\ mode' = "play" /\ UNCHANGED <<consoleVars, hosted, disturbed>>
      BY <1>6 DEF Turn, Quit
    <2>2. GameSound(game)
      BY <2>1 DEF TerminalInv, GameInv, Playing
    <2>3. game'.body = game.body /\ game'.food = game.food
      BY <1>6, <2>2 DEF Turn, Quit, Turned, GameSound, Games
    <2> QED
      BY <1>4, <2>1, <2>3 DEF Playing
  <1>7. CASE (\E ch \in Letters : TypeLetter(ch)) \/ TypeBackspace \/ TypeEnter
    BY <1>7 DEF TypeLetter, TypeBackspace, TypeEnter, vga_write, Playing
  <1>8. CASE NoCommand \/ (\E text \in Outputs : CmdPrints(text)) \/ CmdClear \/ CmdDesktop
        \/ CmdDesktopFails
             \/ DesktopEnds \/ LeaveGame
    <2>1. \E text : PromptAfter(text)
      BY <1>8 DEF NoCommand, CmdPrints, CmdClear, CmdDesktop, CmdDesktopFails, DesktopEnds, LeaveGame
    <2> QED
      BY <2>1 DEF PromptAfter, vga_write, Playing
  <1>9. CASE CmdSnake
    <2>1. ~ hosted /\ ~ pending /\ UNCHANGED <<gui, pending>>
      BY <1>9 DEF CmdSnake, Command, TerminalInv, SessionTyped
    <2> PICK food \in FreeCells(NewGame.body) :
            LET g == [NewGame EXCEPT !.food = food]
            IN game' = g /\ vga_set_cursor_pos(PutAt(RealCleared(real, gui), FirstPicture(g)), window, LastRow)
      BY <1>9, <2>1 DEF CmdSnake
    <2> PICK r : r = RealCleared(real, gui)
      OBVIOUS
    <2>2. r \in Reals(0) /\ \A p \in Board : r.screen[p] = " "
      BY <1>0, <2>1, ClearTyped, BlankOnBoard
    <2>3. gui => r.initialized
      BY DEF RealCleared
    <2>4. real' = [PutAt(r, FirstPicture(game')) EXCEPT !.cursor = LastRow]
      BY <2>1 DEF vga_set_cursor_pos
    <2>5. PutAt(r, FirstPicture(game')) \in Reals(0)
          /\ PutAt(r, FirstPicture(game')).initialized = r.initialized
      BY <2>2, PutAtTyped, FirstPictureTyped
    <2>6. /\ real'.screen = PutAt(r, FirstPicture(game')).screen /\ real'.initialized = r.initialized
          /\ real'.cursor = LastRow
      BY <2>4, <2>5 DEF Reals
    <2>7. game'.food \notin Range(game'.body)
      BY DEF FreeCells, NewGame, NoGame
    <2>8. DrawnOn(real'.screen, game'.body, game'.food)
      BY <1>0, <2>2, <2>6, <2>7, FirstDrawn
    <2>9. HelpFits'
      <3>1. out' = Controls /\ real'.cursor[1] = Rows - 1 /\ real'.cursor[2] = 0 /\ ~ pending'
        BY <1>9, <2>1, <2>6 DEF CmdSnake, vga_write, LastRow
      <3>2. Printable(Controls) /\ Len(Controls) \in Nat
        BY TerminalAssumption, TextFacts DEF Texts
      <3> QED
        BY <3>1, <3>2 DEF HelpFits
    <2> QED
      BY <2>1, <2>3, <2>6, <2>8, <2>9
  <1>10. CASE Move
    <2>1. mode = "play" /\ mode' = "play" /\ ~ hosted /\ ~ disturbed /\ UNCHANGED gui /\ ~ Dies(game)
      BY <1>10 DEF Move
    <2>2. GameSound(game) /\ DrawnOn(real.screen, game.body, game.food) /\ (gui => real.initialized)
      BY <2>1 DEF TerminalInv, GameInv, Playing, DrawnInv
    <2> PICK food \in IF Eats(game) THEN FreeCells(<<new_head(game)>> \o game.body) ELSE {game.food} :
            game' = Stepped(game, food) /\ real' = PutAt(real, StepPicture(game, game'))
      BY <1>10 DEF Move
    <2>3. DrawnOn(real'.screen, game'.body, game'.food)
      BY <1>0, <2>1, <2>2, StepDrawn
    <2>4. real'.initialized = real.initialized
      BY <1>0, PutAtTyped, StepPictureTyped
    <2> QED
      BY <2>1, <2>2, <2>3, <2>4 DEF HelpFits
  <1>11. CASE GameOver
    BY <1>11 DEF GameOver
  <1>12. CASE UNCHANGED terminalVars
    BY <1>12 DEF terminalVars, sessionVars, consoleVars, DrawnInv, HelpFits, Playing
  <1> QED
    BY <1>1, <1>2, <1>3, <1>5, <1>6, <1>7, <1>8, <1>9, <1>10, <1>11, <1>12, <1>13
       DEF TerminalNext

\* What draw_border, the first picture and the steps of snake_run have drawn is the
\* game, on the text screen and in graphics mode, until another program writes to
\* the screen or draws on it.
THEOREM GameStaysDrawn == TerminalSpec => []GameIsDrawn
  <1>1. TerminalInit => TerminalInv /\ DrawnInv
    <2>1. TerminalInit => ~ Playing
      BY DEF TerminalInit, Playing
    <2> QED
      BY <2>1, InitTerminal DEF DrawnInv
  <1>2. TerminalInv /\ DrawnInv /\ [TerminalNext]_terminalVars => (TerminalInv /\ DrawnInv)'
    BY NextTerminal, NextDrawn
  <1>3. DrawnInv => GameIsDrawn
    BY DEF DrawnInv, GameIsDrawn, DrawnOn, Playing
  <1> QED
    BY <1>1, <1>2, <1>3, PTL DEF TerminalSpec

----------------------------------------------------------------------------
(* Cells by number                                                         *)

LEMMA TimesGrows == ASSUME NEW r \in Nat, NEW s \in Nat, NEW cols \in Nat, r < s
    PROVE (r + 1) * cols <= s * cols
  <1> PICK k \in Nat : s = r + 1 + k
    <2>1. s - r - 1 \in Nat /\ s = r + 1 + (s - r - 1)
      OBVIOUS
    <2> QED
      BY <2>1
  <1>1. s * cols = (r + 1) * cols + k * cols
    OBVIOUS
  <1>2. k * cols \in Nat /\ (r + 1) * cols \in Nat
    OBVIOUS
  <1> QED
    BY <1>1, <1>2

LEMMA NextRow == ASSUME NEW r \in Nat, NEW cols \in Nat PROVE r * cols \in Nat
    /\ (r + 1) * cols = r * cols + cols
  OBVIOUS

\* The cells of a grid are numbered row by row.
LEMMA IndexIs ==
    ASSUME NEW cols \in Nat \ {0}, NEW r \in Nat, NEW c \in 0..(cols - 1)
    PROVE /\ Index(<<r, c>>, cols) = r * cols + c /\ Index(<<r, c>>, cols) \in Nat
          /\ Index(<<r + 1, 0>>, cols) = r * cols + cols
          /\ Index(<<r + 1, c>>, cols) = Index(<<r, c>>, cols) + cols
  BY NextRow DEF Index

LEMMA IndexOrder ==
    ASSUME NEW cols \in Nat \ {0}, NEW p \in Nat \X (0..(cols - 1)), NEW q \in Nat \X (0..(cols - 1))
    PROVE /\ Index(p, cols) \in Nat
          /\ p[1] < q[1] => Index(p, cols) < Index(q, cols)
          /\ Index(p, cols) = Index(q, cols) => p = q
  <1> PICK r \in Nat, c \in 0..(cols - 1) : p = <<r, c>>
    OBVIOUS
  <1> PICK s \in Nat, d \in 0..(cols - 1) : q = <<s, d>>
    OBVIOUS
  <1>1. Index(p, cols) = r * cols + c /\ Index(p, cols) \in Nat
    BY IndexIs
  <1>2. Index(q, cols) = s * cols + d /\ Index(q, cols) \in Nat
    BY IndexIs
  <1>3. r < s => r * cols + cols <= s * cols
    BY TimesGrows, NextRow
  <1>4. s < r => s * cols + cols <= r * cols
    BY TimesGrows, NextRow
  <1>5. r * cols \in Nat /\ s * cols \in Nat
    BY NextRow
  <1>6. r < s => Index(p, cols) < Index(q, cols)
    BY <1>1, <1>2, <1>3, <1>5
  <1>7. s < r => Index(q, cols) < Index(p, cols)
    BY <1>1, <1>2, <1>4, <1>5
  <1>8. r = s /\ Index(p, cols) = Index(q, cols) => c = d
    BY <1>1, <1>2, <1>5
  <1>9. r < s \/ s < r \/ r = s
    OBVIOUS
  <1> QED
    BY <1>1, <1>2, <1>6, <1>7, <1>8, <1>9

LEMMA DownIndex ==
    ASSUME NEW cols \in Nat \ {0}, NEW at \in Nat \X (0..(cols - 1))
    PROVE <<at[1] + 1, 0>> \in Nat \X (0..(cols - 1))
          /\ Index(<<at[1] + 1, 0>>, cols) > Index(at, cols)
  <1>1. <<at[1] + 1, 0>> \in Nat \X (0..(cols - 1))
    OBVIOUS
  <1> PICK q \in Nat \X (0..(cols - 1)) : q = <<at[1] + 1, 0>>
    BY <1>1
  <1>2. Index(at, cols) < Index(q, cols)
    BY IndexOrder
  <1>3. Index(at, cols) \in Nat /\ Index(q, cols) \in Nat
    BY IndexOrder
  <1> QED
    BY <1>1, <1>2, <1>3

LEMMA ForwardIndex ==
    ASSUME NEW cols \in Nat \ {0}, NEW at \in Nat \X (0..(cols - 1))
    PROVE /\ Index(Forward(at, cols), cols) = Index(at, cols) + 1
          /\ Forward(at, cols)[1] # at[1] => Forward(at, cols) = <<at[1] + 1, 0>>
  <1> PICK r \in Nat, c \in 0..(cols - 1) : at = <<r, c>>
    OBVIOUS
  <1>1. r * cols \in Nat /\ Index(at, cols) = r * cols + c
        /\ Index(<<r + 1, 0>>, cols) = r * cols + cols
    BY IndexIs, NextRow
  <1>2. at[1] = r /\ at[2] = c
    OBVIOUS
  <1>3. CASE c + 1 >= cols
    <2>1. Forward(at, cols) = <<r + 1, 0>>
      BY <1>2, <1>3 DEF Forward
    <2>2. c + 1 = cols
      BY <1>3
    <2>3. Index(<<r + 1, 0>>, cols) = Index(at, cols) + 1
      BY <1>1, <2>2
    <2> QED
      BY <1>2, <2>1, <2>3
  <1>4. CASE c + 1 < cols
    <2>1. Forward(at, cols) = <<r, c + 1>>
      BY <1>2, <1>4 DEF Forward
    <2>2. c + 1 \in 0..(cols - 1)
      BY <1>4
    <2>3. Index(<<r, c + 1>>, cols) = r * cols + (c + 1)
      BY <2>2, IndexIs
    <2>4. Index(<<r, c + 1>>, cols) = Index(at, cols) + 1
      BY <1>1, <2>3
    <2>5. Forward(at, cols)[1] = at[1]
      BY <1>2, <2>1
    <2> QED
      BY <2>1, <2>4, <2>5
  <1> QED
    BY <1>3, <1>4

LEMMA BackIndex ==
    ASSUME NEW cols \in Nat \ {0}, NEW at \in Nat \X (0..(cols - 1))
    PROVE /\ Back(at, cols) \in Nat \X (0..(cols - 1)) /\ Back(at, cols)[1] <= at[1]
          /\ Index(at, cols) > 0 => Index(Back(at, cols), cols) = Index(at, cols) - 1
          /\ Index(at, cols) = 0 => Back(at, cols) = at
  <1> PICK r \in Nat, c \in 0..(cols - 1) : at = <<r, c>>
    OBVIOUS
  <1>1. r * cols \in Nat /\ Index(at, cols) = r * cols + c
    BY IndexIs, NextRow
  <1>2. at[1] = r /\ at[2] = c
    OBVIOUS
  <1>3. CASE c > 0
    <2>1. Back(at, cols) = <<r, c - 1>> /\ c - 1 \in 0..(cols - 1)
      BY <1>2, <1>3 DEF Back
    <2>2. Index(<<r, c - 1>>, cols) = r * cols + (c - 1)
      BY <2>1, IndexIs
    <2>3. Index(<<r, c - 1>>, cols) = Index(at, cols) - 1 /\ Index(at, cols) # 0
      BY <1>1, <1>3, <2>2
    <2>4. Back(at, cols) \in Nat \X (0..(cols - 1)) /\ Back(at, cols)[1] <= at[1]
      BY <1>2, <2>1
    <2> QED
      BY <2>1, <2>3, <2>4
  <1>4. CASE c = 0 /\ r > 0
    <2>1. Back(at, cols) = <<r - 1, cols - 1>> /\ r - 1 \in Nat /\ cols - 1 \in 0..(cols - 1)
      BY <1>2, <1>4 DEF Back
    <2>2. Index(<<r - 1, cols - 1>>, cols) = (r - 1) * cols + (cols - 1)
      BY <2>1, IndexIs
    <2>3. r * cols = (r - 1) * cols + cols /\ (r - 1) * cols \in Nat
      <3> PICK k \in Nat : r = k + 1 /\ r - 1 = k
        BY <2>1
      <3> QED
        BY NextRow
    <2>4. Index(<<r - 1, cols - 1>>, cols) = Index(at, cols) - 1 /\ Index(at, cols) # 0
      BY <1>1, <1>4, <2>2, <2>3
    <2>5. Back(at, cols) \in Nat \X (0..(cols - 1)) /\ Back(at, cols)[1] <= at[1]
      BY <1>2, <2>1
    <2> QED
      BY <2>1, <2>4, <2>5
  <1>5. CASE c = 0 /\ r = 0
    <2>1. Back(at, cols) = at
      BY <1>2, <1>5 DEF Back
    <2>2. Index(at, cols) = 0
      BY <1>1, <1>5
    <2>3. at[1] \in Nat
      OBVIOUS
    <2> QED
      BY <2>1, <2>2, <2>3
  <1> QED
    BY <1>3, <1>4, <1>5

----------------------------------------------------------------------------
(* Printing a text that a line ends                                        *)

\* From a cell on, the grid is blank.
BlankFrom(grid, a, cols) == \A p \in DOMAIN grid : Index(p, cols) >= a => grid[p] = " "

\* The first n characters of the target end in front of a cell.
Shows(grid, a, cols, n, target) ==
    /\ a >= n
    /\ \A p \in DOMAIN grid : Index(p, cols) - a + n + 1 \in 1..n =>
           grid[p] = target[Index(p, cols) - a + n + 1]

\* The characters of the target after the first n end the text.
Follows(text, target, n) == \A j \in 1..Len(target) : j > n => text[j - n] = target[j]

\* When the text has been printed, the target stands in front of the cursor.
Echo(grid, a, cols, text, target) ==
    /\ Follows(text, target, Len(target) - Len(text))
    /\ Shows(grid, a, cols, Len(target) - Len(text), target)

\* The same, of a character that is taken back.
Rubbing(grid, a, cols, text, target) ==
    text = <<BS>> /\ a >= 1 /\ Shows(grid, a - 1, cols, Len(target), target)

\* Between two characters the target is on its way to stand in front of the cursor,
\* if that is due, and all behind the cursor is blank.
Written(grid, a, cols, due, text, target) ==
    BlankFrom(grid, a, cols) /\ (due => Echo(grid, a, cols, text, target))

\* The same, or a backspace is still to be printed.
Kept(grid, a, cols, due, text, target) ==
    /\ BlankFrom(grid, a, cols)
    /\ due => Echo(grid, a, cols, text, target) \/ Rubbing(grid, a, cols, text, target)

LEMMA WrittenIsKept ==
    ASSUME NEW grid, NEW a, NEW cols, NEW due, NEW text, NEW target,
           Written(grid, a, cols, due, text, target)
    PROVE Kept(grid, a, cols, due, text, target)
  BY DEF Written, Kept

LEMMA TextParts ==
    ASSUME NEW text \in Texts, text # <<>>
    PROVE /\ Len(text) \in Nat /\ Len(text) >= 1 /\ Head(text) = text[1] /\ Head(text) \in Characters
          /\ Tail(text) \in Texts /\ Len(Tail(text)) = Len(text) - 1
          /\ \A i \in 1..(Len(text) - 1) : Tail(text)[i] = text[i + 1]
  BY DEF Texts

\* A character that starts a printable target's end is printable.
LEMMA NextIsPrintable ==
    ASSUME NEW text \in Texts, text # <<>>, NEW target \in Texts, Printable(target),
           Follows(text, target, Len(target) - Len(text)), Head(text) \in {NL, BS}
    PROVE Len(target) < Len(text)
  <1> SUFFICES ASSUME Len(target) >= Len(text) PROVE FALSE
    BY TextParts DEF Texts
  <1> PICK n \in Nat : n = Len(target) - Len(text)
    BY TextParts DEF Texts
  <1>1. n + 1 \in 1..Len(target) /\ n + 1 > n /\ (n + 1) - n = 1
    BY TextParts DEF Texts
  <1>2. text[1] = target[n + 1]
    BY <1>1 DEF Follows
  <1> QED
    BY <1>1, <1>2, TextParts DEF Printable

LEMMA FollowsTail ==
    ASSUME NEW text \in Texts, text # <<>>, NEW target \in Texts, NEW n \in Int,
           n = Len(target) - Len(text),
           Follows(text, target, n)
    PROVE Follows(Tail(text), target, n + 1) /\ n + 1 = Len(target) - Len(Tail(text))
  <1>1. Len(text) \in Nat /\ Len(target) \in Nat /\ Len(Tail(text)) = Len(text) - 1
    BY TextParts DEF Texts
  <1>2. ASSUME NEW j \in 1..Len(target), j > n + 1 PROVE Tail(text)[j - (n + 1)] = target[j]
    <2>1. j - (n + 1) \in 1..(Len(text) - 1) /\ (j - (n + 1)) + 1 = j - n /\ j > n
      BY <1>1, <1>2
    <2>2. Tail(text)[j - (n + 1)] = text[j - n]
      BY <2>1, TextParts
    <2> QED
      BY <2>1, <2>2 DEF Follows
  <1> QED
    BY <1>1, <1>2 DEF Follows

\* Nothing need be shown yet.
LEMMA ShowsNothing ==
    ASSUME NEW grid, NEW a \in Nat, NEW cols, NEW n \in Int, n <= 0, NEW target
    PROVE Shows(grid, a, cols, n, target)
  BY DEF Shows

LEMMA GridCells ==
    ASSUME NEW rows \in Nat \ {0}, NEW cols \in Nat \ {0}, NEW grid \in Grids(rows, cols),
           NEW p \in DOMAIN grid
    PROVE p \in Positions(rows, cols) /\ p \in Nat \X (0..(cols - 1)) /\ Index(p, cols) \in Nat
  <1>1. p \in Positions(rows, cols)
    BY DEF Grids
  <1>2. p \in Nat \X (0..(cols - 1))
    BY <1>1 DEF Positions
  <1> QED
    BY <1>1, <1>2, IndexOrder

LEMMA StoredAt ==
    ASSUME NEW grid, NEW at, NEW ch, NEW cols, NEW p \in DOMAIN grid
    PROVE /\ p \in DOMAIN Stored(grid, at, ch, cols)
             /\ DOMAIN Stored(grid, at, ch, cols) = DOMAIN grid
          /\ p \notin Touched(at, ch, cols) => Stored(grid, at, ch, cols)[p] = grid[p]
          /\ p \in Touched(at, ch, cols) => Stored(grid, at, ch, cols)[p] = Glyph(ch)
  BY DEF Stored

LEMMA StoredDomain ==
    ASSUME NEW grid, NEW at, NEW ch, NEW cols PROVE DOMAIN Stored(grid, at, ch, cols) = DOMAIN grid
  BY DEF Stored

\* One character of a text, on a grid that does not scroll.
LEMMA PutWrites ==
    ASSUME NEW rows \in Nat \ {0}, NEW cols \in Nat \ {0}, NEW grid \in Grids(rows, cols),
           NEW at \in Positions(rows, cols), NEW text \in Texts, text # <<>>,
           NEW target \in Texts, Printable(target), NEW due,
           Kept(grid, Index(at, cols), cols, due, text, target)
    PROVE /\ Written(Stored(grid, at, Head(text), cols), Index(Moved(at, Head(text), cols), cols), cols, due,
                     Tail(text), target)
          /\ Moved(at, Head(text), cols)[1] >= rows => Moved(at, Head(text), cols) = <<rows, 0>>
  <1> PICK ch : ch = Head(text)
    OBVIOUS
  <1> DEFINE a == Index(at, cols)
             after == Stored(grid, at, ch, cols)
             on == Moved(at, ch, cols)
             b == Index(on, cols)
             n == Len(target) - Len(text)
  <1> SUFFICES Written(after, b, cols, due, Tail(text), target) /\ (on[1] >= rows => on = <<rows, 0>>)
    OBVIOUS
  <1>1. at \in Nat \X (0..(cols - 1)) /\ at[1] \in Nat /\ at[1] < rows /\ a \in Nat
    <2>1. at \in Nat \X (0..(cols - 1)) /\ at[1] \in Nat /\ at[1] < rows
      BY DEF Positions
    <2> QED
      BY <2>1, IndexOrder
  <1>2. \A p \in DOMAIN grid : Index(p, cols) \in Nat /\ (Index(p, cols) = a => p = at)
    BY <1>1, GridCells, IndexOrder
  <1>3. on \in Nat \X (0..(cols - 1)) /\ b \in Nat
    <2>1. on \in Nat \X (0..(cols - 1))
      BY <1>1, CursorMoves
    <2> QED
      BY <2>1, IndexOrder
  <1>4. n \in Int /\ Len(target) \in Nat /\ Len(text) \in Nat /\ Len(text) >= 1
    BY TextParts DEF Texts
  <1>5. BlankFrom(grid, a, cols)
        /\ (due => Echo(grid, a, cols, text, target) \/ Rubbing(grid, a, cols, text, target))
    BY DEF Kept
  <1>6. n + 1 = Len(target) - Len(Tail(text))
    BY <1>4, TextParts
  <1>7. ASSUME ch \in {NL, BS}, Echo(grid, a, cols, text, target)
        PROVE Echo(after, b, cols, Tail(text), target)
    <2>1. Follows(text, target, n)
      BY <1>7 DEF Echo
    <2>2. Len(target) < Len(text)
      BY <1>7, <2>1, NextIsPrintable
    <2>3. Follows(Tail(text), target, n + 1)
      BY <1>4, <2>1, FollowsTail
    <2>4. n + 1 <= 0
      BY <1>4, <2>2
    <2> HIDE DEF n, b, after
    <2>5. Shows(after, b, cols, n + 1, target)
      BY <1>3, <1>4, <2>4, ShowsNothing
    <2> QED
      BY <1>6, <2>3, <2>5 DEF Echo
  <1>11. /\ DOMAIN after = DOMAIN grid
         /\ \A p \in DOMAIN grid : p \notin Touched(at, ch, cols) => after[p] = grid[p]
         /\ \A p \in DOMAIN grid : p \in Touched(at, ch, cols) => after[p] = Glyph(ch)
    BY StoredDomain, StoredAt
  <1> HIDE DEF on, after, b
  <1>8. CASE ch = NL
    <2>1. on = <<at[1] + 1, 0>> /\ Touched(at, ch, cols) = {}
      BY <1>8 DEF Moved, Touched, NL, BS, on
    <2>2. b > a
      BY <1>1, <2>1, DownIndex DEF b
    <2>3. BlankFrom(after, b, cols)
      <3> SUFFICES ASSUME NEW p \in DOMAIN grid, Index(p, cols) >= b PROVE after[p] = " "
        BY <1>11 DEF BlankFrom
      <3>1. after[p] = grid[p]
        BY <1>11, <2>1
      <3>2. Index(p, cols) >= a
        BY <1>1, <1>2, <1>3, <2>2
      <3> QED
        BY <1>5, <3>1, <3>2 DEF BlankFrom
    <2>4. on[1] >= rows => on = <<rows, 0>>
      BY <1>1, <2>1
    <2>5. ~ Rubbing(grid, a, cols, text, target)
      <3>1. text = <<BS>> => Head(text) = BS
        OBVIOUS
      <3> QED
        BY <1>8, <3>1 DEF Rubbing, NL, BS
    <2>6. Written(after, b, cols, due, Tail(text), target)
      BY <1>5, <1>7, <1>8, <2>3, <2>5 DEF Written
    <2> QED
      BY <2>4, <2>6
  <1>9. CASE ch = BS
    <2>1. on = Back(at, cols) /\ Touched(at, ch, cols) = {on} /\ Glyph(ch) = " "
      BY <1>9 DEF Moved, Touched, NL, BS, Glyph, on
    <2>2. on[1] < rows /\ (a > 0 => b = a - 1) /\ (a = 0 => b = a)
      <3>1. on[1] <= at[1] /\ (a > 0 => b = a - 1) /\ (a = 0 => on = at)
        BY <1>1, <2>1, BackIndex DEF b
      <3>2. on[1] < rows
        BY <1>1, <1>3, <3>1
      <3>3. a = 0 => b = a
        BY <3>1 DEF b
      <3> QED
        BY <3>1, <3>2, <3>3
    <2>3. \A p \in DOMAIN grid : Index(p, cols) = b => p = on
      BY <1>3, GridCells, IndexOrder DEF b
    <2>4. ASSUME NEW p \in DOMAIN grid, p # on PROVE after[p] = grid[p]
      <3>1. p \notin Touched(at, ch, cols)
        BY <2>1, <2>4
      <3> QED
        BY <1>11, <3>1
    <2>5. BlankFrom(after, b, cols)
      <3> SUFFICES ASSUME NEW p \in DOMAIN grid, Index(p, cols) >= b PROVE after[p] = " "
        BY <1>11 DEF BlankFrom
      <3>1. CASE p = on
        BY <1>11, <2>1, <3>1
      <3>2. CASE p # on
        <4>1. Index(p, cols) # b
          BY <2>3, <3>2
        <4>2. Index(p, cols) >= a
          BY <1>1, <1>2, <1>3, <2>2, <4>1
        <4> QED
          BY <1>5, <2>4, <3>2, <4>2 DEF BlankFrom
      <3> QED
        BY <3>1, <3>2
    <2>6. ASSUME Rubbing(grid, a, cols, text, target) PROVE Echo(after, b, cols, Tail(text), target)
      <3>1. Tail(text) = <<>> /\ Len(Tail(text)) = 0
        BY <2>6 DEF Rubbing
      <3>2. b = a - 1 /\ Shows(grid, b, cols, Len(target), target)
        BY <1>1, <2>2, <2>6 DEF Rubbing
      <3> PICK m \in Nat : m = Len(target)
        BY <1>4
      <3>3. b >= m
        BY <3>2 DEF Shows
      <3>4. ASSUME NEW p \in DOMAIN grid, Index(p, cols) - b + m + 1 \in 1..m
            PROVE after[p] = target[Index(p, cols) - b + m + 1]
        <4>1. Index(p, cols) \in Nat
          BY <1>2
        <4>5. Index(p, cols) < b
          BY <1>3, <3>4, <4>1
        <4>2. p # on
          BY <1>3, <4>5 DEF b
        <4>3. after[p] = grid[p]
          BY <2>4, <4>2
        <4>4. grid[p] = target[Index(p, cols) - b + m + 1]
          BY <3>2, <3>4 DEF Shows
        <4> QED
          BY <4>3, <4>4
      <3>5. Shows(after, b, cols, m, target)
        BY <3>3, <3>4, <1>11 DEF Shows
      <3>6. Follows(Tail(text), target, m)
        BY DEF Follows
      <3>7. Len(target) - Len(Tail(text)) = m
        <4>1. m - 0 = m /\ Len(target) = m
          OBVIOUS
        <4> QED
          BY <3>1, <4>1
      <3> QED
        BY <3>5, <3>6, <3>7 DEF Echo
    <2>7. Written(after, b, cols, due, Tail(text), target)
      BY <1>5, <1>7, <1>9, <2>5, <2>6 DEF Written
    <2>8. ~ (on[1] >= rows)
      BY <1>3, <2>2
    <2> QED
      BY <2>7, <2>8
  <1>10. CASE ch \notin {NL, BS}
    <2>1. on = Forward(at, cols) /\ Touched(at, ch, cols) = {at} /\ Glyph(ch) = ch
      BY <1>10 DEF Moved, Touched, Glyph, on
    <2>2. b = a + 1 /\ (on[1] # at[1] => on = <<at[1] + 1, 0>>)
      BY <1>1, <2>1, ForwardIndex DEF b
    <2>3. on[1] >= rows => on = <<rows, 0>>
      <3>1. on[1] >= rows => on[1] # at[1]
        BY <1>1, <1>3
      <3>2. on = <<at[1] + 1, 0>> => on[1] = at[1] + 1
        <4> PICK r : r = at[1] + 1
          OBVIOUS
        <4> QED
          OBVIOUS
      <3>3. on[1] >= rows => at[1] + 1 = rows
        BY <1>1, <2>2, <3>1, <3>2
      <3> QED
        BY <2>2, <3>1, <3>3
    <2>4. ASSUME NEW p \in DOMAIN grid, p # at PROVE after[p] = grid[p]
      <3>1. p \notin Touched(at, ch, cols)
        BY <2>1, <2>4
      <3> QED
        BY <1>11, <3>1
    <2>5. BlankFrom(after, b, cols)
      <3> SUFFICES ASSUME NEW p \in DOMAIN grid, Index(p, cols) >= b PROVE after[p] = " "
        BY <1>11 DEF BlankFrom
      <3>1. p # at /\ Index(p, cols) >= a
        BY <1>1, <1>2, <2>2
      <3> QED
        BY <1>5, <2>4, <3>1 DEF BlankFrom
    <2>6. ASSUME Echo(grid, a, cols, text, target) PROVE Echo(after, b, cols, Tail(text), target)
      <3>1. Follows(text, target, n) /\ Shows(grid, a, cols, n, target)
        BY <2>6 DEF Echo
      <3>2. Follows(Tail(text), target, n + 1)
        BY <1>4, <3>1, FollowsTail
      <3>3. a >= n
        BY <3>1 DEF Shows
      <3>4. ASSUME NEW p \in DOMAIN grid, Index(p, cols) - b + (n + 1) + 1 \in 1..(n + 1)
            PROVE after[p] = target[Index(p, cols) - b + (n + 1) + 1]
        <4>1. Index(p, cols) - b + (n + 1) + 1 = Index(p, cols) - a + n + 1
          BY <1>1, <1>2, <1>4, <2>2
        <4>2. CASE p = at
          <5>4. Index(p, cols) = a
            BY <4>2
          <5>5. Index(p, cols) - b + (n + 1) + 1 = n + 1
            BY SMTT(30), <1>1, <1>4, <2>2, <5>4
          <5>1. Index(p, cols) - b + (n + 1) + 1 = n + 1 /\ n + 1 \in 1..Len(target) /\ n + 1 > n
                /\ (n + 1) - n = 1
            BY <1>4, <3>4, <5>5
          <5>2. text[1] = target[n + 1]
            BY <3>1, <5>1 DEF Follows
          <5>3. after[p] = ch /\ ch = text[1]
            BY <1>11, <2>1, <4>2, TextParts
          <5> QED
            BY <5>1, <5>2, <5>3
        <4>3. CASE p # at
          <5>1. Index(p, cols) # a
            BY <1>2, <4>3
          <5>2. Index(p, cols) - a + n + 1 \in 1..n
            BY SMTT(30), <1>1, <1>2, <1>4, <3>4, <4>1, <5>1
          <5>3. grid[p] = target[Index(p, cols) - a + n + 1]
            BY <3>1, <5>2 DEF Shows
          <5> QED
            BY <2>4, <4>1, <4>3, <5>3
        <4> QED
          BY <4>2, <4>3
      <3>5. b >= n + 1
        BY <1>1, <1>4, <2>2, <3>3
      <3>6. Shows(after, b, cols, n + 1, target)
        BY <3>4, <3>5, <1>11 DEF Shows
      <3> QED
        BY <1>6, <3>2, <3>6 DEF Echo
    <2>7. ~ Rubbing(grid, a, cols, text, target)
      <3>1. text = <<BS>> => Head(text) = BS
        OBVIOUS
      <3> QED
        BY <1>10, <3>1 DEF Rubbing
    <2>8. Written(after, b, cols, due, Tail(text), target)
      BY <1>5, <2>5, <2>6, <2>7 DEF Written
    <2> QED
      BY <2>3, <2>8
  <1> QED
    BY <1>8, <1>9, <1>10

\* Scrolling takes every cell one row up, and the last is blank.
LEMMA ScrollWrites ==
    ASSUME NEW rows \in Nat \ {0}, NEW cols \in Nat \ {0}, NEW grid \in Grids(rows, cols),
           NEW text \in Texts, NEW target \in Texts, Len(target) <= (rows - 1) * cols, NEW due,
           Written(grid, Index(<<rows, 0>>, cols), cols, due, text, target)
    PROVE Written(Scrolled(grid, rows), Index(<<rows - 1, 0>>, cols), cols, due, text, target)
  <1> DEFINE a == Index(<<rows, 0>>, cols)
             b == Index(<<rows - 1, 0>>, cols)
             up == Scrolled(grid, rows)
  <1>1. a = b + cols /\ b = (rows - 1) * cols /\ a \in Nat /\ b \in Nat
    <2> PICK k \in Nat : rows - 1 = k /\ rows = k + 1
      <3>1. rows - 1 \in Nat /\ rows = (rows - 1) + 1
        OBVIOUS
      <3> QED
        BY <3>1
    <2>1. k * cols \in Nat
      BY NextRow
    <2>2. 0 \in 0..(cols - 1)
      OBVIOUS
    <2>3. Index(<<k, 0>>, cols) = k * cols /\ Index(<<k + 1, 0>>, cols) = k * cols + cols
      BY <2>1, <2>2, IndexIs
    <2> QED
      BY <2>1, <2>3
  <1>2. DOMAIN up = DOMAIN grid
    BY DEF Scrolled
  <1>3. ASSUME NEW p \in DOMAIN grid, p[1] < rows - 1
        PROVE \E q \in DOMAIN grid : up[p] = grid[q] /\ Index(q, cols) = Index(p, cols) + cols
    <2> PICK r \in 0..(rows - 1), c \in 0..(cols - 1) : p = <<r, c>>
      BY DEF Grids, Positions
    <2>1. r < rows - 1 /\ r \in Nat
      BY <1>3
    <2>2. <<r + 1, c>> \in DOMAIN grid
      BY <2>1 DEF Grids, Positions
    <2>3. up[p] = grid[<<r + 1, c>>]
      BY <2>1 DEF Scrolled
    <2>4. Index(<<r + 1, c>>, cols) = Index(p, cols) + cols
      BY <2>1, IndexIs
    <2> QED
      BY <2>2, <2>3, <2>4
  <1>4. ASSUME NEW p \in DOMAIN grid, ~ (p[1] < rows - 1) PROVE up[p] = " "
    BY <1>4 DEF Scrolled
  <1>5. ASSUME NEW p \in DOMAIN grid PROVE Index(p, cols) \in Nat
        /\ (p[1] < rows - 1 <=> Index(p, cols) < b)
    <2>1. p \in Nat \X (0..(cols - 1)) /\ Index(p, cols) \in Nat /\ p[1] \in Nat
      BY GridCells
    <2> PICK q \in Nat \X (0..(cols - 1)) : q = <<rows - 1, 0>> /\ q[1] = rows - 1 /\ q[2] = 0
      <3>1. <<rows - 1, 0>> \in Nat \X (0..(cols - 1))
        OBVIOUS
      <3> QED
        BY <3>1
    <2>2. p[1] < rows - 1 => Index(p, cols) < b
      BY <2>1, IndexOrder
    <2>3. rows - 1 < p[1] => b < Index(p, cols)
      BY <2>1, IndexOrder
    <2>4. p[1] = rows - 1 => Index(p, cols) >= b
      <3>1. p[2] \in Nat
        BY <2>1
      <3> QED
        BY <1>1, <2>1, <3>1 DEF Index
    <2> QED
      BY <1>1, <2>1, <2>2, <2>3, <2>4
  <1>6. BlankFrom(grid, a, cols) /\ (due => Echo(grid, a, cols, text, target))
    BY DEF Written
  <1> HIDE DEF a, b, up
  <1>7. BlankFrom(up, b, cols)
    <2> SUFFICES ASSUME NEW p \in DOMAIN grid, Index(p, cols) >= b PROVE up[p] = " "
      BY <1>2 DEF BlankFrom
    <2>1. ~ (p[1] < rows - 1)
      BY <1>1, <1>5
    <2> QED
      BY <1>4, <2>1
  <1>8. Len(target) \in Nat /\ Len(text) \in Nat /\ Len(target) <= b
    BY <1>1 DEF Texts
  <1>9. ASSUME Echo(grid, a, cols, text, target) PROVE Echo(up, b, cols, text, target)
    <2> PICK n \in Int : n = Len(target) - Len(text)
      BY <1>8
    <2>1. Follows(text, target, n) /\ Shows(grid, a, cols, n, target)
      BY <1>9 DEF Echo
    <2>2. n <= b
      BY <1>1, <1>8
    <2>3. ASSUME NEW p \in DOMAIN grid, Index(p, cols) - b + n + 1 \in 1..n
          PROVE up[p] = target[Index(p, cols) - b + n + 1]
      <3>1. Index(p, cols) \in Nat
        BY <1>5
      <3>2. Index(p, cols) < b
        BY <1>1, <2>3, <3>1
      <3> PICK q \in DOMAIN grid : up[p] = grid[q] /\ Index(q, cols) = Index(p, cols) + cols
        BY <1>3, <1>5, <3>2
      <3>3. Index(q, cols) - a + n + 1 = Index(p, cols) - b + n + 1
        <4> PICK i \in Nat, j \in Nat : i = Index(p, cols) /\ j = Index(q, cols)
          BY <1>5
        <4>1. j - a + n + 1 = i - b + n + 1
          BY <1>1
        <4> QED
          BY <4>1
      <3>4. grid[q] = target[Index(q, cols) - a + n + 1]
        BY <2>1, <2>3, <3>3 DEF Shows
      <3> QED
        BY <3>3, <3>4
    <2>4. Shows(up, b, cols, n, target)
      BY <1>2, <2>2, <2>3 DEF Shows
    <2> QED
      BY <2>1, <2>4 DEF Echo
  <1> QED
    BY <1>6, <1>7, <1>9 DEF Written, a, b, up

----------------------------------------------------------------------------
(* The two screens, and the keys that change the line                      *)

LEMMA Fields ==
    ASSUME NEW k \in Nat, NEW r \in Reals(k), NEW s, NEW b, NEW c
    PROVE LET e == [r EXCEPT !.screen = s, !.buffer = b, !.cursor = c]
          IN /\ e.screen = s /\ e.buffer = b /\ e.cursor = c /\ e.initialized = r.initialized
             /\ e.painted = r.painted
  BY DEF Reals

\* The screen shows its buffer, but where a program has drawn.
Agrees(r) ==
    \A p \in DOMAIN r.buffer : r.screen[p] = r.buffer[p] \/ (r.painted /\ r.screen[p] = "program")

LEMMA StoredAgrees ==
    ASSUME NEW s \in Grids(FbRows, FbCols), NEW b \in Grids(FbRows, FbCols), NEW at, NEW ch, NEW cols,
           NEW painted,
           \A p \in Positions(FbRows, FbCols) : s[p] = b[p] \/ (painted /\ s[p] = "program")
    PROVE \A p \in Positions(FbRows, FbCols) :
              \/ Stored(s, at, ch, cols)[p] = Stored(b, at, ch, cols)[p]
              \/ painted /\ Stored(s, at, ch, cols)[p] = "program"
  <1> TAKE p \in Positions(FbRows, FbCols)
  <1>1. p \in DOMAIN s /\ p \in DOMAIN b
    BY DEF Grids
  <1>2. CASE p \in Touched(at, ch, cols)
    BY <1>1, <1>2 DEF Stored
  <1>3. CASE p \notin Touched(at, ch, cols)
    BY <1>1, <1>3 DEF Stored
  <1> QED
    BY <1>2, <1>3

LEMMA PlaceIs ==
    ASSUME NEW k \in Nat, NEW r \in Reals(k), NEW ch
    PROVE /\ gui => Place(r, ch).initialized
          /\ (r.initialized => gui) => (Place(r, ch).initialized => gui)
          /\ gui /\ r.screen = r.buffer => Place(r, ch).screen = Place(r, ch).buffer
          /\ gui /\ (r.initialized => Agrees(r)) => Agrees(Place(r, ch))
          /\ (gui => r.initialized) =>
                /\ Place(r, ch).screen = Stored(r.screen, r.cursor, ch, Width)
                /\ Place(r, ch).cursor = Moved(r.cursor, ch, Width)
  <1> DEFINE inited == IF gui /\ ~ r.initialized
                       THEN [r EXCEPT !.buffer = Blank(FbRows, FbCols), !.screen = Blank(FbRows, FbCols),
                                      !.initialized = TRUE, !.painted = FALSE]
                       ELSE r
  <1>1. /\ inited \in Reals(k) /\ (gui => inited.initialized)
           /\ ((gui => r.initialized) => inited = r)
        /\ gui /\ r.screen = r.buffer => inited.screen = inited.buffer
        /\ (r.initialized => gui) => (inited.initialized => gui)
        /\ gui /\ (r.initialized => Agrees(r)) => Agrees(inited)
    <2>1. gui => Height = FbRows /\ Width = FbCols
      BY DEF Height, Width
    <2>2. CASE gui /\ ~ r.initialized
      <3>1. inited.screen = Blank(FbRows, FbCols) /\ inited.buffer = Blank(FbRows, FbCols)
            /\ inited.initialized = TRUE
        BY <2>2 DEF Reals
      <3>2. inited \in Reals(k)
        BY <2>1, <2>2, BlankTyped DEF Reals
      <3> QED
        BY <2>2, <3>1, <3>2 DEF Agrees
    <2>3. CASE ~ (gui /\ ~ r.initialized)
      <3>1. inited = r
        BY <2>3
      <3> QED
        BY <2>3, <3>1
    <2> QED
      BY <2>2, <2>3
  <1>2. Place(r, ch) = [inited EXCEPT !.screen = Stored(inited.screen, r.cursor, ch, Width),
                                      !.buffer = IF gui THEN Stored(inited.buffer, r.cursor, ch, Width)
                                                 ELSE inited.buffer,
                                      !.cursor = Moved(inited.cursor, ch, Width)]
    BY DEF Place
  <1> HIDE DEF inited
  <1> PICK b : b = IF gui THEN Stored(inited.buffer, r.cursor, ch, Width) ELSE inited.buffer
    OBVIOUS
  <1>3. /\ Place(r, ch).screen = Stored(inited.screen, r.cursor, ch, Width) /\ Place(r, ch).buffer = b
        /\ Place(r, ch).cursor = Moved(inited.cursor, ch, Width)
             /\ Place(r, ch).initialized = inited.initialized
             /\ Place(r, ch).painted = inited.painted
    BY <1>1, <1>2, Fields
  <1>4. gui /\ Agrees(inited) => Agrees(Place(r, ch))
    <2> SUFFICES ASSUME gui, Agrees(inited) PROVE Agrees(Place(r, ch))
      OBVIOUS
    <2>1. inited.screen \in Grids(FbRows, FbCols) /\ inited.buffer \in Grids(FbRows, FbCols)
      BY <1>1 DEF Reals, Height, Width
    <2>2. DOMAIN inited.buffer = Positions(FbRows, FbCols) /\ DOMAIN b = DOMAIN inited.buffer
      BY <2>1 DEF Grids, Stored
    <2> QED
      BY <1>3, <2>1, <2>2, StoredAgrees DEF Agrees
  <1> QED
    BY <1>1, <1>3, <1>4

LEMMA ScrollIs ==
    ASSUME NEW k \in Nat, NEW r \in Reals(k)
    PROVE /\ Scroll(r).initialized = r.initialized
          /\ gui /\ r.screen = r.buffer => Scroll(r).screen = Scroll(r).buffer
          /\ gui /\ Agrees(r) => Agrees(Scroll(r))
          /\ ~ BelowEnd(r.cursor[1], Height) => Scroll(r) = r
          /\ BelowEnd(r.cursor[1], Height) /\ (gui => r.screen = r.buffer) =>
                Scroll(r).screen = Scrolled(r.screen, Height)
                   /\ Scroll(r).cursor = <<Height - 1, r.cursor[2]>>
  <1>1. CASE ~ BelowEnd(r.cursor[1], Height)
    BY <1>1 DEF Scroll
  <1>2. CASE BelowEnd(r.cursor[1], Height)
    <2> PICK at : at = <<Height - 1, r.cursor[2]>>
      OBVIOUS
    <2> PICK scrolled : scrolled = Scrolled(IF gui THEN r.buffer ELSE r.screen, Height)
      OBVIOUS
    <2> PICK buffer : buffer = IF gui THEN scrolled ELSE r.buffer
      OBVIOUS
    <2>1. Scroll(r) = [r EXCEPT !.screen = scrolled, !.buffer = buffer, !.cursor = at,
                                !.painted = r.painted /\ ~ gui]
      BY <1>2 DEF Scroll
    <2>2. Scroll(r).screen = scrolled /\ Scroll(r).buffer = buffer /\ Scroll(r).cursor = at
          /\ Scroll(r).initialized = r.initialized
      BY <2>1 DEF Reals
    <2>3. gui => Agrees(Scroll(r))
      BY <2>2 DEF Agrees
    <2> QED
      BY <1>2, <2>2, <2>3
  <1> QED
    BY <1>1, <1>2

\* The line that is read, behind its prompt, is printable and fits.
LEMMA LineFacts ==
    ASSUME NEW l \in Seq(Letters), Len(l) <= LineMax
    PROVE /\ Prompt \o l \in Texts /\ Printable(Prompt \o l)
          /\ Len(Prompt \o l) <= (WinRows - 1) * WinCols /\ Len(Prompt \o l) <= (Height - 1) * Width
          /\ Len(Prompt \o l) = Len(Prompt) + Len(l) /\ Len(l) \in Nat /\ Len(Prompt) \in Nat
  <1>1. Prompt \in Seq(Characters) /\ Letters \subseteq Characters \ {NL, BS} /\ LineMax \in Nat
        /\ Len(Prompt) + LineMax <= (WinRows - 1) * WinCols
             /\ Len(Prompt) + LineMax <= (Rows - 1) * Cols
    BY TerminalAssumption DEF Texts
  <1>2. l \in Seq(Characters)
    BY <1>1
  <1>3. Prompt \o l \in Seq(Characters) /\ Len(Prompt \o l) = Len(Prompt) + Len(l)
        /\ Len(l) \in Nat /\ Len(Prompt) \in Nat
    BY <1>1, <1>2
  <1>4. Printable(Prompt \o l)
    <2> SUFFICES ASSUME NEW i \in 1..Len(Prompt \o l) PROVE (Prompt \o l)[i] \notin {NL, BS}
      BY DEF Printable
    <2>1. CASE i <= Len(Prompt)
      <3>1. (Prompt \o l)[i] = Prompt[i] /\ i \in 1..Len(Prompt)
        BY <1>1, <1>2, <1>3, <2>1
      <3> QED
        BY <3>1, TerminalAssumption DEF Printable
    <2>2. CASE i > Len(Prompt)
      <3>1. (Prompt \o l)[i] = l[i - Len(Prompt)] /\ i - Len(Prompt) \in 1..Len(l)
        BY <1>1, <1>2, <1>3, <2>2
      <3>2. l[i - Len(Prompt)] \in Letters
        BY <3>1
      <3> QED
        BY <1>1, <3>1, <3>2
    <2> QED
      BY <1>3, <2>1, <2>2
  <1>5. (Rows - 1) * Cols <= (Height - 1) * Width
    <2> PICK r \in Nat, c \in Nat, k \in Nat, j \in Nat :
            Rows - 1 = r /\ Cols = c /\ Height - 1 = r + k /\ Width = c + j
      <3>1. Rows - 1 \in Nat /\ Cols \in Nat /\ (Height - 1) - (Rows - 1) \in Nat
            /\ Width - Cols \in Nat
            /\ Height - 1 = (Rows - 1) + ((Height - 1) - (Rows - 1)) /\ Width = Cols + (Width - Cols)
        BY Sizes
      <3> QED
        BY <3>1
    <2>1. (r + k) * (c + j) = r * c + r * j + k * c + k * j
      OBVIOUS
    <2>2. r * c \in Nat /\ r * j \in Nat /\ k * c \in Nat /\ k * j \in Nat
      OBVIOUS
    <2> QED
      BY <2>1, <2>2
  <1>6. (WinRows - 1) * WinCols \in Int /\ (Rows - 1) * Cols \in Int /\ (Height - 1) * Width \in Int
    BY Sizes
  <1> QED
    BY <1>1, <1>3, <1>4, <1>5, <1>6 DEF Texts

\* A text and then the prompt, on a grid that is blank from the cursor on.
LEMMA NewPrompt ==
    ASSUME NEW grid, NEW a \in Nat, NEW cols, BlankFrom(grid, a, cols), NEW text \in Texts, NEW due
    PROVE Kept(grid, a, cols, due, text \o Prompt, Prompt \o <<>>)
  <1>1. Prompt \in Seq(Characters) /\ text \in Seq(Characters)
    BY TextFacts DEF Texts
  <1>2. Prompt \o <<>> = Prompt
    BY <1>1
  <1>3. Len(text \o Prompt) = Len(text) + Len(Prompt) /\ Len(text) \in Nat /\ Len(Prompt) \in Nat
        /\ \A j \in 1..Len(Prompt) : (text \o Prompt)[j + Len(text)] = Prompt[j]
    BY <1>1
  <1> PICK n \in Int : n = Len(Prompt) - Len(text \o Prompt)
    <2>1. Len(text \o Prompt) \in Nat /\ Len(Prompt) - Len(text \o Prompt) \in Int
      BY <1>3
    <2> QED
      BY <2>1
  <1>4. n <= 0 /\ \A j \in Nat : j - n = j + Len(text)
    BY <1>3
  <1>5. Follows(text \o Prompt, Prompt, n)
    BY <1>3, <1>4 DEF Follows
  <1>6. Shows(grid, a, cols, n, Prompt)
    BY <1>4, ShowsNothing
  <1>7. Echo(grid, a, cols, text \o Prompt, Prompt)
    BY <1>5, <1>6 DEF Echo
  <1> QED
    BY <1>2, <1>7 DEF Kept

LEMMA BlankGrid == ASSUME NEW rows, NEW cols, NEW a, NEW width
    PROVE BlankFrom(Blank(rows, cols), a, width)
  BY DEF BlankFrom, Blank

LEMMA OriginIndex == ASSUME NEW cols \in Nat \ {0} PROVE Index(<<0, 0>>, cols) \in Nat
  <1>1. 0 \in 0..(cols - 1) /\ 0 \in Nat
    OBVIOUS
  <1> QED
    BY <1>1, IndexIs

\* The three keys, where the line is read.
LEMMA LetterKept ==
    ASSUME NEW grid, NEW a \in Nat, NEW cols, NEW l \in Seq(Letters), Len(l) <= LineMax,
           NEW ch \in Letters,
           Kept(grid, a, cols, TRUE, <<>>, Prompt \o l)
    PROVE Kept(grid, a, cols, TRUE, <<ch>>, Prompt \o Append(l, ch))
  <1> DEFINE old == Prompt \o l
             new == Prompt \o Append(l, ch)
             m == Len(old)
  <1>1. m \in Nat /\ Len(new) = m + 1 /\ new[m + 1] = ch /\ \A j \in 1..m : new[j] = old[j]
    <2>1. Prompt \in Seq(Characters) /\ Letters \subseteq Characters
      BY TerminalAssumption DEF Texts
    <2>2. l \in Seq(Characters) /\ ch \in Characters
      BY <2>1
    <2> HIDE DEF old, new
    <2>3. new = Append(old, ch) /\ old \in Seq(Characters)
      BY <2>1, <2>2 DEF old, new
    <2> QED
      BY <2>2, <2>3
  <1>2. ~ Rubbing(grid, a, cols, <<>>, old)
    BY DEF Rubbing
  <1>3. BlankFrom(grid, a, cols) /\ Shows(grid, a, cols, m, old)
    <2>1. BlankFrom(grid, a, cols) /\ Echo(grid, a, cols, <<>>, old)
      BY <1>2 DEF Kept
    <2>2. Len(old) - Len(<<>>) = m
      BY <1>1
    <2> QED
      BY <2>1, <2>2 DEF Echo
  <1> HIDE DEF old, new, m
  <1>4. Shows(grid, a, cols, m, new)
    BY <1>1, <1>3 DEF Shows
  <1>5. Len(new) - Len(<<ch>>) = m
    BY <1>1
  <1>6. Follows(<<ch>>, new, m)
    <2> SUFFICES ASSUME NEW j \in 1..Len(new), j > m PROVE <<ch>>[j - m] = new[j]
      BY DEF Follows
    <2>1. j = m + 1 /\ j - m = 1
      BY <1>1
    <2> QED
      BY <1>1, <2>1
  <1> QED
    BY <1>3, <1>4, <1>5, <1>6 DEF Kept, Echo, new

LEMMA Cut ==
    ASSUME NEW S, NEW s \in Seq(S), NEW k \in Nat, k <= Len(s)
    PROVE /\ SubSeq(s, 1, k) \in Seq(S) /\ Len(SubSeq(s, 1, k)) = k
          /\ \A j \in 1..k : SubSeq(s, 1, k)[j] = s[j]
  OBVIOUS

LEMMA BackspaceKept ==
    ASSUME NEW grid, NEW a \in Nat, NEW cols, \A p \in DOMAIN grid : Index(p, cols) \in Nat,
           NEW l \in Seq(Letters), Len(l) <= LineMax, l # <<>>,
           Kept(grid, a, cols, TRUE, <<>>, Prompt \o l)
    PROVE Kept(grid, a, cols, TRUE, <<BS>>, Prompt \o SubSeq(l, 1, Len(l) - 1))
  <1> DEFINE old == Prompt \o l
             cut == SubSeq(l, 1, Len(l) - 1)
             new == Prompt \o cut
             m == Len(new)
  <1>1. m \in Nat /\ Len(old) = m + 1 /\ \A j \in 1..m : new[j] = old[j]
    <2>1. Prompt \in Seq(Characters) /\ Letters \subseteq Characters
      BY TerminalAssumption DEF Texts
    <2>2. l \in Seq(Characters) /\ Len(l) \in Nat /\ Len(l) >= 1
      BY <2>1
    <2>3. cut \in Seq(Characters) /\ Len(cut) = Len(l) - 1 /\ \A j \in 1..(Len(l) - 1) : cut[j] = l[j]
      <3>1. Len(l) - 1 \in Nat /\ Len(l) - 1 <= Len(l)
        BY <2>2
      <3> QED
        BY <2>2, <3>1, Cut
    <2> HIDE DEF cut
    <2>4. Len(new) = Len(Prompt) + Len(cut) /\ Len(old) = Len(Prompt) + Len(l) /\ Len(Prompt) \in Nat
      BY <2>1, <2>2, <2>3
    <2>5. ASSUME NEW j \in 1..m PROVE new[j] = old[j]
      <3>1. CASE j <= Len(Prompt)
        BY <2>1, <2>2, <2>3, <2>4, <3>1
      <3>2. CASE j > Len(Prompt)
        <4>1. j - Len(Prompt) \in 1..Len(cut) /\ j - Len(Prompt) \in 1..(Len(l) - 1)
              /\ j - Len(Prompt) \in 1..Len(l)
          BY <2>2, <2>3, <2>4, <3>2
        <4>2. new[j] = cut[j - Len(Prompt)] /\ old[j] = l[j - Len(Prompt)]
          BY <2>1, <2>2, <2>3, <2>4, <3>2
        <4> QED
          BY <2>3, <4>1, <4>2
      <3>3. j <= Len(Prompt) \/ j > Len(Prompt)
        BY <2>4
      <3> QED
        BY <3>1, <3>2, <3>3
    <2> QED
      BY <2>2, <2>3, <2>4, <2>5
  <1>2. ~ Rubbing(grid, a, cols, <<>>, old)
    BY DEF Rubbing
  <1>3. BlankFrom(grid, a, cols) /\ Shows(grid, a, cols, m + 1, old)
    <2>1. BlankFrom(grid, a, cols) /\ Echo(grid, a, cols, <<>>, old)
      BY <1>2 DEF Kept
    <2>2. Len(old) - Len(<<>>) = m + 1
      BY <1>1
    <2> QED
      BY <2>1, <2>2 DEF Echo
  <1> HIDE DEF old, cut, new, m
  <1>4. a >= 1 /\ a - 1 >= m
    BY <1>1, <1>3 DEF Shows
  <1>5. ASSUME NEW p \in DOMAIN grid, Index(p, cols) - (a - 1) + m + 1 \in 1..m
        PROVE grid[p] = new[Index(p, cols) - (a - 1) + m + 1]
    <2> PICK i \in 1..m : i = Index(p, cols) - (a - 1) + m + 1
      BY <1>5
    <2>1. Index(p, cols) - a + (m + 1) + 1 = i /\ i \in 1..(m + 1)
      BY <1>1
    <2> QED
      BY <1>1, <1>3, <2>1 DEF Shows
  <1>6. Shows(grid, a - 1, cols, m, new)
    BY <1>4, <1>5 DEF Shows
  <1>7. Rubbing(grid, a, cols, <<BS>>, new)
    BY <1>4, <1>6 DEF Rubbing, m
  <1> QED
    BY <1>3, <1>7 DEF Kept, new, cut

----------------------------------------------------------------------------
(* The buffer behind the framebuffer                                       *)

\* As long as only the shell writes, the console's buffer has been filled before the
\* shell goes on in graphics mode, so that no later character blanks it, and the
\* framebuffer is its picture.
BufferInv ==
    /\ real.initialized => gui
    /\ gui /\ ~ hosted /\ ~ disturbed =>
          real.initialized /\ (game = NoGame => real.screen = real.buffer)
    /\ gui /\ real.initialized /\ ~ hosted /\ game = NoGame => Agrees(real)
    /\ mode = "read" => out = <<>>

LEMMA NextBuffer == TerminalInv /\ BufferInv /\ [TerminalNext]_terminalVars => BufferInv'
  <1> SUFFICES ASSUME TerminalInv, BufferInv, [TerminalNext]_terminalVars PROVE BufferInv'
    OBVIOUS
  <1>0. Below \in Nat /\ real \in Reals(Below) /\ gui \in BOOLEAN
    BY DEF TerminalInv, Below, RealTyped, SessionTyped
  <1>1. ASSUME UNCHANGED <<gui, hosted, real, game, disturbed>>, mode' = "read" => out' = <<>>
        PROVE BufferInv'
    BY <1>1 DEF BufferInv, Agrees
  <1>2. ASSUME UNCHANGED <<gui, hosted>>, gui => real'.initialized, mode' # "read",
               real'.initialized => gui,
               gui /\ ~ hosted /\ game' = NoGame /\ ~ disturbed' => real'.screen = real'.buffer,
               gui /\ ~ hosted /\ game' = NoGame => Agrees(real)'
        PROVE BufferInv'
    BY <1>2 DEF BufferInv
  <1>3. CASE PutChar
    <2>1. CASE hosted
      BY <1>1, <1>3, <2>1 DEF PutChar
    <2>2. CASE ~ hosted
      <3>1. PICK ch : real' = Place(real, ch)
        BY <1>3, <2>2 DEF PutChar
      <3>2. UNCHANGED <<gui, hosted, game, disturbed>> /\ mode' # "read"
        BY <1>3 DEF PutChar
      <3>3. /\ gui /\ game = NoGame /\ ~ disturbed => real.screen = real.buffer
            /\ gui /\ game = NoGame /\ real.initialized => Agrees(real)
            /\ real.initialized => gui
        BY <2>2 DEF BufferInv
      <3>4. gui /\ game = NoGame => Agrees(Place(real, ch))
        BY <1>0, <3>3, PlaceIs
      <3>5. Agrees(real)' <=> Agrees(Place(real, ch))
        BY <3>1 DEF Agrees
      <3> QED
        BY <1>0, <1>2, <3>1, <3>2, <3>3, <3>4, <3>5, PlaceIs
    <2> QED
      BY <2>1, <2>2
  <1>4. CASE FinishPut
    <2>1. UNCHANGED <<gui, hosted, game, disturbed>> /\ mode' # "read" /\ ~ hosted
      BY <1>4 DEF FinishPut, TerminalInv, SessionTyped
    <2>2. /\ gui /\ ~ disturbed => real.initialized /\ (game = NoGame => real.screen = real.buffer)
          /\ gui /\ game = NoGame /\ real.initialized => Agrees(real)
          /\ real.initialized => gui
      BY <2>1 DEF BufferInv
    <2>3. CASE real.switched
      <3>1. real' = TextScroll(real)
        BY <1>4, <2>3 DEF FinishPut
      <3>2. real'.screen = real.screen /\ real'.buffer = real.buffer /\ real'.painted = real.painted
            /\ real'.initialized = real.initialized
        BY <1>0, <3>1 DEF TextScroll, Reals
      <3> QED
        BY <2>1, <2>2, <3>2 DEF BufferInv, Agrees
    <2>4. CASE ~ real.switched
      <3>1. real' = Scroll(real)
        BY <1>4, <2>4 DEF FinishPut
      <3>2. /\ real'.initialized = real.initialized
            /\ gui /\ real.screen = real.buffer => real'.screen = real'.buffer
            /\ gui /\ Agrees(real) => Agrees(Scroll(real))
        BY <1>0, <3>1, ScrollIs
      <3>3. Agrees(real)' <=> Agrees(Scroll(real))
        BY <3>1 DEF Agrees
      <3> QED
        BY <2>1, <2>2, <3>2, <3>3 DEF BufferInv
    <2> QED
      BY <2>3, <2>4
  <1>5. CASE \E ch \in {"x", NL, BS} : OtherWrites(ch)
    <2> PICK ch \in {"x", NL, BS} : OtherWrites(ch)
      BY <1>5
    <2>1. UNCHANGED <<gui, hosted, game, mode, out>> /\ real' = Scroll(Place(real, ch)) /\ disturbed'
      BY DEF OtherWrites
    <2>2. Place(real, ch) \in Reals(Below + 1) /\ Below + 1 \in Nat
      <3>1. ch \in Glyphs
        BY TerminalAssumption DEF Glyphs
      <3>2. Below + 1 \in Nat
        BY <1>0
      <3> QED
        BY <1>0, <3>1, <3>2, PlaceTyped
    <2>3. real'.initialized => gui
      <3>1. Place(real, ch).initialized => gui
        BY <1>0, PlaceIs DEF BufferInv
      <3> QED
        BY <2>1, <2>2, <3>1, ScrollIs
    <2>4. gui /\ ~ hosted /\ game = NoGame => Agrees(real)'
      <3>1. gui /\ ~ hosted /\ game = NoGame => Agrees(Place(real, ch))
        BY <1>0, PlaceIs DEF BufferInv
      <3>2. gui /\ ~ hosted /\ game = NoGame => Agrees(Scroll(Place(real, ch)))
        BY <2>2, <3>1, ScrollIs
      <3>3. Agrees(real)' <=> Agrees(Scroll(Place(real, ch)))
        BY <2>1 DEF Agrees
      <3> QED
        BY <3>2, <3>3
    <2> QED
      BY <2>1, <2>3, <2>4 DEF BufferInv
  <1>18. CASE \E area \in Areas : ProgramDraws(area)
    <2> PICK area \in Areas : ProgramDraws(area)
      BY <1>18
    <2>1. /\ gui' /\ disturbed' /\ UNCHANGED <<hosted, game, mode, out>>
          /\ real' = [Painted(real, area) EXCEPT !.switched = @ \/ (pending /\ ~gui)]
      BY DEF ProgramDraws
    <2> PICK screen : PaintedAs(real, area, screen)
      BY <1>0, PaintedTyped
    <2>5. /\ screen \in Grids(FbRows, FbCols)
          /\ Painted(real, area) = [real EXCEPT !.screen = screen, !.painted = TRUE]
          /\ gui => \A p \in Positions(FbRows, FbCols) :
                       screen[p] = IF p \in area THEN "program" ELSE real.screen[p]
      BY DEF PaintedAs
    <2>2. real'.screen = screen /\ real'.buffer = real.buffer /\ real'.painted
          /\ real'.initialized = real.initialized
      BY <1>0, <2>1, <2>5 DEF Reals
    <2>3. DOMAIN real.buffer = Positions(FbRows, FbCols)
      BY <1>0 DEF Reals, Grids
    <2>4. real.initialized /\ ~ hosted /\ game = NoGame => Agrees(real)'
      BY <2>2, <2>3, <2>5 DEF BufferInv, Agrees
    <2> QED
      BY <2>1, <2>2, <2>4 DEF BufferInv
  <1>6. CASE PrintEnds \/ (\E ch \in Letters : TypeLetter(ch)) \/ TypeBackspace \/ TypeEnter
    <2>1. UNCHANGED <<gui, hosted, real, game, disturbed>>
      BY <1>6 DEF PrintEnds, TypeLetter, TypeBackspace, TypeEnter, consoleVars
    <2>2. mode' = "read" => out' = <<>>
      BY <1>6 DEF PrintEnds, TypeLetter, TypeBackspace, TypeEnter, vga_write
    <2> QED
      BY <1>1, <2>1, <2>2
  <1>7. CASE NoCommand \/ CmdDesktopFails \/ (\E text \in Outputs : CmdPrints(text))
    <2>1. UNCHANGED <<gui, hosted, real, game, disturbed>> /\ mode' = "print"
      BY <1>7 DEF NoCommand, CmdDesktopFails, CmdPrints, PromptAfter, vga_write, consoleVars
    <2> QED
      BY <1>1, <2>1
  <1>8. CASE CmdClear \/ LeaveGame
    <2>1. UNCHANGED <<gui, hosted>> /\ vga_clear /\ mode' = "print"
      BY <1>8 DEF CmdClear, LeaveGame, PromptAfter, vga_write
    <2>2. CASE hosted
      BY <2>1, <2>2 DEF vga_clear, BufferInv
    <2>3. CASE ~ hosted
      <3>1. real' = RealCleared(real, gui)
        BY <2>1, <2>3 DEF vga_clear
      <3>2. /\ gui => real'.initialized /\ real'.screen = real'.buffer
            /\ real'.initialized => gui
        BY <1>0, <3>1, ClearIs DEF BufferInv
      <3>3. gui => Agrees(real)'
        BY <3>2 DEF Agrees
      <3> QED
        BY <1>2, <2>1, <3>2, <3>3
    <2> QED
      BY <2>2, <2>3
  <1>9. CASE CmdDesktop
    BY <1>9 DEF CmdDesktop, PromptAfter, vga_write, BufferInv
  <1>10. CASE DesktopEnds
    <2> PICK screen : screen = [p \in DOMAIN real.screen |-> "black"]
      OBVIOUS
    <2>1. gui' = gui /\ mode' = "print" /\ real' = RealCleared([real EXCEPT !.screen = screen], gui)
      BY <1>10 DEF DesktopEnds, PromptAfter, vga_write
    <2>2. screen \in Grids(Height, Width)
      BY <1>0 DEF Reals, Grids, Glyphs
    <2>3. [real EXCEPT !.screen = screen] \in Reals(Below)
      BY <1>0, <2>2 DEF Reals
    <2>4. gui /\ real'.initialized /\ real'.screen = real'.buffer
      <3>1. gui
        BY <1>10 DEF DesktopEnds, TerminalInv, SessionTyped
      <3> QED
        BY <1>0, <2>1, <2>3, <3>1, ClearIs
    <2>5. Agrees(real)'
      BY <2>4 DEF Agrees
    <2> QED
      BY <2>1, <2>4, <2>5 DEF BufferInv
  <1>11. ASSUME UNCHANGED <<gui, hosted>>, Playing', TerminalInv', mode' # "read",
                gui /\ ~ hosted /\ ~ disturbed' => real'.initialized,
                real'.initialized => gui
         PROVE BufferInv'
    <2>1. game' # NoGame
      BY <1>11, SoundGameIsOn DEF TerminalInv, GameInv
    <2> QED
      BY <1>11, <2>1 DEF BufferInv
  <1>12. TerminalInv'
    BY NextTerminal
  <1>13. CASE CmdSnake
    <2>1. UNCHANGED <<gui, hosted>> /\ Playing' /\ mode' = "print"
      BY <1>13 DEF CmdSnake, vga_write, Playing
    <2> PICK r : r = IF hosted THEN real ELSE RealCleared(real, gui)
      OBVIOUS
    <2>2. PICK g, w : vga_set_cursor_pos(PutAt(r, FirstPicture(g)), w, LastRow)
      BY <1>13 DEF CmdSnake
    <2>3. /\ \E k \in Nat : r \in Reals(k)
          /\ gui /\ ~ hosted => r.initialized
          /\ r.initialized => gui
      BY <1>0, ClearTyped, ClearIs DEF BufferInv
    <2>4. \E k \in Nat : PutAt(r, FirstPicture(g)) \in Reals(k)
                         /\ PutAt(r, FirstPicture(g)).initialized = r.initialized
      BY <2>3, PutAtTyped, FirstPictureTyped
    <2>5. real'.initialized = r.initialized
      BY <2>2, <2>4 DEF vga_set_cursor_pos, Reals
    <2> QED
      BY <1>11, <1>12, <2>1, <2>3, <2>5
  <1>14. CASE (\E d \in Dirs : Turn(d)) \/ Quit
    <2>1. UNCHANGED <<gui, hosted, real, disturbed>> /\ mode' = "play"
      BY <1>14 DEF Turn, Quit, consoleVars
    <2> QED
      BY <1>11, <1>12, <2>1 DEF Playing, BufferInv
  <1>15. CASE Move
    <2>1. UNCHANGED <<gui, hosted, disturbed>> /\ mode' = "play"
          /\ real' = PutAt(real, StepPicture(game, game'))
      BY <1>15 DEF Move
    <2>2. real'.initialized = real.initialized
      BY <1>0, <2>1, PutAtTyped, StepPictureTyped
    <2> QED
      BY <1>11, <1>12, <2>1, <2>2 DEF Playing, BufferInv
  <1>16. CASE GameOver
    <2>1. UNCHANGED <<gui, hosted, disturbed>> /\ mode' = "over"
          /\ vga_set_cursor_pos(PutAt(real, draw_score(FALSE)), window, LastRow)
      BY <1>16 DEF GameOver
    <2>2. PutAt(real, draw_score(FALSE)) \in Reals(Below)
          /\ PutAt(real, draw_score(FALSE)).initialized = real.initialized
      BY <1>0, PutAtTyped, ScoreTyped
    <2>3. real'.initialized = real.initialized
      BY <2>1, <2>2 DEF vga_set_cursor_pos, Reals
    <2> QED
      BY <1>11, <1>12, <2>1, <2>3 DEF Playing, BufferInv
  <1>17. CASE UNCHANGED terminalVars
    BY <1>17 DEF terminalVars, sessionVars, consoleVars, BufferInv, Agrees
  <1> QED
    BY <1>3, <1>4, <1>5, <1>6, <1>7, <1>8, <1>9, <1>10, <1>13, <1>14, <1>15, <1>16, <1>17, <1>18
       DEF TerminalNext

----------------------------------------------------------------------------
(* What is kept where the shell prints                                     *)

EchoDue == mode = "read" \/ (mode = "print" /\ then = "read")

\* What is to stand there is the prompt and the line, once it is read.
ShellKept == Kept(ShellGrid, ShellAt, ShellCols, EchoDue, out, Prompt \o line)
ShellWritten == Written(ShellGrid, ShellAt, ShellCols, EchoDue, out, Prompt \o line)

\* Where the shell prints, its prompt and line are kept; a screen that is still to be
\* scrolled has its cursor in front of the row that comes.
EchoInv ==
    ~ Playing /\ (hosted \/ ~ disturbed) =>
        ShellKept /\ (pending => real.cursor = <<Height, 0>> /\ ShellWritten)

LEMMA WindowWrites ==
    ASSUME NEW w \in OpenWindows, NEW text \in Texts, text # <<>>, NEW target \in Texts,
           Printable(target),
           Len(target) <= (WinRows - 1) * WinCols, NEW due,
           Kept(w.grid, Index(w.cursor, WinCols), WinCols, due, text, target)
    PROVE LET after == redirect_putc(w, Head(text))
          IN Written(after.grid, Index(after.cursor, WinCols), WinCols, due, Tail(text), target)
  <1> PICK ch : ch = Head(text)
    OBVIOUS
  <1> DEFINE grid == Stored(w.grid, w.cursor, ch, WinCols)
             at == Moved(w.cursor, ch, WinCols)
             up == <<WinRows - 1, at[2]>>
  <1>1. w.grid \in Grids(WinRows, WinCols) /\ w.cursor \in Positions(WinRows, WinCols)
    BY DEF OpenWindows
  <1>2. Written(grid, Index(at, WinCols), WinCols, due, Tail(text), target)
        /\ (at[1] >= WinRows => at = <<WinRows, 0>>)
    BY <1>1, Sizes, PutWrites
  <1>3. grid \in Grids(WinRows, WinCols)
    BY <1>1, StoredTyped, TextParts DEF Glyphs
  <1>4. redirect_putc(w, ch) = IF BelowEnd(at[1], WinRows) THEN [grid |-> Scrolled(grid, WinRows), cursor |-> up]
                               ELSE [grid |-> grid, cursor |-> at]
    BY DEF redirect_putc
  <1> HIDE DEF grid, at
  <1>5. CASE ~ BelowEnd(at[1], WinRows)
    BY <1>2, <1>4, <1>5
  <1>6. CASE BelowEnd(at[1], WinRows)
    <2>1. at[1] >= WinRows
      BY <1>6 DEF BelowEnd
    <2>2. at = <<WinRows, 0>>
      BY <1>2, <2>1
    <2>3. up = <<WinRows - 1, 0>>
      BY <2>2
    <2>4. Tail(text) \in Texts
      BY TextParts
    <2>5. Written(Scrolled(grid, WinRows), Index(up, WinCols), WinCols, due, Tail(text), target)
      BY <1>2, <1>3, <2>2, <2>3, <2>4, Sizes, ScrollWrites
    <2> HIDE DEF up
    <2> QED
      BY <1>4, <1>6, <2>5
  <1> QED
    BY <1>5, <1>6

LEMMA PlaceWrites ==
    ASSUME NEW r \in Reals(0), gui => r.initialized, NEW text \in Texts, text # <<>>,
           NEW target \in Texts, Printable(target), NEW due,
           Kept(r.screen, Index(r.cursor, Width), Width, due, text, target)
    PROVE LET after == Place(r, Head(text))
          IN /\ Written(after.screen, Index(after.cursor, Width), Width, due, Tail(text), target)
             /\ BelowEnd(after.cursor[1], Height) => after.cursor = <<Height, 0>>
  <1>1. r.screen \in Grids(Height, Width) /\ r.cursor \in Positions(Height, Width)
    BY Sizes DEF Reals, Positions
  <1>2. /\ Place(r, Head(text)).screen = Stored(r.screen, r.cursor, Head(text), Width)
        /\ Place(r, Head(text)).cursor = Moved(r.cursor, Head(text), Width)
    BY PlaceIs
  <1> QED
    BY <1>1, <1>2, Sizes, PutWrites DEF BelowEnd

LEMMA ScreenScrolls ==
    ASSUME NEW r \in Reals(1), gui => r.screen = r.buffer, r.cursor = <<Height, 0>>,
           NEW text \in Texts,
           NEW target \in Texts, Len(target) <= (Height - 1) * Width, NEW due,
           Written(r.screen, Index(r.cursor, Width), Width, due, text, target)
    PROVE Written(Scroll(r).screen, Index(Scroll(r).cursor, Width), Width, due, text, target)
  <1>1. BelowEnd(Height, Height)
    BY Sizes DEF BelowEnd
  <1>2. r.cursor[1] = Height /\ r.cursor[2] = 0
    OBVIOUS
  <1>3. BelowEnd(r.cursor[1], Height)
    BY <1>1, <1>2
  <1>4. Scroll(r).screen = Scrolled(r.screen, Height)
        /\ Scroll(r).cursor = <<Height - 1, r.cursor[2]>>
    BY <1>3, ScrollIs
  <1>5. r.screen \in Grids(Height, Width)
    BY DEF Reals
  <1>6. Written(Scrolled(r.screen, Height), Index(<<Height - 1, 0>>, Width), Width, due, text, target)
    BY <1>5, Sizes, ScrollWrites
  <1> QED
    BY <1>2, <1>4, <1>6

LEMMA ShellCells ==
    ASSUME TerminalInv, ~ Playing
    PROVE /\ ShellAt \in Nat /\ \A p \in DOMAIN ShellGrid : Index(p, ShellCols) \in Nat
          /\ hosted => window \in OpenWindows
          /\ real \in Reals(1) /\ (~ pending => real \in Reals(0))
  <1>1. (hosted => window \in OpenWindows) /\ real \in Reals(Below) /\ Below \in {0, 1}
        /\ (~ pending => Below = 0)
    BY DEF TerminalInv, GameInv, WindowTyped, RealTyped, Below
  <1>2. Reals(0) \subseteq Reals(1)
    BY Sizes DEF Reals
  <1>3. CASE hosted
    <2>1. window.cursor \in Nat \X (0..(WinCols - 1)) /\ window.grid \in Grids(WinRows, WinCols)
      BY <1>1, <1>3 DEF OpenWindows, Positions
    <2> QED
      BY <1>1, <1>2, <1>3, <2>1, Sizes, IndexOrder, GridCells DEF ShellAt, ShellGrid, ShellCols
  <1>4. CASE ~ hosted
    <2>1. real.cursor \in Nat \X (0..(Width - 1)) /\ real.screen \in Grids(Height, Width)
      BY <1>1, Sizes DEF Reals
    <2> QED
      BY <1>1, <1>2, <1>4, <2>1, Sizes, IndexOrder, GridCells DEF ShellAt, ShellGrid, ShellCols
  <1> QED
    BY <1>3, <1>4

\* Where only a text or the bounds change, the shell's grid does not.
LEMMA SameShell ==
    ASSUME UNCHANGED <<gui, real, window, hosted>>
    PROVE ShellGrid' = ShellGrid /\ ShellAt' = ShellAt /\ ShellCols' = ShellCols
  BY DEF ShellGrid, ShellAt, ShellCols, Index, Width

LEMMA AtPrompt ==
    ASSUME \E text \in Texts : PromptAfter(text), ~ pending', ShellAt' \in Nat,
           BlankFrom(ShellGrid', ShellAt', ShellCols')
    PROVE EchoInv'
  <1> PICK text \in Texts : PromptAfter(text)
    OBVIOUS
  <1>1. out' = text \o Prompt /\ line' = <<>>
    BY DEF PromptAfter, vga_write
  <1>2. Kept(ShellGrid', ShellAt', ShellCols', EchoDue', text \o Prompt, Prompt \o <<>>)
    BY NewPrompt
  <1>3. ShellKept'
    BY <1>1, <1>2 DEF ShellKept
  <1> QED
    BY <1>3 DEF EchoInv

LEMMA ClearedShell ==
    ASSUME hosted' => window' = WindowCleared, ~ hosted' => real'.screen = Blank(Height', Width')
           /\ real'.cursor = <<0, 0>>
    PROVE ShellAt' \in Nat /\ BlankFrom(ShellGrid', ShellAt', ShellCols')
  <1>1. CASE hosted'
    <2>1. window'.grid = Blank(WinRows, WinCols) /\ window'.cursor = <<0, 0>>
      BY <1>1 DEF WindowCleared
    <2> QED
      BY <1>1, <2>1, BlankGrid, OriginIndex, Sizes DEF ShellAt, ShellGrid, ShellCols, Index
  <1>2. CASE ~ hosted'
    <2>1. Width' \in Nat \ {0}
      BY ConsoleAssumption DEF Width
    <2> QED
      BY <1>2, <2>1, BlankGrid, OriginIndex DEF ShellAt, ShellGrid, ShellCols, Index
  <1> QED
    BY <1>1, <1>2

----------------------------------------------------------------------------
(* Each step keeps it                                                      *)

LEMMA NextEcho == TerminalInv /\ BufferInv /\ EchoInv /\ [TerminalNext]_terminalVars
    /\ TerminalInv' => EchoInv'
  <1> SUFFICES ASSUME TerminalInv, BufferInv, EchoInv, [TerminalNext]_terminalVars, TerminalInv',
                      ~ Playing', hosted' \/ ~ disturbed'
               PROVE ShellKept' /\ (pending' => real'.cursor = <<Height', 0>> /\ ShellWritten')
    BY DEF EchoInv
  <1>0. out \in Texts /\ line \in Seq(Letters) /\ Len(line) <= LineMax
        /\ (pending => mode = "print" /\ ~ hosted)
    BY DEF TerminalInv, SessionTyped
  <1>1. ASSUME ~ Playing, UNCHANGED <<gui, real, window, hosted, disturbed>>
        PROVE /\ ShellGrid' = ShellGrid /\ ShellAt' = ShellAt /\ ShellCols' = ShellCols
              /\ ShellAt \in Nat /\ ShellKept /\ BlankFrom(ShellGrid, ShellAt, ShellCols)
    <2>1. ShellKept
      BY <1>1 DEF EchoInv
    <2>2. BlankFrom(ShellGrid, ShellAt, ShellCols)
      BY <2>1 DEF ShellKept, Kept
    <2> QED
      BY <1>1, <2>1, <2>2, SameShell, ShellCells
  <1>2. ASSUME ~ Playing, UNCHANGED <<gui, real, window, hosted, disturbed>>, ~ pending', ~ EchoDue' PROVE EchoInv'
    <2>1. Kept(ShellGrid', ShellAt', ShellCols', EchoDue', out', Prompt \o line')
      BY <1>1, <1>2 DEF Kept
    <2> QED
      BY <1>2, <2>1 DEF EchoInv, ShellKept
  <1>3. CASE PutChar
    <2>1. /\ ~ Playing /\ (hosted \/ ~ disturbed) /\ ~ pending /\ out # <<>> /\ out' = Tail(out)
          /\ UNCHANGED <<gui, hosted, mode, then, line>>
      BY <1>3 DEF PutChar, Playing
    <2>2. ShellKept
      BY <2>1 DEF EchoInv
    <2>3. EchoDue' = EchoDue
      BY <2>1 DEF EchoDue
    <2>4. /\ Prompt \o line \in Texts /\ Printable(Prompt \o line)
          /\ Len(Prompt \o line) <= (WinRows - 1) * WinCols
      BY <1>0, LineFacts
    <2> PICK due : due = EchoDue
      OBVIOUS
    <2> PICK target : target = Prompt \o line
      OBVIOUS
    <2>5. CASE hosted
      <3>1. window' = redirect_putc(window, Head(out)) /\ ~ pending'
        BY <1>3, <2>1, <2>5 DEF PutChar
      <3>2. Kept(window.grid, Index(window.cursor, WinCols), WinCols, due, out, target)
        BY <2>2, <2>5 DEF ShellKept, ShellGrid, ShellAt, ShellCols
      <3>3. window \in OpenWindows
        BY <2>1, <2>5, ShellCells
      <3>4. Written(window'.grid, Index(window'.cursor, WinCols), WinCols, due, Tail(out), target)
        BY <1>0, <2>1, <2>4, <3>1, <3>2, <3>3, WindowWrites
      <3>5. ShellGrid' = window'.grid /\ ShellAt' = Index(window'.cursor, WinCols)
            /\ ShellCols' = WinCols
        BY <2>1, <2>5 DEF ShellGrid, ShellAt, ShellCols, Index
      <3>6. Kept(ShellGrid', ShellAt', ShellCols', EchoDue', out', Prompt \o line')
        BY <2>1, <2>3, <3>4, <3>5, WrittenIsKept
      <3> QED
        BY <3>1, <3>6 DEF ShellKept
    <2>6. CASE ~ hosted
      <3>1. real' = Place(real, Head(out)) /\ pending' = BelowEnd(real'.cursor[1], Height)
        BY <1>3, <2>1, <2>6 DEF PutChar
      <3>2. Kept(real.screen, Index(real.cursor, Width), Width, due, out, target)
        BY <2>2, <2>6 DEF ShellKept, ShellGrid, ShellAt, ShellCols
      <3>3. real \in Reals(0) /\ (gui => real.initialized)
        BY <2>1, <2>6, ShellCells DEF BufferInv
      <3>4. /\ Written(real'.screen, Index(real'.cursor, Width), Width, due, Tail(out), target)
            /\ BelowEnd(real'.cursor[1], Height) => real'.cursor = <<Height, 0>>
        BY <1>0, <2>1, <2>4, <3>1, <3>2, <3>3, PlaceWrites
      <3>5. ShellGrid' = real'.screen /\ ShellAt' = Index(real'.cursor, Width) /\ ShellCols' = Width
            /\ Height' = Height
        BY <2>1, <2>6 DEF ShellGrid, ShellAt, ShellCols, Index, Width, Height
      <3>6. Written(ShellGrid', ShellAt', ShellCols', EchoDue', out', Prompt \o line')
        BY <2>1, <2>3, <3>4, <3>5
      <3>7. ShellKept' /\ ShellWritten'
        BY <3>6, WrittenIsKept DEF ShellKept, ShellWritten
      <3> QED
        BY <3>1, <3>4, <3>5, <3>7
    <2> QED
      BY <2>5, <2>6
  <1>4. CASE FinishPut
    <2>1. /\ ~ Playing /\ ~ hosted /\ ~ disturbed /\ pending /\ ~ pending' /\ real' = Scroll(real)
          /\ UNCHANGED <<gui, hosted, mode, out, then, line>>
      BY <1>0, <1>4 DEF FinishPut, Playing, TerminalInv, SwitchInv
    <2>2. ShellWritten /\ real.cursor = <<Height, 0>>
      BY <2>1 DEF EchoInv
    <2>3. EchoDue' = EchoDue
      BY <2>1 DEF EchoDue
    <2>4. Prompt \o line \in Texts /\ Len(Prompt \o line) <= (Height - 1) * Width
      BY <1>0, LineFacts
    <2> PICK due : due = EchoDue
      OBVIOUS
    <2> PICK target : target = Prompt \o line
      OBVIOUS
    <2>5. real \in Reals(1) /\ (gui => real.screen = real.buffer)
      BY <2>1, ShellCells DEF BufferInv, TerminalInv, GameInv
    <2>6. Written(real.screen, Index(real.cursor, Width), Width, due, out, target)
      BY <2>1, <2>2 DEF ShellWritten, ShellGrid, ShellAt, ShellCols
    <2>7. Written(real'.screen, Index(real'.cursor, Width), Width, due, out, target)
      BY <1>0, <2>1, <2>2, <2>4, <2>5, <2>6, ScreenScrolls
    <2>8. ShellGrid' = real'.screen /\ ShellAt' = Index(real'.cursor, Width) /\ ShellCols' = Width
      BY <2>1 DEF ShellGrid, ShellAt, ShellCols, Index, Width
    <2>9. Kept(ShellGrid', ShellAt', ShellCols', EchoDue', out', Prompt \o line')
      BY <2>1, <2>3, <2>7, <2>8, WrittenIsKept
    <2> QED
      BY <2>1, <2>9 DEF ShellKept
  <1>5. CASE PrintEnds
    <2>1. /\ UNCHANGED <<gui, real, window, hosted, disturbed, out, line>> /\ ~ pending'
             /\ mode = "print" /\ mode' = then
          /\ then' = then
      BY <1>5 DEF PrintEnds, consoleVars
    <2>2. ~ Playing
      BY <2>1 DEF Playing
    <2>3. EchoDue' => EchoDue
      BY <2>1 DEF EchoDue
    <2>4. Kept(ShellGrid', ShellAt', ShellCols', EchoDue', out', Prompt \o line')
      BY <1>1, <2>1, <2>2, <2>3 DEF ShellKept, Kept
    <2> QED
      BY <2>1, <2>4 DEF ShellKept
  <1>6. CASE (\E ch \in {"x", NL, BS} : OtherWrites(ch)) \/ \E area \in Areas : ProgramDraws(area)
    <2>1. hosted /\ hosted' /\ UNCHANGED <<window, mode, out, then, pending, line>>
      BY <1>6 DEF OtherWrites, ProgramDraws
    <2>2. ~ Playing /\ ~ pending /\ ShellKept
      BY <1>0, <2>1 DEF Playing, EchoInv
    <2>3. ShellGrid' = ShellGrid /\ ShellAt' = ShellAt /\ ShellCols' = ShellCols /\ EchoDue' = EchoDue
      BY <2>1 DEF ShellGrid, ShellAt, ShellCols, Index, EchoDue
    <2> QED
      BY <2>1, <2>2, <2>3 DEF ShellKept
  <1>7. CASE (\E ch \in Letters : TypeLetter(ch)) \/ TypeBackspace
    <2>1. /\ mode = "read" /\ UNCHANGED <<gui, real, window, hosted, disturbed, pending>>
      BY <1>7 DEF TypeLetter, TypeBackspace, consoleVars
    <2>2. ~ Playing /\ ~ pending' /\ EchoDue /\ out = <<>>
      BY <1>0, <2>1 DEF Playing, EchoDue, BufferInv
    <2>3. Kept(ShellGrid, ShellAt, ShellCols, TRUE, <<>>, Prompt \o line) /\ ShellAt \in Nat
          /\ \A p \in DOMAIN ShellGrid : Index(p, ShellCols) \in Nat
      BY <1>1, <2>1, <2>2, ShellCells DEF ShellKept, Kept
    <2>4. Kept(ShellGrid, ShellAt, ShellCols, TRUE, out', Prompt \o line')
      <3>1. CASE \E ch \in Letters : TypeLetter(ch)
        <4> PICK ch \in Letters : TypeLetter(ch)
          BY <3>1
        <4>1. out' = <<ch>> /\ line' = Append(line, ch)
          BY DEF TypeLetter, vga_write
        <4> QED
          BY <1>0, <2>3, <4>1, LetterKept
      <3>2. CASE TypeBackspace
        <4>1. out' = <<BS>> /\ line' = SubSeq(line, 1, Len(line) - 1) /\ line # <<>>
          BY <3>2 DEF TypeBackspace, vga_write
        <4> QED
          BY <1>0, <2>3, <4>1, BackspaceKept
      <3> QED
        BY <1>7, <3>1, <3>2
    <2>5. Kept(ShellGrid', ShellAt', ShellCols', EchoDue', out', Prompt \o line')
      BY <1>1, <2>1, <2>2, <2>4 DEF Kept
    <2> QED
      BY <2>2, <2>5 DEF ShellKept
  <1>8. CASE TypeEnter
    <2>1. /\ mode = "read" /\ UNCHANGED <<gui, real, window, hosted, disturbed, pending>>
          /\ mode' = "print" /\ then' = "dispatch"
      BY <1>8 DEF TypeEnter, vga_write, consoleVars
    <2>2. ~ Playing /\ ~ pending' /\ ~ EchoDue'
      BY <1>0, <2>1 DEF Playing, EchoDue
    <2>3. EchoInv'
      BY <1>2, <2>1, <2>2
    <2> QED
      BY <2>3 DEF EchoInv
  <1>9. CASE NoCommand \/ CmdDesktopFails \/ (\E text \in Outputs : CmdPrints(text))
    <2>1. mode = "dispatch" /\ UNCHANGED <<gui, real, window, hosted, disturbed, pending>>
      BY <1>9 DEF NoCommand, CmdDesktopFails, CmdPrints, Command, consoleVars
    <2>2. ~ Playing /\ ~ pending'
      BY <1>0, <2>1 DEF Playing
    <2>3. \E text \in Texts : PromptAfter(text)
      BY <1>9, TextFacts DEF NoCommand, CmdDesktopFails, CmdPrints
    <2>4. ShellAt' \in Nat /\ BlankFrom(ShellGrid', ShellAt', ShellCols')
      BY <1>1, <2>1, <2>2
    <2>5. EchoInv'
      BY <2>2, <2>3, <2>4, AtPrompt
    <2> QED
      BY <2>5 DEF EchoInv
  <1>10. ASSUME \E text \in Texts : PromptAfter(text), ~ pending', hosted' => window' = WindowCleared,
                ~ hosted' => real'.screen = Blank(Height', Width') /\ real'.cursor = <<0, 0>>
         PROVE EchoInv'
    BY <1>10, ClearedShell, AtPrompt
  <1>11. Below \in Nat /\ real \in Reals(Below)
    BY DEF TerminalInv, Below, RealTyped
  <1>12. CASE CmdClear \/ LeaveGame
    <2>1. UNCHANGED <<gui, hosted>> /\ vga_clear /\ PromptAfter(<<>>) /\ ~ pending'
      BY <1>0, <1>12 DEF CmdClear, LeaveGame, Command
    <2>2. hosted' => window' = WindowCleared
      BY <2>1 DEF vga_clear
    <2>3. ~ hosted' => real'.screen = Blank(Height', Width') /\ real'.cursor = <<0, 0>>
      <3>1. Height' = Height /\ Width' = Width
        BY <2>1 DEF Height, Width
      <3>2. ~ hosted' => real' = RealCleared(real, gui)
        BY <2>1 DEF vga_clear
      <3> QED
        BY <1>11, <3>1, <3>2, ClearIs
    <2>4. EchoInv'
      BY <1>10, <2>1, <2>2, <2>3, TextFacts
    <2> QED
      BY <2>4 DEF EchoInv
  <1>13. CASE CmdDesktop
    <2>1. hosted' /\ window' = WindowCleared /\ PromptAfter(Banner) /\ ~ pending'
      BY <1>0, <1>13 DEF CmdDesktop, Command
    <2>2. EchoInv'
      BY <1>10, <2>1, TextFacts
    <2> QED
      BY <2>2 DEF EchoInv
  <1>14. CASE DesktopEnds
    <2> PICK screen : screen = [p \in DOMAIN real.screen |-> "black"]
      OBVIOUS
    <2>1. /\ gui' = gui /\ ~ hosted' /\ real' = RealCleared([real EXCEPT !.screen = screen], gui)
          /\ PromptAfter(Goodbye) /\ ~ pending'
      BY <1>0, <1>14 DEF DesktopEnds
    <2>2. screen \in Grids(Height, Width)
      BY <1>11 DEF Reals, Grids, Glyphs
    <2>3. [real EXCEPT !.screen = screen] \in Reals(Below)
      BY <1>11, <2>2 DEF Reals
    <2>4. real'.screen = Blank(Height', Width') /\ real'.cursor = <<0, 0>>
      <3>1. Height' = Height /\ Width' = Width
        BY <2>1 DEF Height, Width
      <3> QED
        BY <1>11, <2>1, <2>3, <3>1, ClearIs
    <2>5. EchoInv'
      BY <1>10, <2>1, <2>4, TextFacts
    <2> QED
      BY <2>5 DEF EchoInv
  <1>15. CASE CmdSnake \/ (\E d \in Dirs : Turn(d)) \/ Quit \/ Move \/ GameOver
    <2>1. Playing'
      BY <1>15 DEF CmdSnake, vga_write, Turn, Quit, Move, GameOver, Playing
    <2> QED
      BY <2>1
  <1>16. CASE UNCHANGED terminalVars
    <2>1. ShellGrid' = ShellGrid /\ ShellAt' = ShellAt /\ ShellCols' = ShellCols /\ Height' = Height
          /\ UNCHANGED <<hosted, disturbed, pending, real, out, line, mode, then>>
      BY <1>16 DEF terminalVars, sessionVars, consoleVars, ShellGrid, ShellAt, ShellCols, Index,
         Width, Height
    <2>2. EchoDue' = EchoDue /\ Playing' = Playing
      BY <2>1 DEF EchoDue, Playing
    <2> QED
      BY <2>1, <2>2 DEF EchoInv, ShellKept, ShellWritten
  <1> QED
    BY <1>3, <1>4, <1>5, <1>6, <1>7, <1>8, <1>9, <1>12, <1>13, <1>14, <1>15, <1>16 DEF TerminalNext

LEMMA InitEcho == TerminalInit => BufferInv /\ EchoInv
  <1> SUFFICES ASSUME TerminalInit PROVE BufferInv /\ EchoInv
    OBVIOUS
  <1>1. BufferInv
    BY DEF TerminalInit, ConsoleInit, BufferInv
  <1>2. real.screen = Blank(Rows, Cols) /\ real.cursor = <<0, 0>>
    <2> PICK at : at = <<0, 0>>
      OBVIOUS
    <2>1. real = [screen |-> Blank(Rows, Cols), buffer |-> Blank(FbRows, FbCols), cursor |-> at, initialized |-> FALSE,
                 switched |-> FALSE, painted |-> FALSE]
      BY DEF TerminalInit, ConsoleInit
    <2>2. real.screen = Blank(Rows, Cols) /\ real.cursor = at
      BY <2>1
    <2> QED
      BY <2>2
  <1>3. ~ hosted /\ ~ pending /\ out = Banner \o Prompt /\ line = <<>>
    BY DEF TerminalInit
  <1>4. ShellAt = Index(<<0, 0>>, ShellCols) /\ ShellGrid = Blank(Rows, Cols)
        /\ ShellCols \in Nat \ {0}
    BY <1>2, <1>3, Sizes DEF ShellAt, ShellGrid, ShellCols
  <1>5. ShellAt \in Nat /\ BlankFrom(ShellGrid, ShellAt, ShellCols)
    <2>1. Index(<<0, 0>>, ShellCols) \in Nat
      BY <1>4, OriginIndex
    <2>2. BlankFrom(Blank(Rows, Cols), ShellAt, ShellCols)
      BY BlankGrid
    <2>3. ShellAt \in Nat
      BY <1>4, <2>1, Zenon
    <2> QED
      BY <1>4, <2>2, <2>3, Zenon
  <1>6. Kept(ShellGrid, ShellAt, ShellCols, EchoDue, Banner \o Prompt, Prompt \o <<>>)
    BY <1>5, TextFacts, NewPrompt
  <1> QED
    BY <1>1, <1>3, <1>6 DEF EchoInv, ShellKept

LEMMA EchoFollows == TerminalInv /\ BufferInv /\ EchoInv => ScreenIsFaithful
  <1> SUFFICES ASSUME TerminalInv, BufferInv, EchoInv PROVE EchoMatchesLine
    BY TypesFollow DEF ScreenIsFaithful, ScreenShowsBuffer, BufferInv, Agrees
  <1> SUFFICES ASSUME mode = "read", hosted \/ ~ disturbed
               PROVE LET shown == Prompt \o line
                         start == ShellAt - Len(shown)
                     IN /\ start >= 0
                        /\ \A p \in DOMAIN ShellGrid :
                              LET i == Index(p, ShellCols) - start + 1
                              IN /\ i \in 1..Len(shown) => ShellGrid[p] = shown[i]
                                 /\ i > Len(shown) => ShellGrid[p] = " "
    BY DEF EchoMatchesLine
  <1> PICK shown : shown = Prompt \o line
    OBVIOUS
  <1> PICK grid, cols : grid = ShellGrid /\ cols = ShellCols
    OBVIOUS
  <1>1. ~ Playing /\ EchoDue /\ out = <<>>
    BY DEF Playing, EchoDue, BufferInv
  <1> PICK a \in Nat : a = ShellAt
    BY <1>1, ShellCells
  <1>2. \A p \in DOMAIN grid : Index(p, cols) \in Nat
    BY <1>1, ShellCells
  <1> PICK m \in Nat : m = Len(shown)
    BY LineFacts DEF TerminalInv, SessionTyped, Texts
  <1>3. ~ Rubbing(grid, a, cols, <<>>, shown)
    BY DEF Rubbing
  <1>4. BlankFrom(grid, a, cols) /\ Echo(grid, a, cols, <<>>, shown)
    BY <1>1, <1>3 DEF EchoInv, ShellKept, Kept
  <1>5. Len(shown) - Len(<<>>) = m
    BY <1>1
  <1>6. Shows(grid, a, cols, m, shown)
    BY <1>4, <1>5 DEF Echo
  <1>7. a - m >= 0
    BY <1>6 DEF Shows
  <1>8. ASSUME NEW p \in DOMAIN grid
        PROVE /\ Index(p, cols) - (a - m) + 1 \in 1..m
                 => grid[p] = shown[Index(p, cols) - (a - m) + 1]
              /\ Index(p, cols) - (a - m) + 1 > m => grid[p] = " "
    <2> PICK x \in Nat : x = Index(p, cols)
      BY <1>2
    <2>1. x - (a - m) + 1 = x - a + m + 1 /\ (x - (a - m) + 1 > m => x >= a)
      OBVIOUS
    <2>2. x - a + m + 1 \in 1..m => grid[p] = shown[x - a + m + 1]
      BY <1>6 DEF Shows
    <2> QED
      BY <1>4, <2>1, <2>2 DEF BlankFrom
  <1> QED
    BY <1>7, <1>8

\* While read_line waits, the prompt and the line it will return stand in front of
\* the cursor and nothing behind it, on the text screen, the framebuffer and in a
\* window, across wrapped rows, scrolling and backspaces; and in graphics mode the
\* framebuffer shows real_screen_buf in every cell on which no program has drawn
\* since the console last drew all of them.
THEOREM ScreenStaysFaithful == TerminalSpec => []ScreenIsFaithful
  <1>1. TerminalInit => TerminalInv /\ BufferInv /\ EchoInv
    BY InitTerminal, InitEcho
  <1>2. TerminalInv /\ BufferInv /\ EchoInv /\ [TerminalNext]_terminalVars
        => (TerminalInv /\ BufferInv /\ EchoInv)'
    BY NextTerminal, NextBuffer, NextEcho
  <1>3. TerminalInv /\ BufferInv /\ EchoInv => ScreenIsFaithful
    BY EchoFollows
  <1> QED
    BY <1>1, <1>2, <1>3, PTL DEF TerminalSpec

----------------------------------------------------------------------------
(* Kronk: the runs and their tables                                        *)

\* The places of the lines on the disk.
Places == {p \in (DOMAIN Disk) \X (Nat \ {0}) : p[2] <= Len(Disk[p[1]])}

Reports == {"none", "not found", "read failed", "no lines", "error", "finished", "too many steps",
            "exception"}

\* The locals of kronk_run.
RunLocals ==
    [file : DOMAIN Disk \cup {0}, cursor : Nat \ {0}, at : Nat \ {0}, steps : 0..(MaxSteps + 1),
     asking : Places \cup {<<>>}, printed : Seq(Ints), typed : Seq(Inputs), mixed : BOOLEAN,
     report : [what : Reports, line : Nat]]

\* The locals of a run agree with where it is.
RunSound(l, r) ==
    /\ r \in RunLocals
    /\ l # "idle" => r.file \in DOMAIN Disk /\ r.steps <= MaxSteps
    /\ l = "store" => r.cursor <= Len(Disk[r.file])
    /\ l = "input" => r.asking \in Places /\ At(r.asking).kind = "input"

StaticsTyped ==
    program \in Seq(Places) /\ variables \in Envs /\ had_error \in BOOLEAN /\ error_line \in Nat

Stages == {"idle", "load", "store", "exec", "input"}

\* Runs that overlap know it; one that does not still has the room it has tested for.
Alone == \A s, u \in Terminals :
    s # u /\ stage[s] # "idle" /\ stage[u] # "idle" => run[s].mixed
RoomIsKept == \A s \in Terminals :
    stage[s] = "store" /\ ~ run[s].mixed => Len(program) < MaxLines

\* Every run agrees with its place, and has the statics to itself or knows better.
KronkInv ==
    /\ StaticsTyped /\ halted \in BOOLEAN
    /\ stage \in [Terminals -> Stages] /\ run \in [Terminals -> RunLocals]
    /\ \A s \in Terminals : RunSound(stage[s], run[s])
    /\ Alone /\ RoomIsKept /\ LoadsStayInside

LEMMA KronkSizes ==
    /\ IntRange \in Nat \ {0} /\ MaxLines \in Nat \ {0} /\ MaxSteps \in Nat /\ Inputs \subseteq Int
    /\ \A f \in DOMAIN Disk : Disk[f] \in Seq(Lines)
    /\ \A s \in Terminals : Files[s] \subseteq DOMAIN Disk
  BY KronkAssumption

LEMMA LinesOnDisk ==
    ASSUME NEW p \in Places
    PROVE /\ At(p) \in Lines /\ At(p).number \in Nat
          /\ At(p).kind = "input" => At(p).var \in Vars
          /\ At(p).kind # "input" => \A env \in Envs : Effect(At(p), env) \in Effects
  <1>1. p[1] \in DOMAIN Disk /\ p[2] \in DOMAIN Disk[p[1]]
    <2>1. p[1] \in DOMAIN Disk /\ p[2] \in Nat \ {0} /\ p[2] <= Len(Disk[p[1]])
      <3>1. p \in (DOMAIN Disk) \X (Nat \ {0}) /\ p[2] <= Len(Disk[p[1]])
        BY DEF Places
      <3> QED
        BY <3>1
    <2>2. Disk[p[1]] \in Seq(Lines)
      BY <2>1, KronkSizes
    <2> QED
      BY <2>1, <2>2
  <1>2. At(p) \in Lines
    BY <1>1 DEF At, Lines
  <1> QED
    BY <1>2, KronkAssumption

LEMMA WrapIsAnInt == ASSUME NEW v \in Int PROVE Wrap(v) \in Ints
  <1>1. (v - MinInt) % (2 * IntRange) \in 0..(2 * IntRange - 1)
    BY KronkSizes DEF MinInt
  <1> QED
    BY <1>1, KronkSizes DEF Wrap, Ints, MinInt

\* A step of one run, which changes no other, keeps the invariant.
LEMMA RunGoesOn ==
    ASSUME KronkInv, NEW s \in Terminals, NEW l \in Stages, NEW r,
           Goto(s, l), Becomes(s, r), RunSound(l, r), r.mixed = run[s].mixed,
           StaticsTyped', halted' \in BOOLEAN,
           stage[s] = "idle" => l = "idle" /\ program' = program,
           l = "store" /\ ~ r.mixed => Len(program') < MaxLines,
           program' = program \/ (~ r.mixed => Len(program') <= MaxLines)
    PROVE KronkInv'
  <1>1. /\ stage' \in [Terminals -> Stages] /\ run' \in [Terminals -> RunLocals]
        /\ stage'[s] = l /\ run'[s] = r
        /\ \A u \in Terminals \ {s} : stage'[u] = stage[u] /\ run'[u] = run[u]
    BY DEF KronkInv, Goto, Becomes, RunSound
  <1>2. \A u \in Terminals : run'[u].mixed = run[u].mixed
    BY <1>1
  <1>3. (\A u \in Terminals : RunSound(stage[u], run[u]))'
    BY <1>1 DEF KronkInv, RunSound, At
  <1>4. Alone'
    BY <1>1, <1>2 DEF KronkInv, Alone
  <1>5. RoomIsKept'
    <2> SUFFICES ASSUME NEW u \in Terminals, stage'[u] = "store", ~ run'[u].mixed
                 PROVE Len(program') < MaxLines
      BY DEF RoomIsKept
    <2>1. CASE u = s
      BY <1>1, <2>1
    <2>2. CASE u # s
      <3>1. stage[u] = "store" /\ ~ run[u].mixed
        BY <1>1, <1>2, <2>2
      <3>2. stage[s] = "idle"
        BY <2>2, <3>1 DEF KronkInv, Alone
      <3> QED
        BY <3>1, <3>2 DEF KronkInv, RoomIsKept
    <2> QED
      BY <2>1, <2>2
  <1>6. LoadsStayInside'
    <2>1. CASE program' = program
      BY <1>2, <2>1 DEF KronkInv, LoadsStayInside, program_count
    <2>2. CASE ~ r.mixed => Len(program') <= MaxLines
      BY <1>1, <2>2 DEF LoadsStayInside, program_count
    <2> QED
      BY <2>1, <2>2
  <1> QED
    BY <1>1, <1>3, <1>4, <1>5, <1>6 DEF KronkInv

LEMMA SkipIs ==
    ASSUME NEW r \in RunLocals
    PROVE /\ SkipLine(r) \in RunLocals /\ SkipLine(r).mixed = r.mixed /\ SkipLine(r).file = r.file
          /\ SkipLine(r).steps = r.steps
  <1>1. SkipLine(r) = [r EXCEPT !.cursor = r.cursor + 1] /\ r.cursor + 1 \in Nat \ {0}
    BY DEF SkipLine, RunLocals
  <1> QED
    BY <1>1 DEF RunLocals

LEMMA MixIs ==
    ASSUME NEW r \in RunLocals
    PROVE /\ Mix(r) \in RunLocals /\ Mix(r).mixed = TRUE /\ Mix(r).file = r.file
          /\ Mix(r).steps = r.steps /\ Mix(r).cursor = r.cursor /\ Mix(r).asking = r.asking
  <1>1. <<>> \in Seq(Ints) /\ <<>> \in Seq(Inputs)
    OBVIOUS
  <1> QED
    BY <1>1 DEF Mix, RunLocals

LEMMA MoreIsSound ==
    ASSUME NEW r \in RunLocals, NEW printed \in Seq(Ints), NEW typed \in Seq(Inputs)
    PROVE /\ Record(r, printed, typed) \in RunLocals
          /\ Record(r, printed, typed).file = r.file /\ Record(r, printed, typed).steps = r.steps
          /\ Record(r, printed, typed).mixed = r.mixed
  <1>1. CASE r.mixed
    BY <1>1 DEF Record
  <1>2. CASE ~ r.mixed
    <2>1. Record(r, printed, typed) = [r EXCEPT !.printed = r.printed \o printed, !.typed = r.typed \o typed]
      BY <1>2 DEF Record
    <2>2. r.printed \o printed \in Seq(Ints) /\ r.typed \o typed \in Seq(Inputs)
      BY DEF RunLocals
    <2> QED
      BY <2>1, <2>2 DEF RunLocals
  <1> QED
    BY <1>1, <1>2 DEF RunLocals

\* A run that ends with a report.
LEMMA EndIsSound ==
    ASSUME NEW s, NEW r \in RunLocals, NEW what \in Reports, NEW number \in Nat, Ends(s, r, what, number)
    PROVE \E new \in RunLocals :
              Goto(s, "idle") /\ Becomes(s, new) /\ RunSound("idle", new) /\ new.mixed = r.mixed
  <1> DEFINE new == [r EXCEPT !.report = Ended(what, number)]
  <1>1. Goto(s, "idle") /\ Becomes(s, new)
    BY DEF Ends
  <1>2. new \in RunLocals /\ new.mixed = r.mixed
    BY DEF RunLocals, Ended
  <1> HIDE DEF new
  <1>3. RunSound("idle", new)
    BY <1>2 DEF RunSound
  <1> QED
    BY <1>1, <1>2, <1>3

\* What the second half of the loop's body does with the run.
LEMMA AfterLineIs ==
    ASSUME NEW s, NEW r \in RunLocals, r.file \in DOMAIN Disk, r.steps <= MaxSteps,
           NEW number \in Nat, NEW next \in {Advance, Stop} \cup (Nat \ {0}),
           had_error' \in BOOLEAN, error_line' \in Nat, AfterLine(s, r, number, next)
    PROVE \E l \in {"idle", "exec"}, new \in RunLocals :
              Goto(s, l) /\ Becomes(s, new) /\ RunSound(l, new) /\ new.mixed = r.mixed
  <1> DEFINE on == [r EXCEPT !.at = IF next = Advance THEN r.at + 1 ELSE next,
                             !.steps = CountStep(r.steps, next)]
             shown == IF error_line' # 0 THEN error_line' ELSE number
  <1>1. CASE had_error'
    <2>1. Ends(s, r, "error", shown)
      BY <1>1 DEF AfterLine
    <2>2. shown \in Nat
      OBVIOUS
    <2> HIDE DEF shown
    <2>3. PICK new \in RunLocals : /\ Goto(s, "idle") /\ Becomes(s, new) /\ RunSound("idle", new)
                                  /\ new.mixed = r.mixed
      BY <2>1, <2>2, EndIsSound DEF Reports
    <2> QED
      BY <2>3
  <1>2. CASE ~ had_error' /\ next = Stop
    <2>1. Ends(s, r, "finished", 0)
      BY <1>2 DEF AfterLine
    <2> QED
      BY <2>1, EndIsSound DEF Reports
  <1>3. CASE ~ had_error' /\ next # Stop
    <2>1. IF on.steps > MaxSteps THEN Ends(s, on, "too many steps", 0)
          ELSE Goto(s, "exec") /\ Becomes(s, on)
      BY <1>3 DEF AfterLine
    <2>2. on \in RunLocals /\ on.mixed = r.mixed /\ on.file = r.file
      <3>1. (IF next = Advance THEN r.at + 1 ELSE next) \in Nat \ {0}
        BY <1>3 DEF RunLocals
      <3>2. CountStep(r.steps, next) \in 0..(MaxSteps + 1)
        BY KronkSizes DEF CountStep, RunLocals
      <3> QED
        BY <3>1, <3>2 DEF RunLocals
    <2> HIDE DEF on
    <2>3. CASE on.steps > MaxSteps
      <3>1. Ends(s, on, "too many steps", 0) /\ "too many steps" \in Reports
        BY <2>1, <2>3 DEF Reports
      <3>2. PICK new \in RunLocals : /\ Goto(s, "idle") /\ Becomes(s, new) /\ RunSound("idle", new)
                                    /\ new.mixed = on.mixed
        BY <2>2, <3>1, EndIsSound
      <3> QED
        BY <2>2, <3>2
    <2>4. CASE ~ on.steps > MaxSteps
      <3>1. on.steps <= MaxSteps
        <4>1. on.steps \in Nat
          BY <2>2 DEF RunLocals
        <4> QED
          BY <2>4, <4>1, KronkSizes
      <3>2. RunSound("exec", on)
        BY <2>2, <3>1 DEF RunSound
      <3> QED
        BY <2>1, <2>2, <2>4, <3>2
    <2> QED
      BY <2>3, <2>4
  <1> QED
    BY <1>1, <1>2, <1>3

\* A set of numbers has a least one.
LEMMA LeastLine ==
    ASSUME NEW T \in SUBSET Nat, T # {}
    PROVE \E m \in T : \A k \in T : m <= k
  <1> DEFINE F == {0..k : k \in T}
  <1>0. \A k \in T : IsFiniteSet(0..k) /\ 0..k \subseteq Nat
    BY FS_Interval
  <1>1. F \subseteq FiniteSubsetsOf(Nat) /\ F # {}
    BY <1>0 DEF FiniteSubsetsOf
  <1>2. IsWellFoundedOn(StrictSubsetOrdering(Nat), FiniteSubsetsOf(Nat))
    BY FS_StrictSubsetOrderingWellFounded
  <1>3. PICK x \in F : \A y \in F : ~ (<<y, x>> \in StrictSubsetOrdering(Nat))
    <2> HIDE DEF F
    <2> QED
      BY <1>1, <1>2, WFMin, Zenon
  <1>4. PICK m \in T : x = 0..m
    OBVIOUS
  <1>5. ASSUME NEW k \in T, k < m PROVE FALSE
    <2>1. 0..k \in F /\ 0..k \subseteq 0..m /\ 0..k # 0..m
      BY <1>5
    <2>2. <<0..k, 0..m>> \in StrictSubsetOrdering(Nat)
      BY <2>1 DEF StrictSubsetOrdering
    <2> QED
      BY <1>3, <1>4, <2>1, <2>2
  <1> QED
    BY <1>5

LEMMA LineIndexIs ==
    ASSUME program \in Seq(Places), NEW number
    PROVE find_line_index(number) \in Nat
  <1> DEFINE found == {i \in 1..program_count : At(program[i]).number = number}
  <1>1. CASE found = {}
    BY <1>1 DEF find_line_index
  <1>2. CASE found # {}
    <2>1. found \in SUBSET Nat
      BY DEF program_count
    <2>2. find_line_index(number) = CHOOSE i \in found : \A j \in found : i <= j
      BY <1>2 DEF find_line_index
    <2> HIDE DEF found
    <2>3. \E i \in found : \A j \in found : i <= j
      BY <1>2, <2>1, LeastLine
    <2> QED
      BY <2>1, <2>2, <2>3
  <1> QED
    BY <1>1, <1>2

LEMMA ReturnedIs ==
    ASSUME program \in Seq(Places), NEW l, NEW e \in Effects
    PROVE Returned(l, e) \in {Advance, Stop} \cup (Nat \ {0})
  <1>1. e.next \in {Advance, Stop, Jumps}
    BY DEF Effects
  <1>2. CASE Lost(l, e)
    BY <1>2 DEF Returned
  <1>3. CASE e.next = Jumps /\ ~ Lost(l, e)
    <2>1. Returned(l, e) = find_line_index(l.target) /\ find_line_index(l.target) # 0
      BY <1>3 DEF Returned, Lost
    <2> QED
      BY <2>1, LineIndexIs
  <1>4. CASE e.next # Jumps
    BY <1>1, <1>4 DEF Returned, Lost
  <1> QED
    BY <1>2, <1>3, <1>4

LEMMA InitKronk == KronkInit => KronkInv
  <1> SUFFICES ASSUME KronkInit PROVE KronkInv
    OBVIOUS
  <1>1. StaticsTyped
    <2>1. 0 \in Ints
      BY KronkSizes DEF Ints, MinInt
    <2>2. variables \in Envs
      BY <2>1 DEF KronkInit, Envs
    <2>3. program \in Seq(Places)
      BY DEF KronkInit
    <2> QED
      BY <2>2, <2>3 DEF KronkInit, StaticsTyped
  <1>2. NoRun \in RunLocals /\ RunSound("idle", NoRun)
    BY KronkSizes DEF NoRun, RunLocals, RunSound, Ended, Reports
  <1>3. \A s \in Terminals : stage[s] = "idle" /\ run[s] = NoRun
    BY DEF KronkInit
  <1>4. stage \in [Terminals -> Stages] /\ run \in [Terminals -> RunLocals]
    BY <1>2 DEF KronkInit, Stages
  <1>5. LoadsStayInside
    BY KronkSizes DEF KronkInit, LoadsStayInside, program_count
  <1> QED
    BY <1>1, <1>2, <1>3, <1>4, <1>5 DEF KronkInit, KronkInv, Alone, RoomIsKept

LEMMA KeepsOpenFails == ASSUME KronkInv, NEW s \in Terminals, OpenFails(s) PROVE KronkInv'
  <1>1. run[s] \in RunLocals /\ stage[s] = "idle" /\ UNCHANGED <<statics, halted>>
    BY DEF KronkInv, OpenFails
  <1>2. PICK what \in {"not found", "read failed"} : Ends(s, run[s], what, 0)
    BY DEF OpenFails
  <1>3. PICK new \in RunLocals :
            Goto(s, "idle") /\ Becomes(s, new) /\ RunSound("idle", new) /\ new.mixed = run[s].mixed
    BY <1>1, <1>2, EndIsSound DEF Reports
  <1>4. StaticsTyped' /\ halted' \in BOOLEAN /\ program' = program /\ "idle" \in Stages
    BY <1>1 DEF KronkInv, StaticsTyped, statics, Stages
  <1> QED
    BY <1>3, <1>4, RunGoesOn

LEMMA KeepsLoadNext == ASSUME KronkInv, NEW s \in Terminals, LoadNext(s) PROVE KronkInv'
  <1>1. /\ stage[s] = "load" /\ UNCHANGED <<statics, halted>> /\ run[s].cursor <= Len(Text(s))
        /\ HasRoom(program_count) /\ RunSound("load", run[s]) /\ run[s] \in RunLocals
    BY DEF KronkInv, LoadNext
  <1>2. StaticsTyped' /\ halted' \in BOOLEAN /\ program' = program
    BY <1>1 DEF KronkInv, StaticsTyped, statics
  <1>3. CASE Text(s)[run[s].cursor].number = 0
    <2>1. Becomes(s, SkipLine(run[s])) /\ stage' = stage
      BY <1>3 DEF LoadNext
    <2>2. Goto(s, "load")
      BY <1>1, <2>1 DEF Goto, KronkInv
    <2>3. SkipLine(run[s]) \in RunLocals /\ SkipLine(run[s]).mixed = run[s].mixed
          /\ SkipLine(run[s]).file = run[s].file /\ SkipLine(run[s]).steps = run[s].steps
      BY <1>1, SkipIs
    <2>4. RunSound("load", SkipLine(run[s]))
      BY <1>1, <2>3 DEF RunSound
    <2>5. "load" \in Stages
      BY DEF Stages
    <2> QED
      BY <1>1, <1>2, <2>1, <2>2, <2>3, <2>4, <2>5, RunGoesOn
  <1>4. CASE Text(s)[run[s].cursor].number # 0
    <2>1. Goto(s, "store") /\ run' = run
      BY <1>4 DEF LoadNext
    <2>2. Becomes(s, run[s])
      BY <2>1 DEF Becomes, KronkInv
    <2>3. RunSound("store", run[s])
      BY <1>1 DEF RunSound, Text
    <2>4. "store" \in Stages /\ Len(program') < MaxLines
      BY <1>1, <1>2 DEF Stages, HasRoom, program_count
    <2> QED
      BY <1>1, <1>2, <2>1, <2>2, <2>3, <2>4, RunGoesOn
  <1> QED
    BY <1>3, <1>4

LEMMA KeepsStoreLine == ASSUME KronkInv, NEW s \in Terminals, StoreLine(s) PROVE KronkInv'
  <1> DEFINE place == <<run[s].file, run[s].cursor>>
             new == SkipLine(run[s])
  <1>1. /\ stage[s] = "store" /\ UNCHANGED <<variables, had_error, error_line, halted>>
        /\ program' = Append(program, place) /\ Becomes(s, new) /\ Goto(s, "load")
        /\ RunSound("store", run[s]) /\ run[s] \in RunLocals
    BY DEF KronkInv, StoreLine
  <1>2. place \in Places
    BY <1>1 DEF RunSound, RunLocals, Places
  <1>3. new \in RunLocals /\ new.mixed = run[s].mixed /\ new.file = run[s].file /\ new.steps = run[s].steps
    BY <1>1, SkipIs
  <1> HIDE DEF place, new
  <1>4. RunSound("load", new)
    BY <1>1, <1>3 DEF RunSound
  <1>5. StaticsTyped' /\ halted' \in BOOLEAN /\ "load" \in Stages
    BY <1>1, <1>2 DEF KronkInv, StaticsTyped, Stages
  <1>6. ~ new.mixed => Len(program') <= MaxLines
    <2>1. ~ new.mixed => Len(program) < MaxLines
      BY <1>1, <1>3 DEF KronkInv, RoomIsKept
    <2> QED
      BY <1>1, <2>1, KronkSizes DEF KronkInv, StaticsTyped
  <1> QED
    BY <1>1, <1>3, <1>4, <1>5, <1>6, RunGoesOn

LEMMA KeepsLoadEnds == ASSUME KronkInv, NEW s \in Terminals, LoadEnds(s) PROVE KronkInv'
  <1>1. /\ stage[s] = "load" /\ UNCHANGED <<statics, halted>>
        /\ RunSound("load", run[s]) /\ run[s] \in RunLocals
    BY DEF KronkInv, LoadEnds
  <1>2. /\ StaticsTyped' /\ halted' \in BOOLEAN /\ program' = program
        /\ {"idle", "exec"} \subseteq Stages
    BY <1>1 DEF KronkInv, StaticsTyped, statics, Stages
  <1>3. CASE program_count = 0
    <2>1. Ends(s, run[s], "no lines", 0)
      BY <1>3 DEF LoadEnds
    <2>2. PICK new \in RunLocals :
              Goto(s, "idle") /\ Becomes(s, new) /\ RunSound("idle", new) /\ new.mixed = run[s].mixed
      BY <1>1, <2>1, EndIsSound DEF Reports
    <2> QED
      BY <1>1, <1>2, <2>2, RunGoesOn
  <1>4. CASE program_count # 0
    <2>1. Goto(s, "exec") /\ run' = run
      BY <1>4 DEF LoadEnds
    <2>2. Becomes(s, run[s])
      BY <2>1 DEF Becomes, KronkInv
    <2>3. RunSound("exec", run[s])
      BY <1>1 DEF RunSound
    <2> QED
      BY <1>1, <1>2, <2>1, <2>2, <2>3, RunGoesOn
  <1> QED
    BY <1>3, <1>4

LEMMA KeepsRunEnds == ASSUME KronkInv, NEW s \in Terminals, RunEnds(s) PROVE KronkInv'
  <1>1. /\ stage[s] = "exec" /\ UNCHANGED <<statics, halted>> /\ run[s] \in RunLocals
        /\ Ends(s, run[s], "finished", 0)
    BY DEF KronkInv, RunEnds
  <1>2. StaticsTyped' /\ halted' \in BOOLEAN /\ program' = program /\ "idle" \in Stages
    BY <1>1 DEF KronkInv, StaticsTyped, statics, Stages
  <1>3. PICK new \in RunLocals :
            Goto(s, "idle") /\ Becomes(s, new) /\ RunSound("idle", new) /\ new.mixed = run[s].mixed
    BY <1>1, EndIsSound DEF Reports
  <1> QED
    BY <1>1, <1>2, <1>3, RunGoesOn

\* The line that a run is at.
LEMMA LineIsThere ==
    ASSUME KronkInv, NEW s \in Terminals, run[s].at <= program_count
    PROVE program[run[s].at] \in Places
  <1>1. run[s].at \in Nat \ {0}
    BY DEF KronkInv, RunLocals
  <1> QED
    BY <1>1 DEF KronkInv, StaticsTyped, program_count

LEMMA KeepsAskInput == ASSUME KronkInv, NEW s \in Terminals, AskInput(s) PROVE KronkInv'
  <1> DEFINE new == [run[s] EXCEPT !.asking = program[run[s].at]]
  <1>1. /\ stage[s] = "exec" /\ UNCHANGED <<statics, halted>> /\ RunSound("exec", run[s])
        /\ run[s] \in RunLocals /\ run[s].at <= program_count
        /\ At(program[run[s].at]).kind = "input"
        /\ Goto(s, "input") /\ Becomes(s, new)
    BY DEF KronkInv, AskInput
  <1>2. StaticsTyped' /\ halted' \in BOOLEAN /\ program' = program /\ "input" \in Stages
    BY <1>1 DEF KronkInv, StaticsTyped, statics, Stages
  <1>3. program[run[s].at] \in Places
    BY <1>1, LineIsThere
  <1>4. /\ new \in RunLocals /\ new.mixed = run[s].mixed /\ new.file = run[s].file
        /\ new.steps = run[s].steps /\ new.asking = program[run[s].at]
    BY <1>1, <1>3 DEF RunLocals
  <1> HIDE DEF new
  <1>5. RunSound("input", new)
    BY <1>1, <1>3, <1>4 DEF RunSound
  <1> QED
    BY <1>1, <1>2, <1>4, <1>5, RunGoesOn

\* After a statement, whether or not it fails.
LEMMA KeepsAfterLine ==
    ASSUME KronkInv, NEW s \in Terminals, stage[s] # "idle",
           NEW r \in RunLocals, r.file = run[s].file, r.steps = run[s].steps, r.mixed = run[s].mixed,
           NEW number \in Nat, NEW next \in {Advance, Stop} \cup (Nat \ {0}),
           AfterLine(s, r, number, next), StaticsTyped', halted' = halted, program' = program
    PROVE KronkInv'
  <1>1. r.file \in DOMAIN Disk /\ r.steps <= MaxSteps
    BY DEF KronkInv, RunSound
  <1>2. had_error' \in BOOLEAN /\ error_line' \in Nat
    BY DEF StaticsTyped
  <1>3. PICK l \in {"idle", "exec"}, new \in RunLocals :
            Goto(s, l) /\ Becomes(s, new) /\ RunSound(l, new) /\ new.mixed = r.mixed
    BY <1>1, <1>2, AfterLineIs
  <1>4. l \in Stages /\ l # "store" /\ halted' \in BOOLEAN
    BY <1>3 DEF Stages, KronkInv
  <1> QED
    BY <1>3, <1>4, RunGoesOn

LEMMA KeepsGetInput == ASSUME KronkInv, NEW s \in Terminals, GetInput(s) PROVE KronkInv'
  <1> DEFINE l == At(run[s].asking)
  <1>1. /\ stage[s] = "input" /\ UNCHANGED <<program, halted>> /\ run[s] \in RunLocals
        /\ run[s].asking \in Places /\ l.kind = "input"
    BY DEF KronkInv, GetInput, RunSound
  <1>2. l.var \in Vars /\ l.number \in Nat
    BY <1>1, LinesOnDisk
  <1>3. PICK v \in Inputs :
            /\ variables' = [variables EXCEPT ![l.var] = Wrap(v)]
            /\ UNCHANGED <<had_error, error_line>>
            /\ AfterLine(s, [Record(run[s], <<>>, <<v>>) EXCEPT !.asking = <<>>], l.number, Advance)
    BY DEF GetInput
  <1> DEFINE more == Record(run[s], <<>>, <<v>>)
             r == [more EXCEPT !.asking = <<>>]
  <1>4. more \in RunLocals /\ more.file = run[s].file /\ more.steps = run[s].steps /\ more.mixed = run[s].mixed
    <2>1. <<>> \in Seq(Ints) /\ <<v>> \in Seq(Inputs)
      OBVIOUS
    <2> QED
      BY <1>1, <2>1, MoreIsSound
  <1> HIDE DEF l, more
  <1>5. r \in RunLocals /\ r.file = run[s].file /\ r.steps = run[s].steps /\ r.mixed = run[s].mixed
    BY <1>4 DEF RunLocals
  <1>6. Wrap(v) \in Ints
    BY WrapIsAnInt, KronkSizes
  <1>7. StaticsTyped'
    BY <1>1, <1>2, <1>3, <1>6 DEF KronkInv, StaticsTyped, Envs
  <1>8. AfterLine(s, r, l.number, Advance)
    BY <1>3 DEF l, more
  <1> HIDE DEF r
  <1> QED
    BY <1>1, <1>2, <1>5, <1>7, <1>8, KeepsAfterLine

LEMMA KeepsExecLine == ASSUME KronkInv, NEW s \in Terminals, ExecLine(s) PROVE KronkInv'
  <1> DEFINE place == program[run[s].at]
             l == At(place)
             e == Effect(l, variables)
             r == Record(run[s], e.out, <<>>)
  <1>1. /\ stage[s] = "exec" /\ program' = program /\ run[s] \in RunLocals
        /\ run[s].at <= program_count /\ l.kind # "input" /\ Executed(s, l, e)
    BY DEF KronkInv, ExecLine
  <1>2. place \in Places
    BY <1>1, LineIsThere
  <1>3. e \in Effects /\ l.number \in Nat
    BY <1>1, <1>2, LinesOnDisk DEF KronkInv, StaticsTyped
  <1> HIDE DEF place, l, e
  <1>4. CASE e.trap
    <2>1. Ends(s, run[s], "exception", 0) /\ halted' = TRUE /\ UNCHANGED <<variables, had_error, error_line>>
      BY <1>1, <1>4 DEF Executed
    <2>2. StaticsTyped' /\ halted' \in BOOLEAN /\ "idle" \in Stages
      BY <1>1, <2>1 DEF KronkInv, StaticsTyped, Stages
    <2>3. PICK new \in RunLocals :
              Goto(s, "idle") /\ Becomes(s, new) /\ RunSound("idle", new) /\ new.mixed = run[s].mixed
      BY <1>1, <2>1, EndIsSound DEF Reports
    <2> QED
      BY <1>1, <2>2, <2>3, RunGoesOn
  <1>5. CASE ~ e.trap
    <2>1. /\ variables' = e.env /\ had_error' = (had_error \/ e.err \/ Lost(l, e))
          /\ error_line' = IF Lost(l, e) THEN l.number ELSE error_line
          /\ AfterLine(s, r, l.number, Returned(l, e)) /\ halted' = halted
      BY <1>1, <1>5 DEF Executed
    <2>2. StaticsTyped'
      <3>1. e.env \in Envs
        BY <1>3 DEF Effects
      <3>2. had_error' \in BOOLEAN
        BY <2>1
      <3>3. error_line' \in Nat
        BY <1>3, <2>1 DEF KronkInv, StaticsTyped
      <3> QED
        BY <1>1, <2>1, <3>1, <3>2, <3>3 DEF KronkInv, StaticsTyped
    <2>3. Returned(l, e) \in {Advance, Stop} \cup (Nat \ {0})
      BY <1>3, ReturnedIs DEF KronkInv, StaticsTyped
    <2>4. r \in RunLocals /\ r.file = run[s].file /\ r.steps = run[s].steps /\ r.mixed = run[s].mixed
      <3>1. e.out \in Seq(Ints) /\ <<>> \in Seq(Inputs)
        BY <1>3 DEF Effects
      <3> QED
        BY <1>1, <3>1, MoreIsSound
    <2> HIDE DEF r
    <2> QED
      BY <1>1, <1>3, <2>1, <2>2, <2>3, <2>4, KeepsAfterLine
  <1> QED
    BY <1>4, <1>5

LEMMA KeepsOpen == ASSUME KronkInv, NEW s \in Terminals, Open(s) PROVE KronkInv'
  <1> DEFINE busy == {u \in Terminals \ {s} : stage[u] # "idle"}
  <1>1. /\ program' = <<>> /\ variables' = [x \in Vars |-> 0] /\ had_error' = FALSE /\ error_line' = 0
        /\ stage' = [stage EXCEPT ![s] = "load"] /\ halted' = halted
    BY DEF Open, Goto
  <1>2. PICK f \in Files[s] :
            run' = [u \in Terminals |-> CASE u = s -> [NoRun EXCEPT !.file = f, !.mixed = busy # {}]
                                          [] u \in busy -> Mix(run[u])
                                          [] OTHER -> NoRun]
    BY DEF Open
  <1> DEFINE new == [NoRun EXCEPT !.file = f, !.mixed = busy # {}]
  <1>3. f \in DOMAIN Disk
    BY KronkSizes
  <1>4. NoRun \in RunLocals /\ RunSound("idle", NoRun) /\ NoRun.mixed = FALSE
    BY KronkSizes DEF NoRun, RunLocals, RunSound, Ended, Reports
  <1>5. RunSound("load", new) /\ new.mixed = (busy # {})
    <2>1. new \in RunLocals /\ new.mixed = (busy # {}) /\ new.file = f /\ new.steps = 0
      BY <1>3, <1>4 DEF NoRun, RunLocals
    <2> HIDE DEF new, busy
    <2> QED
      BY <1>3, <2>1, KronkSizes DEF RunSound
  <1>6. ASSUME NEW u \in busy PROVE RunSound(stage[u], Mix(run[u])) /\ Mix(run[u]).mixed = TRUE
    <2>1. RunSound(stage[u], run[u]) /\ run[u] \in RunLocals
      BY DEF KronkInv
    <2> DEFINE m == Mix(run[u])
    <2>2. /\ m \in RunLocals /\ m.mixed = TRUE /\ m.file = run[u].file /\ m.steps = run[u].steps
          /\ m.cursor = run[u].cursor /\ m.asking = run[u].asking
      BY <2>1, MixIs
    <2> HIDE DEF m
    <2>3. RunSound(stage[u], m)
      BY <2>1, <2>2 DEF RunSound
    <2> QED
      BY <2>2, <2>3 DEF m
  <1> HIDE DEF new
  <1>7. /\ run'[s] = new /\ stage'[s] = "load"
        /\ \A u \in Terminals \ {s} : stage'[u] = stage[u] /\ run'[u] = IF u \in busy THEN Mix(run[u]) ELSE NoRun
    BY <1>1, <1>2 DEF KronkInv, new
  <1>8. (\A u \in Terminals : RunSound(stage[u], run[u]))'
    <2> SUFFICES ASSUME NEW u \in Terminals PROVE RunSound(stage'[u], run'[u])
      BY DEF RunSound, At
    <2>1. CASE u = s
      BY <1>5, <1>7, <2>1
    <2>2. CASE u \in busy
      BY <1>6, <1>7, <2>2
    <2>3. CASE u # s /\ u \notin busy
      BY <1>4, <1>7, <2>3
    <2> QED
      BY <2>1, <2>2, <2>3
  <1>9. stage' \in [Terminals -> Stages] /\ run' \in [Terminals -> RunLocals]
    <2>1. \A u \in Terminals : run'[u] \in RunLocals
      BY <1>8 DEF RunSound
    <2> QED
      BY <1>1, <1>2, <2>1 DEF KronkInv, Stages
  <1>10. Alone'
    <2> SUFFICES ASSUME NEW t \in Terminals, NEW u \in Terminals, t # u,
                        stage'[t] # "idle", stage'[u] # "idle"
                 PROVE run'[t].mixed
      BY DEF Alone
    <2>1. CASE t = s
      <3>1. u \in busy
        BY <1>7, <2>1
      <3> QED
        BY <1>5, <1>7, <2>1, <3>1
    <2>2. CASE t # s
      <3>1. t \in busy
        BY <1>7, <2>2
      <3> QED
        BY <1>6, <1>7, <2>2, <3>1
    <2> QED
      BY <2>1, <2>2
  <1>11. Len(program') = 0 /\ RoomIsKept' /\ LoadsStayInside'
    BY <1>1, KronkSizes DEF RoomIsKept, LoadsStayInside, program_count
  <1>12. StaticsTyped' /\ halted' \in BOOLEAN
    <2>1. 0 \in Ints
      BY KronkSizes DEF Ints, MinInt
    <2>2. variables' \in Envs /\ program' \in Seq(Places)
      BY <1>1, <2>1 DEF Envs
    <2> QED
      BY <1>1, <2>2 DEF KronkInv, StaticsTyped
  <1> QED
    BY <1>8, <1>9, <1>10, <1>11, <1>12 DEF KronkInv

LEMMA NextKronk == KronkInv /\ [KronkNext]_kronkVars => KronkInv'
  <1> SUFFICES ASSUME KronkInv, [KronkNext]_kronkVars PROVE KronkInv'
    OBVIOUS
  <1>1. CASE UNCHANGED kronkVars
    BY <1>1 DEF kronkVars, statics, KronkInv, StaticsTyped, RunSound, At, Alone, RoomIsKept,
                LoadsStayInside, program_count
  <1>2. CASE KronkNext
    <2>1. PICK s \in Terminals : OpenFails(s) \/ Open(s) \/ RunStep(s) \/ GetInput(s)
      BY <1>2 DEF KronkNext
    <2>2. CASE OpenFails(s) \/ Open(s) \/ GetInput(s)
      BY <2>2, KeepsOpenFails, KeepsOpen, KeepsGetInput
    <2>3. CASE RunStep(s)
      BY <2>3, KeepsLoadNext, KeepsStoreLine, KeepsLoadEnds, KeepsExecLine, KeepsAskInput, KeepsRunEnds
         DEF RunStep
    <2> QED
      BY <2>1, <2>2, <2>3
  <1> QED
    BY <1>1, <1>2

\* Whatever the shells of any number of terminals load and run, the interpreter's
\* variables, flags and places have their types, and no load passes the end of
\* program[] but two at a time.
THEOREM KronkTablesStaySound == KronkSpec => []TablesAreSound
  <1>1. KronkInv => TablesAreSound
    <2> SUFFICES ASSUME KronkInv PROVE KronkTypeOK
      BY DEF TablesAreSound, KronkInv
    <2>1. ASSUME NEW s \in Terminals
          PROVE /\ run[s].cursor \in Nat /\ run[s].at \in Nat /\ run[s].steps \in 0..(MaxSteps + 1)
                /\ run[s].printed \in Seq(Ints) /\ run[s].typed \in Seq(Inputs)
                /\ run[s].mixed \in BOOLEAN
      BY DEF KronkInv, RunLocals
    <2> QED
      BY <2>1 DEF KronkTypeOK, KronkInv, StaticsTyped, Envs, Stages
  <1> QED
    BY <1>1, InitKronk, NextKronk, PTL DEF KronkSpec
=============================================================================
