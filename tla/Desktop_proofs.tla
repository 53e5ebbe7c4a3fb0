--------------------------- MODULE Desktop_proofs ---------------------------
(***************************************************************************)
(* Theorems about Desktop, for every number of windows, every size of the  *)
(* rings, and any number of tasks and keys: windows, stack and tasks fit   *)
(* together, and keys arrive once and in order.                            *)
(***************************************************************************)
EXTENDS Desktop, TLAPS, FiniteSetTheorems, WellFoundedInduction

----------------------------------------------------------------------------
(* The invariant about windows                                             *)

Rings(size) == [cell : [0..(size - 1) -> Keys], head : 0..(size - 1), tail : 0..(size - 1)]

\* The rings and what was read from them, as functions and records.
Shapes ==
    /\ kb \in Rings(KbSize) /\ queue \in [Tasks -> Rings(QueueSize)]
    /\ received \in [Tasks -> Seq(Keys)] /\ stolen \in Seq(Keys)

\* No window is in the stack twice.
Distinct(o) == \A i, j \in 1..Len(o) : o[i] = o[j] => i = j

\* Each window has a task of its own, and none that is still to be created; each
\* task that is alive has a window.
Hosting ==
    /\ \A r, s \in Slots : hosted[r] = hosted[s] /\ hosted[r] # NoTask => r = s
    /\ \A s \in Slots : hosted[s] <= created
    /\ \A t \in Tasks : /\ state[t] \in {"new", "running"} => pc # "off" /\ \E s \in Slots : hosted[s] = t
                        /\ t > created => state[t] = "none"

\* A key in hand is pushed to the task of an open window: the windows do not
\* change before route_keyboard is done.
Routing == pc \in {"push", "store"} => focused # NoSlot /\ hosted[focused] # NoTask

WinInv == TypeOK /\ Shapes /\ StackIsConsistent /\ Distinct(order) /\ Hosting /\ Routing

----------------------------------------------------------------------------
(* Sequences of windows                                                    *)

\* A set of numbers has a least one, and Min finds it.
LEMMA MinIsLeast ==
    ASSUME NEW T \in SUBSET Nat, T # {}
    PROVE  Min(T) \in T /\ \A k \in T : Min(T) <= k
<1> DEFINE Upto(k) == 0..k
           F == {Upto(k) : k \in T}
<1>1. \A k \in T : IsFiniteSet(0..k) /\ 0..k \subseteq Nat
  BY FS_Interval
<1>2. F \subseteq FiniteSubsetsOf(Nat) /\ F # {}
  BY <1>1 DEF FiniteSubsetsOf
<1>3. IsWellFoundedOn(StrictSubsetOrdering(Nat), FiniteSubsetsOf(Nat))
  BY FS_StrictSubsetOrderingWellFounded
<1>4. PICK x \in F : \A y \in F : ~ (<<y, x>> \in StrictSubsetOrdering(Nat))
  <2> HIDE DEF F
  <2> QED
    BY <1>2, <1>3, WFMin, Zenon
<1>5. PICK m \in T : x = 0..m
  OBVIOUS
<1>6. ASSUME NEW k \in T, k < m PROVE FALSE
  <2>1. 0..k \in F
    OBVIOUS
  <2>2. 0..k \subseteq 0..m /\ 0..k # 0..m
    BY <1>6
  <2>3. <<0..k, 0..m>> \in StrictSubsetOrdering(Nat)
    BY <2>2 DEF StrictSubsetOrdering
  <2>4. QED
    BY <1>4, <1>5, <2>1, <2>3
<1>7. m \in T /\ \A k \in T : m <= k
  BY <1>6
<1>8. QED
  BY <1>7 DEF Min

\* order_remove takes the window out of a stack that holds it once, and leaves
\* the order of the others alone; a window that is not there changes nothing.
LEMMA RemoveOne ==
    ASSUME NEW o \in Seq(Slots), Distinct(o), NEW s \in Slots
    PROVE  LET r == order_remove(o, s)
           IN /\ r \in Seq(Slots) /\ Distinct(r) /\ ToSet(r) = ToSet(o) \ {s}
              /\ Len(r) = IF s \in ToSet(o) THEN Len(o) - 1 ELSE Len(o)
              /\ o # <<>> /\ Last(o) # s => r # <<>> /\ Last(r) = Last(o)
<1> DEFINE T == {i \in DOMAIN o : o[i] = s}
           pos == Min(T)
           r == order_remove(o, s)
<1>1. CASE s \notin ToSet(o)
  BY <1>1 DEF order_remove
<1>2. CASE s \in ToSet(o)
  <2>1. T \in SUBSET Nat /\ T # {}
    BY <1>2 DEF ToSet
  <2>2. pos \in T
    BY <2>1, MinIsLeast
  <2>3. pos \in 1..Len(o) /\ o[pos] = s
    BY <2>2
  <2>4. r = [i \in 1..(Len(o) - 1) |-> IF i < pos THEN o[i] ELSE o[i + 1]]
    BY <1>2 DEF order_remove
  <2> HIDE DEF pos, r, T
  <2>5. Len(o) - 1 \in Nat /\ \A i \in 1..(Len(o) - 1) : r[i] = IF i < pos THEN o[i] ELSE o[i + 1]
    BY <2>3, <2>4
  <2>6. r \in Seq(Slots) /\ Len(r) = Len(o) - 1 /\ DOMAIN r = 1..(Len(o) - 1)
    BY <2>3, <2>4, <2>5
  <2>7. Distinct(r)
    BY <2>3, <2>5, <2>6 DEF Distinct
  <2>8. ASSUME NEW x \in ToSet(r) PROVE x \in ToSet(o) \ {s}
    <3>1. PICK i \in 1..(Len(o) - 1) : x = r[i]
      BY <2>6, <2>8 DEF ToSet
    <3>2. PICK j \in 1..Len(o) : j # pos /\ x = o[j]
      BY <2>3, <2>5, <3>1
    <3>3. QED
      BY <2>3, <3>2 DEF ToSet, Distinct
  <2>9. ASSUME NEW x \in ToSet(o) \ {s} PROVE x \in ToSet(r)
    <3>1. PICK j \in 1..Len(o) : x = o[j]
      BY <2>9 DEF ToSet
    <3>2. j # pos
      BY <2>3, <2>9, <3>1
    <3>3. CASE j < pos
      <4>1. j \in 1..(Len(o) - 1) /\ r[j] = x
        BY <2>3, <2>5, <3>1, <3>3
      <4>2. QED
        BY <2>6, <4>1 DEF ToSet
    <3>4. CASE j > pos
      <4>1. j - 1 \in 1..(Len(o) - 1) /\ r[j - 1] = x
        BY <2>3, <2>5, <3>1, <3>4
      <4>2. QED
        BY <2>6, <4>1 DEF ToSet
    <3>5. QED
      BY <2>3, <3>2, <3>3, <3>4
  <2>10. ASSUME o # <<>>, Last(o) # s PROVE r # <<>> /\ Last(r) = Last(o)
    <3>1. pos # Len(o)
      BY <2>3, <2>10 DEF Last
    <3>2. Len(r) \in 1..(Len(o) - 1) /\ r[Len(r)] = o[Len(o)]
      BY <2>3, <2>5, <2>6, <3>1
    <3>3. QED
      BY <2>6, <3>2 DEF Last
  <2>11. ToSet(r) = ToSet(o) \ {s}
    BY <2>8, <2>9
  <2>12. QED
    BY <1>2, <2>6, <2>7, <2>10, <2>11 DEF r
<1>3. QED
  BY <1>1, <1>2

\* A window pushed in front of a stack without it.
LEMMA PushFront ==
    ASSUME NEW o \in Seq(Slots), Distinct(o), NEW s \in Slots, s \notin ToSet(o)
    PROVE  LET r == Append(o, s)
           IN /\ r \in Seq(Slots) /\ Distinct(r) /\ ToSet(r) = ToSet(o) \cup {s}
              /\ Len(r) = Len(o) + 1 /\ r # <<>> /\ Last(r) = s
<1> DEFINE r == Append(o, s)
<1>1. r \in Seq(Slots) /\ Len(r) = Len(o) + 1 /\ r # <<>> /\ Last(r) = s
  BY DEF Last
<1>2. \A i \in 1..Len(r) : r[i] = IF i = Len(o) + 1 THEN s ELSE o[i]
  OBVIOUS
<1>3. DOMAIN r = 1..(Len(o) + 1) /\ DOMAIN o = 1..Len(o)
  OBVIOUS
<1> HIDE DEF r
<1>4. Distinct(r)
  BY <1>1, <1>2, <1>3 DEF Distinct, ToSet
<1>5. ToSet(r) = ToSet(o) \cup {s}
  <2>1. ASSUME NEW x \in ToSet(r) PROVE x \in ToSet(o) \cup {s}
    BY <1>1, <1>2, <1>3 DEF ToSet
  <2>2. ASSUME NEW x \in ToSet(o) PROVE x \in ToSet(r)
    <3>1. PICK i \in 1..Len(o) : x = o[i]
      BY <1>3 DEF ToSet
    <3>2. i \in 1..Len(r) /\ r[i] = x
      BY <1>1, <1>2, <3>1
    <3>3. QED
      BY <1>1, <1>3, <3>2 DEF ToSet
  <2>3. Len(o) + 1 \in DOMAIN r /\ r[Len(o) + 1] = s
    BY <1>1, <1>2, <1>3
  <2>4. s \in ToSet(r)
    BY <2>3 DEF ToSet
  <2>5. QED
    BY <2>1, <2>2, <2>4
<1>6. QED
  BY <1>1, <1>4, <1>5 DEF r

----------------------------------------------------------------------------
(* Types                                                                   *)

WindowTypes ==
    /\ hosted \in [Slots -> Tasks \cup {NoTask}] /\ order \in Seq(Slots)
    /\ focused \in Slots \cup {NoSlot} /\ dragging \in Slots \cup {NoSlot} /\ button \in {0, 1}
    /\ created \in 0..MaxTasks /\ state \in [Tasks -> {"none", "new", "running", "zombie"}]

KeyTypes ==
    /\ pressed \in Keys /\ pc \in {"off", "loop", "route", "advance", "push", "store"}
    /\ key \in Keys /\ next \in 0..(QueueSize - 1) /\ torn \in {0, 1}

LEMMA TypesSplit == Shapes => (TypeOK <=> WindowTypes /\ KeyTypes)
  BY DEF Shapes, Rings, TypeOK, RingOK, WindowTypes, KeyTypes

\* After counts around the ring.
LEMMA AfterIs ==
    ASSUME NEW size \in Nat \ {0, 1}, NEW i \in 0..(size - 1)
    PROVE  /\ After(i, size) = IF i = size - 1 THEN 0 ELSE i + 1
           /\ After(i, size) \in 0..(size - 1)
  BY DEF After

LEMMA RingFields ==
    ASSUME NEW size, NEW r \in Rings(size)
    PROVE  /\ r.head \in 0..(size - 1) /\ r.tail \in 0..(size - 1)
           /\ r.cell[r.head] \in Keys /\ r.cell[r.tail] \in Keys
  BY DEF Rings

\* A ring with its ends moved, or with one key stored at its head.
LEMMA RingEnds ==
    ASSUME NEW size, NEW r \in Rings(size), NEW x \in 0..(size - 1)
    PROVE  /\ [r EXCEPT !.tail = x] \in Rings(size)
           /\ [r EXCEPT !.head = x, !.tail = x] \in Rings(size)
  BY DEF Rings

LEMMA RingStores ==
    ASSUME NEW size, NEW r \in Rings(size), NEW x \in 0..(size - 1), NEW k \in Keys
    PROVE  [r EXCEPT !.cell[r.head] = k, !.head = x] \in Rings(size)
  BY DEF Rings

LEMMA KeyTypesStep ==
    ASSUME WinInv, [Next]_vars
    PROVE  Shapes' /\ KeyTypes'
<1>0. /\ Shapes /\ KeyTypes /\ WindowTypes /\ Routing
      /\ KbSize \in Nat \ {0, 1} /\ QueueSize \in Nat \ {0, 1} /\ MaxKeys \in Nat
  BY TypesSplit, DesktopAssumption DEF WinInv
<1>1. kb \in Rings(KbSize) /\ queue \in [Tasks -> Rings(QueueSize)]
  BY <1>0 DEF Shapes
<1>2. /\ After(kb.head, KbSize) \in 0..(KbSize - 1) /\ After(kb.tail, KbSize) \in 0..(KbSize - 1)
      /\ kb.head \in 0..(KbSize - 1) /\ kb.cell[kb.tail] \in Keys
  BY <1>0, <1>1, AfterIs, RingFields
<1>3. ASSUME NEW t \in Tasks
      PROVE  /\ After(queue[t].head, QueueSize) \in 0..(QueueSize - 1)
             /\ After(queue[t].tail, QueueSize) \in 0..(QueueSize - 1)
             /\ queue[t].cell[queue[t].tail] \in Keys /\ queue[t] \in Rings(QueueSize)
  BY <1>0, <1>1, AfterIs, RingFields
<1>4. CASE Press
  <2>1. pressed' \in Keys
    BY <1>0, <1>4 DEF Press, KeyTypes, Keys
  <2>2. kb' \in Rings(KbSize)
    BY <1>0, <1>1, <1>2, <1>4, <2>1, RingStores DEF Press
  <2>3. QED
    BY <1>0, <1>4, <2>1, <2>2 DEF Press, KeyTypes, Shapes, taskVars
<1>5. CASE RawGetchar
  <2>1. kb' \in Rings(KbSize)
    BY <1>0, <1>1, <1>2, <1>5, RingEnds DEF RawGetchar
  <2>2. stolen' \in Seq(Keys)
    BY <1>0, <1>2, <1>5 DEF RawGetchar, Shapes
  <2>3. QED
    BY <1>0, <1>5, <2>1, <2>2 DEF RawGetchar, KeyTypes, Shapes, taskVars
<1>6. CASE RouteKeyboard
  <2>1. CASE Route \/ RouteDone
    BY <1>0, <1>2, <2>1 DEF Route, RouteDone, KeyTypes, Shapes, taskVars
  <2>2. CASE Advance
    <3>1. kb' \in Rings(KbSize)
      BY <1>0, <1>1, <1>2, <2>2, RingEnds DEF Advance
    <3>2. QED
      BY <1>0, <2>2, <3>1 DEF Advance, KeyTypes, Shapes, taskVars
  <2>3. CASE Push
    <3>1. hosted[focused] \in Tasks
      BY <1>0, <2>3 DEF Push, Routing, WindowTypes
    <3>2. next' \in 0..(QueueSize - 1)
      BY <1>3, <2>3, <3>1 DEF Push
    <3>3. QED
      BY <1>0, <2>3, <3>2 DEF Push, KeyTypes, Shapes, taskVars
  <2>4. CASE Store
    <3>1. PICK t \in Tasks : t = hosted[focused]
      BY <1>0, <2>4 DEF Store, Routing, WindowTypes
    <3>2. queue' = [queue EXCEPT ![t] = [queue[t] EXCEPT !.cell[queue[t].head] = key, !.head = next]]
      BY <1>1, <2>4, <3>1 DEF Store
    <3>3. [queue[t] EXCEPT !.cell[queue[t].head] = key, !.head = next] \in Rings(QueueSize)
      BY <1>0, <1>3, RingStores DEF KeyTypes
    <3>4. queue' \in [Tasks -> Rings(QueueSize)]
      BY <1>1, <3>2, <3>3
    <3>5. QED
      BY <1>0, <2>4, <3>4 DEF Store, KeyTypes, Shapes
  <2>5. QED
    BY <1>6, <2>1, <2>2, <2>3, <2>4 DEF RouteKeyboard
<1>7. CASE DesktopStarts
  <2>1. kb' \in Rings(KbSize)
    BY <1>0, <1>1, <1>2, <1>7, RingEnds DEF DesktopStarts
  <2>2. QED
    BY <1>0, <1>7, <2>1 DEF DesktopStarts, KeyTypes, Shapes, taskVars
<1>8. CASE Quit \/ \E down \in {0, 1} : Round(down)
  <2>1. /\ UNCHANGED <<kb, pressed, key, next, queue, received, stolen, torn>>
        /\ pc' = pc \/ pc' = "off"
    BY <1>8 DEF Quit, Round, OpenWindow, ClickedWindow, CloseWindow, bring_to_front
  <2>2. QED
    BY <1>0, <2>1 DEF KeyTypes, Shapes
<1>9. ASSUME NEW t \in Tasks, TaskStarts(t) \/ TaskReads(t) \/ TaskExits(t)
      PROVE  Shapes' /\ KeyTypes'
  <2>1. CASE TaskStarts(t)
    <3>0. 0 \in 0..(QueueSize - 1)
      BY <1>0
    <3>1. [queue[t] EXCEPT !.head = 0, !.tail = 0] \in Rings(QueueSize)
      BY <1>3, <3>0, RingEnds
    <3>2. queue' = [queue EXCEPT ![t] = [queue[t] EXCEPT !.head = 0, !.tail = 0]]
      BY <1>1, <2>1 DEF TaskStarts
    <3>3. queue' \in [Tasks -> Rings(QueueSize)]
      BY <1>1, <3>1, <3>2
    <3>4. QED
      BY <1>0, <2>1, <3>3 DEF TaskStarts, KeyTypes, Shapes
  <2>2. CASE TaskReads(t)
    <3>1. [queue[t] EXCEPT !.tail = After(queue[t].tail, QueueSize)] \in Rings(QueueSize)
      BY <1>0, <1>3, RingEnds
    <3>2. queue' = [queue EXCEPT ![t] = [queue[t] EXCEPT !.tail = After(queue[t].tail, QueueSize)]]
      BY <1>1, <2>2 DEF TaskReads
    <3>3. queue' \in [Tasks -> Rings(QueueSize)]
      BY <1>1, <3>1, <3>2
    <3>4. Append(received[t], queue[t].cell[queue[t].tail]) \in Seq(Keys)
      BY <1>0, <1>3 DEF Shapes
    <3>5. received' \in [Tasks -> Seq(Keys)]
      BY <1>0, <2>2, <3>4 DEF TaskReads, Shapes
    <3>6. QED
      BY <1>0, <2>2, <3>3, <3>5 DEF TaskReads, KeyTypes, Shapes
  <2>3. CASE TaskExits(t)
    BY <1>0, <2>3 DEF TaskExits, KeyTypes, Shapes
  <2>4. QED
    BY <1>9, <2>1, <2>2, <2>3
<1>10. CASE UNCHANGED vars
  BY <1>0, <1>10 DEF vars, taskVars, KeyTypes, Shapes
<1>11. QED
  BY <1>4, <1>5, <1>6, <1>7, <1>8, <1>9, <1>10 DEF Next

----------------------------------------------------------------------------
(* Windows                                                                 *)

Windows == WindowTypes /\ StackIsConsistent /\ Distinct(order) /\ Hosting

LEMMA ActiveIsFinite == IsFiniteSet(Active)
<1>1. IsFiniteSet(Slots) /\ Active \in SUBSET Slots
  BY FS_Interval, DesktopAssumption DEF Slots, Active
<1>2. QED
  BY <1>1, FS_Subset

LEMMA OpenKeeps ==
    ASSUME Windows, pc = "loop", OpenWindow, button' \in {0, 1}, pc' = pc
    PROVE  Windows'
<1>1. CASE Active = Slots
  BY <1>1 DEF OpenWindow, Windows, WindowTypes, StackIsConsistent, Active, Hosting
<1>2. CASE Active # Slots
  <2> DEFINE s == Min(Slots \ Active)
  <2>1. Slots \ Active \in SUBSET Nat /\ Slots \ Active # {}
    BY <1>2 DEF Active, Slots
  <2>2. s \in Slots \ Active
    BY <2>1, MinIsLeast
  <2>3. /\ created < MaxTasks /\ created' = created + 1
        /\ state' = [state EXCEPT ![created'] = "new"]
        /\ hosted' = [hosted EXCEPT ![s] = created']
        /\ order' = Append(order, s) /\ focused' = s /\ dragging' = dragging
    BY <1>2 DEF OpenWindow
  <2> HIDE DEF s
  <2>4. s \in Slots /\ hosted[s] = NoTask /\ s \notin ToSet(order)
    BY <2>2 DEF Active, Windows, StackIsConsistent
  <2>5. created \in Nat /\ created' \in Tasks /\ created' # NoTask /\ created' \in 0..MaxTasks
    BY <2>3, DesktopAssumption DEF Windows, WindowTypes, Tasks, NoTask
  <2>6. /\ order' \in Seq(Slots) /\ Distinct(order)' /\ ToSet(order') = ToSet(order) \cup {s}
        /\ Len(order') = Len(order) + 1 /\ order' # <<>> /\ Last(order') = s
    <3>1. order \in Seq(Slots) /\ Distinct(order)
      BY DEF Windows, WindowTypes
    <3>2. QED
      BY <2>3, <2>4, <3>1, PushFront
  <2>7. WindowTypes'
    BY <2>3, <2>4, <2>5, <2>6 DEF Windows, WindowTypes
  <2>8. Active' = Active \cup {s}
    BY <2>3, <2>4, <2>5 DEF Active, Windows, WindowTypes
  <2>9. Cardinality(Active') = Cardinality(Active) + 1
    BY <2>2, <2>8, ActiveIsFinite, FS_AddElement
  <2>10. StackIsConsistent'
    BY <2>3, <2>6, <2>8, <2>9 DEF Windows, StackIsConsistent
  <2>11. Hosting'
    <3>1. /\ \A q, r \in Slots : hosted[q] = hosted[r] /\ hosted[q] # NoTask => q = r
          /\ \A r \in Slots : hosted[r] <= created /\ hosted[r] \in Int
          /\ \A t \in Tasks : t \in Int /\ (t > created => state[t] = "none")
          /\ \A t \in Tasks : state[t] \in {"new", "running"} => \E r \in Slots : hosted[r] = t
      BY DesktopAssumption DEF Windows, Hosting, WindowTypes, Tasks, NoTask
    <3>2. \A r \in Slots : hosted'[r] = IF r = s THEN created + 1 ELSE hosted[r]
      BY <2>3 DEF Windows, WindowTypes
    <3>3. \A t \in Tasks : state'[t] = IF t = created + 1 THEN "new" ELSE state[t]
      BY <2>3 DEF Windows, WindowTypes
    <3>4. \A q, r \in Slots : hosted'[q] = hosted'[r] /\ hosted'[q] # NoTask => q = r
      BY <2>5, <3>1, <3>2
    <3>5. \A r \in Slots : hosted'[r] <= created'
      BY <2>3, <2>5, <3>1, <3>2
    <3>6. ASSUME NEW t \in Tasks, state'[t] \in {"new", "running"}
          PROVE  \E r \in Slots : hosted'[r] = t
      <4>1. CASE t = created + 1
        BY <2>4, <3>2, <4>1
      <4>2. CASE t # created + 1
        <5>1. PICK r \in Slots : hosted[r] = t
          BY <3>1, <3>3, <3>6, <4>2
        <5>2. r # s
          BY <2>4, <5>1, DesktopAssumption DEF Tasks, NoTask
        <5>3. QED
          BY <3>2, <5>1, <5>2
      <4>3. QED
        BY <4>1, <4>2
    <3>7. \A t \in Tasks : t > created' => state'[t] = "none"
      BY <2>3, <2>5, <3>1, <3>3
    <3>8. QED
      BY <3>4, <3>5, <3>6, <3>7 DEF Hosting
  <2>12. QED
    BY <2>6, <2>7, <2>10, <2>11 DEF Windows
<1>3. QED
  BY <1>1, <1>2

LEMMA CloseKeeps ==
    ASSUME Windows, pc = "loop", NEW s \in Active, CloseWindow(s), button' \in {0, 1}, pc' = pc
    PROVE  Windows'
<1>1. /\ s \in Slots /\ hosted[s] # NoTask /\ hosted[s] \in Tasks /\ s \in ToSet(order) /\ s # NoSlot
  BY DEF Active, Windows, WindowTypes, StackIsConsistent, Slots, NoSlot
<1>2. /\ state' = [state EXCEPT ![hosted[s]] = "zombie"] /\ hosted' = [hosted EXCEPT ![s] = NoTask]
      /\ order' = order_remove(order, s) /\ created' = created
  BY DEF CloseWindow
<1>3. /\ order' \in Seq(Slots) /\ Distinct(order)' /\ ToSet(order') = ToSet(order) \ {s}
      /\ Len(order') = Len(order) - 1
      /\ order # <<>> /\ Last(order) # s => order' # <<>> /\ Last(order') = Last(order)
  <2>1. order \in Seq(Slots) /\ Distinct(order)
    BY DEF Windows, WindowTypes
  <2>2. QED
    BY <1>1, <1>2, <2>1, RemoveOne
<1>4. order' # <<>> => Last(order') \in Slots
  BY <1>3 DEF Last
<1>5. WindowTypes'
  BY <1>1, <1>2, <1>3, <1>4 DEF CloseWindow, Windows, WindowTypes
<1>6. Active' = Active \ {s}
  BY <1>1, <1>2 DEF Active, Windows, WindowTypes
<1>7. Cardinality(Active') = Cardinality(Active) - 1
  BY <1>6, ActiveIsFinite, FS_RemoveElement
<1>8. order # <<>>
  BY <1>1 DEF ToSet
<1>9. focused = Last(order)
  BY <1>8 DEF Windows, StackIsConsistent
<1>10. focused' = IF order' = <<>> THEN NoSlot ELSE Last(order')
  <2>1. CASE focused = s
    BY <2>1 DEF CloseWindow
  <2>2. CASE focused # s
    BY <1>3, <1>8, <1>9, <2>2 DEF CloseWindow
  <2>3. QED
    BY <2>1, <2>2
<1>11. StackIsConsistent'
  <2>1. dragging' # NoSlot => dragging' \in Active'
    BY <1>6 DEF CloseWindow, Windows, StackIsConsistent
  <2>2. ToSet(order') = Active' /\ Len(order') = Cardinality(Active')
    BY <1>3, <1>6, <1>7 DEF Windows, StackIsConsistent
  <2>3. QED
    BY <1>10, <2>1, <2>2 DEF StackIsConsistent
<1>12. Hosting'
  <2>1. \A r \in Slots : hosted'[r] = IF r = s THEN NoTask ELSE hosted[r]
    BY <1>2 DEF Windows, WindowTypes
  <2>2. \A t \in Tasks : state'[t] = IF t = hosted[s] THEN "zombie" ELSE state[t]
    BY <1>2 DEF Windows, WindowTypes
  <2>3. created \in 0..MaxTasks /\ \A t \in Tasks : t # NoTask
    BY DesktopAssumption DEF Windows, WindowTypes, Tasks, NoTask
  <2>4. \A q, r \in Slots : hosted'[q] = hosted'[r] /\ hosted'[q] # NoTask => q = r
    BY <2>1 DEF Windows, Hosting
  <2>5. \A r \in Slots : hosted'[r] <= created'
    BY <1>2, <2>1, <2>3 DEF Windows, Hosting, NoTask
  <2>6. ASSUME NEW t \in Tasks
        PROVE  /\ state'[t] \in {"new", "running"} => pc' # "off" /\ \E r \in Slots : hosted'[r] = t
               /\ t > created' => state'[t] = "none"
    <3>1. t > created => t # hosted[s]
      BY <1>1, <2>3, DesktopAssumption DEF Windows, Hosting, Tasks
    <3>2. QED
      BY <1>2, <2>1, <2>2, <3>1 DEF Windows, Hosting
  <2>7. QED
    BY <2>4, <2>5, <2>6 DEF Hosting
<1>13. QED
  BY <1>3, <1>5, <1>11, <1>12 DEF Windows

LEMMA FrontKeeps ==
    ASSUME Windows, pc = "loop", NEW s \in Active, bring_to_front(s), dragging' \in {s, dragging},
           button' \in {0, 1}, pc' = pc
    PROVE  Windows'
<1>1. s \in Slots /\ s \in ToSet(order)
  BY DEF Active, Windows, WindowTypes, StackIsConsistent
<1>2. order' = Append(order_remove(order, s), s) /\ focused' = s /\ UNCHANGED <<hosted, created, state>>
  BY DEF bring_to_front
<1> DEFINE o == order_remove(order, s)
<1>3. /\ o \in Seq(Slots) /\ Distinct(o) /\ ToSet(o) = ToSet(order) \ {s} /\ Len(o) = Len(order) - 1
  <2>1. order \in Seq(Slots) /\ Distinct(order)
    BY DEF Windows, WindowTypes
  <2>2. QED
    BY <1>1, <2>1, RemoveOne
<1>4. order' = Append(o, s)
  BY <1>2
<1> HIDE DEF o
<1>5. /\ order' \in Seq(Slots) /\ Distinct(order)' /\ ToSet(order') = ToSet(o) \cup {s}
      /\ Len(order') = Len(o) + 1 /\ order' # <<>> /\ Last(order') = s
  <2>1. s \notin ToSet(o)
    BY <1>3
  <2>2. QED
    BY <1>1, <1>3, <1>4, <2>1, PushFront
<1>6. Active' = Active
  BY <1>2 DEF Active
<1>7. Len(order) \in Nat /\ ToSet(order') = ToSet(order) /\ Len(order') = Len(order)
  BY <1>1, <1>3, <1>5 DEF Windows, WindowTypes
<1>8. StackIsConsistent'
  BY <1>2, <1>5, <1>6, <1>7 DEF Windows, StackIsConsistent
<1>9. WindowTypes'
  BY <1>1, <1>2, <1>5 DEF Windows, WindowTypes
<1>10. QED
  BY <1>2, <1>5, <1>8, <1>9 DEF Windows, Hosting

\* desktop_run starts or ends without windows and without tasks.
LEMMA ClearedKeeps ==
    ASSUME Windows, WindowTypes', hosted' = [s \in Slots |-> NoTask], order' = <<>>, focused' = NoSlot,
           dragging' = NoSlot, created' = created,
           \A t \in Tasks : /\ state'[t] \notin {"new", "running"}
                            /\ t > created => state'[t] = "none"
    PROVE  Windows'
<1>1. Active' = {} /\ ToSet(order') = {} /\ Len(order') = 0
  BY DEF Active, ToSet
<1>2. StackIsConsistent'
  BY <1>1, FS_EmptySet DEF StackIsConsistent
<1>3. Hosting'
  <2>1. created \in Nat /\ \A s \in Slots : hosted'[s] = NoTask
    BY DEF Windows, WindowTypes
  <2>2. QED
    BY <2>1 DEF Hosting, NoTask
<1>4. Distinct(order)'
  BY <1>1 DEF Distinct
<1>5. QED
  BY <1>2, <1>3, <1>4 DEF Windows

LEMMA WindowsStep ==
    ASSUME WinInv, [Next]_vars
    PROVE  Windows' /\ Routing'
<1>0. Windows /\ Routing /\ KeyTypes
  BY TypesSplit DEF WinInv, Windows
<1>1. CASE Press \/ RawGetchar \/ RouteKeyboard \/ (\E t \in Tasks : TaskReads(t)) \/ UNCHANGED vars
  <2>1. UNCHANGED <<hosted, order, focused, dragging, button, created, state>>
    BY <1>1 DEF Press, RawGetchar, RouteKeyboard, Route, Advance, Push, Store, RouteDone, TaskReads, vars,
                windowVars, taskVars
  <2>2. pc' = "off" <=> pc = "off"
    BY <1>1 DEF Press, RawGetchar, RouteKeyboard, Route, Advance, Push, Store, RouteDone, TaskReads, vars
  <2>3. Windows'
    BY <1>0, <2>1, <2>2 DEF Windows, WindowTypes, StackIsConsistent, Active, Hosting
  <2>4. Routing'
    BY <1>0, <1>1, <2>1 DEF Press, RawGetchar, RouteKeyboard, Route, Advance, Push, Store, RouteDone, TaskReads,
                            vars, Routing
  <2>5. QED
    BY <2>3, <2>4
<1>2. CASE DesktopStarts
  <2>1. WindowTypes'
    BY <1>0, <1>2 DEF DesktopStarts, Windows, WindowTypes, taskVars
  <2>2. ASSUME NEW t \in Tasks
        PROVE  /\ state'[t] \notin {"new", "running"}
               /\ t > created => state'[t] = "none"
    BY <1>0, <1>2 DEF DesktopStarts, taskVars, Windows, Hosting
  <2>3. Windows'
    BY <1>0, <1>2, <2>1, <2>2, ClearedKeeps DEF DesktopStarts, taskVars
  <2>4. QED
    BY <1>2, <2>3 DEF DesktopStarts, Routing
<1>3. CASE Quit
  <2>1. /\ state' = [t \in Tasks |-> IF \E s \in Active : hosted[s] = t THEN "zombie" ELSE state[t]]
        /\ hosted' = [s \in Slots |-> NoTask]
        /\ order' = <<>> /\ focused' = NoSlot /\ dragging' = NoSlot /\ button' = 1 /\ created' = created
    BY <1>3 DEF Quit
  <2>2. WindowTypes'
    BY <1>0, <2>1 DEF Windows, WindowTypes
  <2>3. ASSUME NEW t \in Tasks
        PROVE  /\ state'[t] \notin {"new", "running"}
               /\ t > created => state'[t] = "none"
    <3>1. t # NoTask /\ t \in Int /\ created \in Int
      BY <1>0, DesktopAssumption DEF Tasks, NoTask, Windows, WindowTypes
    <3>2. state[t] \in {"new", "running"} => \E s \in Active : hosted[s] = t
      BY <1>0, <3>1 DEF Windows, Hosting, Active
    <3>3. t > created => state[t] = "none" /\ ~ \E s \in Active : hosted[s] = t
      BY <1>0, <3>1 DEF Windows, Hosting, Active
    <3>4. QED
      BY <2>1, <3>2, <3>3
  <2>4. Windows'
    BY <1>0, <2>1, <2>2, <2>3, ClearedKeeps
  <2>5. QED
    BY <1>3, <2>4 DEF Quit, Routing
<1>4. ASSUME NEW down \in {0, 1}, Round(down)
      PROVE  Windows' /\ Routing'
  <2>1. pc = "loop" /\ pc' = pc /\ button' \in {0, 1}
    BY <1>4 DEF Round
  <2>2. CASE OpenWindow
    BY <1>0, <2>1, <2>2, OpenKeeps DEF Routing
  <2>3. ASSUME NEW s \in Active, ClickedWindow(s)
        PROVE  Windows'
    <3>1. CASE CloseWindow(s)
      BY <1>0, <2>1, <3>1, CloseKeeps
    <3>2. CASE bring_to_front(s) /\ dragging' \in {s, dragging}
      BY <1>0, <2>1, <3>2, FrontKeeps
    <3>3. QED
      BY <2>3, <3>1, <3>2 DEF ClickedWindow
  <2>4. CASE UNCHANGED <<hosted, order, focused, created, state>> /\ dragging' \in {NoSlot, dragging}
    BY <1>0, <2>1, <2>4 DEF Windows, WindowTypes, StackIsConsistent, Active, Hosting, Routing
  <2>5. Windows'
    BY <1>4, <2>2, <2>3, <2>4 DEF Round
  <2>6. QED
    BY <2>1, <2>5 DEF Routing
<1>5. ASSUME NEW t \in Tasks, TaskStarts(t) \/ TaskExits(t)
      PROVE  Windows' /\ Routing'
  <2>1. /\ UNCHANGED <<hosted, order, focused, dragging, button, created, pc>>
        /\ state[t] \in {"new", "running"}
        /\ state' = [state EXCEPT ![t] = "running"] \/ state' = [state EXCEPT ![t] = "zombie"]
    BY <1>5 DEF TaskStarts, TaskExits, windowVars
  <2>2. WindowTypes'
    BY <1>0, <2>1 DEF Windows, WindowTypes
  <2>3. Hosting'
    <3>1. \A u \in Tasks : u # t => state'[u] = state[u]
      BY <1>0, <2>1 DEF Windows, WindowTypes
    <3>2. state'[t] \in {"running", "zombie"}
      BY <1>0, <2>1 DEF Windows, WindowTypes
    <3>3. ~ (t > created) /\ pc # "off" /\ \E s \in Slots : hosted[s] = t
      BY <1>0, <2>1 DEF Windows, Hosting
    <3>4. QED
      BY <1>0, <2>1, <3>1, <3>2, <3>3 DEF Windows, Hosting
  <2>4. QED
    BY <1>0, <2>1, <2>2, <2>3 DEF Windows, StackIsConsistent, Active, Routing
<1>6. QED
  BY <1>1, <1>2, <1>3, <1>4, <1>5 DEF Next

LEMMA WinInvHolds == Spec => []WinInv
<1>1. Init => WinInv
  <2> SUFFICES ASSUME Init PROVE WinInv
    OBVIOUS
  <2>1. Shapes /\ TypeOK
    BY DesktopAssumption DEF Init, Shapes, Rings, Ring, TypeOK, RingOK, Keys, NoKey, NoSlot, NoTask
  <2>2. Active = {} /\ ToSet(order) = {} /\ Len(order) = 0
    BY DEF Init, Active, ToSet
  <2>3. StackIsConsistent /\ Distinct(order)
    BY <2>2, FS_EmptySet DEF Init, StackIsConsistent, Distinct
  <2>4. QED
    BY <2>1, <2>3 DEF Init, WinInv, Hosting, Routing, NoTask
<1>2. WinInv /\ [Next]_vars => WinInv'
  <2> SUFFICES ASSUME WinInv, [Next]_vars PROVE WinInv'
    OBVIOUS
  <2>1. Shapes' /\ KeyTypes' /\ Windows' /\ Routing'
    BY KeyTypesStep, WindowsStep
  <2>2. TypeOK'
    BY <2>1, TypesSplit DEF Windows, Shapes, Rings, TypeOK, RingOK, WindowTypes, KeyTypes
  <2>3. QED
    BY <2>1, <2>2 DEF WinInv, Windows
<1>3. QED
  BY <1>1, <1>2, PTL DEF Spec

\* Through any sequence of opening, closing, clicking and dragging, the stack is
\* the active windows, each once, the window in front has the focus (close_window
\* passes it on), and a task is alive only with one window that shows it.
THEOREM WindowsStaySound == Spec => []WindowsAreSound
<1>1. WinInv => NoTaskLingers
  <2> SUFFICES ASSUME WinInv, NEW t \in Tasks, state[t] \in {"new", "running"}
               PROVE  pc # "off" /\ Cardinality({s \in Slots : hosted[s] = t}) = 1
    BY DEF NoTaskLingers
  <2>1. t # NoTask /\ pc # "off"
    BY DesktopAssumption DEF Tasks, NoTask, WinInv, Hosting
  <2>2. PICK r \in Slots : hosted[r] = t
    BY DEF WinInv, Hosting
  <2>3. {s \in Slots : hosted[s] = t} = {r}
    BY <2>1, <2>2 DEF WinInv, Hosting
  <2>4. QED
    BY <2>1, <2>3, FS_Singleton
<1>2. WinInv => WindowsAreSound
  BY <1>1 DEF WinInv, WindowsAreSound
<1>3. QED
  BY <1>2, WinInvHolds, PTL

----------------------------------------------------------------------------
(* The invariant about keys                                                *)

\* How many places behind the tail of the ring a cell is.
Rank(r, i, size) == IF i >= r.tail THEN i - r.tail ELSE i + size - r.tail
Occupied(r, size) == {i \in 0..(size - 1) : Rank(r, i, size) < Rank(r, r.head, size)}
Content(r, size) == {r.cell[i] : i \in Occupied(r, size)}
Sorted(r, size) ==
    \A i, j \in Occupied(r, size) : Rank(r, i, size) < Rank(r, j, size) => r.cell[i] < r.cell[j]

Rising(s) == \A i, j \in 1..Len(s) : i < j => s[i] < s[j]

\* What has reached a task: read, or waiting in its ring.
Delivered(t) == ToSet(received[t]) \cup Content(queue[t], QueueSize)

AllBelow(S, T) == \A x \in S : \A y \in T : x < y

KeyboardInOrder ==
    /\ Sorted(kb, KbSize)
    /\ \A k \in Content(kb, KbSize) : 0 < k /\ k <= pressed
    /\ AllBelow(ToSet(stolen), Content(kb, KbSize)) /\ Rising(stolen)
    /\ \A k \in ToSet(stolen) : k <= pressed

TaskInOrder(t) ==
    /\ Sorted(queue[t], QueueSize) /\ Rising(received[t])
    /\ AllBelow(ToSet(received[t]), Content(queue[t], QueueSize))
    /\ \A k \in Delivered(t) : 0 < k /\ k <= pressed /\ k \notin ToSet(stolen)
    /\ AllBelow(Delivered(t), Content(kb, KbSize))

Apart == \A t, u \in Tasks : t # u => Delivered(t) \cap Delivered(u) = {}

\* The key the compositor holds: still in front of the keyboard's ring, or newer
\* than all that were delivered.
InHand ==
    /\ pc = "advance" => ~Empty(kb) /\ key = kb.cell[kb.tail]
    /\ pc \in {"push", "store"} =>
          /\ 0 < key /\ key <= pressed /\ key \notin ToSet(stolen)
          /\ AllBelow({key}, Content(kb, KbSize))
          /\ \A t \in Tasks : AllBelow(Delivered(t), {key})
    /\ pc = "store" =>
          LET q == queue[hosted[focused]]
          IN next = After(q.head, QueueSize) /\ next # q.tail

KeysInOrder == KeyboardInOrder /\ (\A t \in Tasks : TaskInOrder(t)) /\ Apart /\ InHand
KeyInv == torn = 0 => KeysInOrder

----------------------------------------------------------------------------
(* Rings                                                                   *)

LEMMA RankType ==
    ASSUME NEW size \in Nat \ {0, 1}, NEW r \in Rings(size), NEW i \in 0..(size - 1)
    PROVE  Rank(r, i, size) \in 0..(size - 1)
  BY DEF Rank, Rings

LEMMA EmptyRing ==
    ASSUME NEW size \in Nat \ {0, 1}, NEW r \in Rings(size), Empty(r)
    PROVE  Content(r, size) = {} /\ Sorted(r, size)
<1>1. Rank(r, r.head, size) = 0
  BY DEF Rank, Empty, Rings
<1>2. Occupied(r, size) = {}
  BY <1>1, RankType DEF Occupied
<1>3. QED
  BY <1>2 DEF Content, Sorted

LEMMA ContentIsKeys ==
    ASSUME NEW size, NEW r \in Rings(size)
    PROVE  Content(r, size) \subseteq Keys
  BY DEF Content, Rings, Occupied

\* Taking the key at the tail: it is older than the rest, which stays as it was.
LEMMA TakeOne ==
    ASSUME NEW size \in Nat \ {0, 1}, NEW r \in Rings(size), ~Empty(r), Sorted(r, size)
    PROVE  LET p == [r EXCEPT !.tail = After(r.tail, size)]
           IN /\ r.cell[r.tail] \in Content(r, size)
              /\ Content(p, size) \subseteq Content(r, size)
              /\ Sorted(p, size)
              /\ AllBelow({r.cell[r.tail]}, Content(p, size))
              /\ \A k \in Content(r, size) : k = r.cell[r.tail] \/ k \in Content(p, size)
<1> DEFINE p == [r EXCEPT !.tail = After(r.tail, size)]
           a == After(r.tail, size)
<1>1. /\ r.head \in 0..(size - 1) /\ r.tail \in 0..(size - 1) /\ r.head # r.tail
      /\ a = IF r.tail = size - 1 THEN 0 ELSE r.tail + 1
  BY AfterIs DEF Rings, Empty
<1>2. p.head = r.head /\ p.tail = a /\ p.cell = r.cell
  BY DEF Rings
<1> HIDE DEF p, a
<1>3. ASSUME NEW i \in 0..(size - 1), i # r.tail
      PROVE  Rank(p, i, size) = Rank(r, i, size) - 1
  BY <1>1, <1>2, <1>3 DEF Rank
<1>4. Rank(p, r.tail, size) = size - 1 /\ Rank(r, r.tail, size) = 0 /\ Rank(r, r.head, size) > 0
  BY <1>1, <1>2 DEF Rank
<1>5. Rank(r, r.head, size) <= size - 1
  BY <1>1, RankType
<1>6. ASSUME NEW i \in 0..(size - 1)
      PROVE  /\ Rank(r, i, size) \in Nat
             /\ i \in Occupied(p, size) <=> i \in Occupied(r, size) /\ i # r.tail
  <2>1. Rank(r, i, size) \in Nat /\ Rank(r, r.head, size) \in Nat
    BY <1>1, RankType
  <2>2. Rank(p, p.head, size) = Rank(r, r.head, size) - 1
    BY <1>1, <1>2, <1>3
  <2>3. CASE i = r.tail
    BY <1>2, <1>4, <1>5, <2>1, <2>2, <2>3 DEF Occupied
  <2>4. CASE i # r.tail
    BY <1>3, <2>1, <2>2, <2>4 DEF Occupied
  <2>5. QED
    BY <2>1, <2>3, <2>4
<1>7. Occupied(p, size) \subseteq Occupied(r, size) /\ r.tail \in Occupied(r, size) /\ r.tail \notin Occupied(p, size)
  BY <1>1, <1>4, <1>6 DEF Occupied
<1>8. r.cell[r.tail] \in Content(r, size) /\ Content(p, size) \subseteq Content(r, size)
  BY <1>2, <1>7 DEF Content
<1>9. Sorted(p, size)
  <2> SUFFICES ASSUME NEW i \in Occupied(p, size), NEW j \in Occupied(p, size),
                      Rank(p, i, size) < Rank(p, j, size)
               PROVE  p.cell[i] < p.cell[j]
    BY DEF Sorted
  <2>1. i \in 0..(size - 1) /\ j \in 0..(size - 1) /\ i # r.tail /\ j # r.tail
    BY <1>7 DEF Occupied
  <2>2. Rank(r, i, size) < Rank(r, j, size)
    BY <1>3, <1>6, <2>1
  <2>3. QED
    BY <1>2, <1>7, <2>2 DEF Sorted
<1>10. AllBelow({r.cell[r.tail]}, Content(p, size))
  <2> SUFFICES ASSUME NEW j \in Occupied(p, size) PROVE r.cell[r.tail] < r.cell[j]
    BY <1>2 DEF AllBelow, Content
  <2>1. j \in 0..(size - 1) /\ j # r.tail /\ j \in Occupied(r, size)
    BY <1>7 DEF Occupied
  <2>2. Rank(r, j, size) > 0
    BY <1>1, <2>1 DEF Rank
  <2>3. QED
    BY <1>4, <1>7, <2>1, <2>2 DEF Sorted
<1>11. ASSUME NEW k \in Content(r, size) PROVE k = r.cell[r.tail] \/ k \in Content(p, size)
  <2>1. PICK i \in Occupied(r, size) : k = r.cell[i]
    BY DEF Content
  <2>2. i # r.tail => i \in Occupied(p, size)
    BY <1>6 DEF Occupied
  <2>3. QED
    BY <1>2, <2>1, <2>2 DEF Content
<1>12. QED
  BY <1>8, <1>9, <1>10, <1>11 DEF p

Put(r, k, size) == [r EXCEPT !.cell[r.head] = k, !.head = After(r.head, size)]

\* Storing a key newer than all others at the head of a ring that is not full.
LEMMA PutOne ==
    ASSUME NEW size \in Nat \ {0, 1}, NEW r \in Rings(size), After(r.head, size) # r.tail, Sorted(r, size),
           NEW k \in Keys, AllBelow(Content(r, size), {k})
    PROVE  LET p == Put(r, k, size)
           IN /\ Content(p, size) = Content(r, size) \cup {k}
              /\ Sorted(p, size)
              /\ p.tail = r.tail /\ ~Empty(p)
              /\ ~Empty(r) => p.cell[p.tail] = r.cell[r.tail]
<1> DEFINE p == Put(r, k, size)
           a == After(r.head, size)
<1>1. /\ r.head \in 0..(size - 1) /\ r.tail \in 0..(size - 1) /\ a # r.tail
      /\ a = IF r.head = size - 1 THEN 0 ELSE r.head + 1
  BY AfterIs DEF Rings
<1>2. /\ p.head = a /\ p.tail = r.tail /\ p.cell[r.head] = k
      /\ \A i \in 0..(size - 1) : i # r.head => p.cell[i] = r.cell[i]
  BY <1>1 DEF Rings, Put
<1> HIDE DEF p, a
<1>3. \A i \in 0..(size - 1) : Rank(p, i, size) = Rank(r, i, size)
  BY <1>2 DEF Rank
<1>4. Rank(p, p.head, size) = Rank(r, r.head, size) + 1
  BY <1>1, <1>2 DEF Rank
<1>5. \A i \in 0..(size - 1) : Rank(r, i, size) = Rank(r, r.head, size) => i = r.head
  BY <1>1 DEF Rank
<1>6. \A i \in 0..(size - 1) : Rank(r, i, size) \in Nat
  BY RankType
<1>7. Occupied(p, size) = Occupied(r, size) \cup {r.head} /\ r.head \notin Occupied(r, size)
  BY <1>1, <1>3, <1>4, <1>5, <1>6 DEF Occupied
<1>8. \A i \in Occupied(r, size) : p.cell[i] = r.cell[i]
  BY <1>2, <1>7 DEF Occupied
<1>9. Content(p, size) = Content(r, size) \cup {k}
  BY <1>2, <1>7, <1>8 DEF Content
<1>10. Sorted(p, size)
  <2> SUFFICES ASSUME NEW i \in Occupied(p, size), NEW j \in Occupied(p, size),
                      Rank(p, i, size) < Rank(p, j, size)
               PROVE  p.cell[i] < p.cell[j]
    BY DEF Sorted
  <2>1. i \in 0..(size - 1) /\ j \in 0..(size - 1) /\ Rank(r, i, size) < Rank(r, j, size)
    BY <1>3 DEF Occupied
  <2>2. i # r.head
    <3>1. Rank(r, j, size) <= Rank(r, r.head, size)
      BY <1>1, <1>6, <1>7, <2>1 DEF Occupied
    <3>2. QED
      BY <1>1, <1>6, <2>1, <3>1
  <2>3. i \in Occupied(r, size) /\ p.cell[i] = r.cell[i]
    BY <1>7, <1>8, <2>2
  <2>4. CASE j = r.head
    BY <1>2, <2>3, <2>4 DEF AllBelow, Content
  <2>5. CASE j # r.head
    BY <1>7, <1>8, <2>1, <2>3, <2>5 DEF Sorted
  <2>6. QED
    BY <2>4, <2>5
<1>11. ~Empty(p) /\ (~Empty(r) => p.cell[p.tail] = r.cell[r.tail])
  BY <1>1, <1>2 DEF Empty
<1>12. QED
  BY <1>2, <1>9, <1>10, <1>11 DEF p

\* A newer key at the end of what was read.
LEMMA ReadOne ==
    ASSUME NEW s \in Seq(Keys), NEW k \in Keys, Rising(s), AllBelow(ToSet(s), {k})
    PROVE  /\ Rising(Append(s, k)) /\ ToSet(Append(s, k)) = ToSet(s) \cup {k}
           /\ ToSet(s) \subseteq Keys
<1> DEFINE r == Append(s, k)
<1>1. /\ Len(r) = Len(s) + 1 /\ DOMAIN r = 1..(Len(s) + 1) /\ DOMAIN s = 1..Len(s) /\ Len(s) \in Nat
      /\ \A i \in 1..Len(s) : r[i] = s[i] /\ s[i] \in Keys
      /\ r[Len(s) + 1] = k
  OBVIOUS
<1> HIDE DEF r
<1>2. \A i \in 1..Len(s) : s[i] < k
  BY <1>1 DEF AllBelow, ToSet
<1>3. Rising(r)
  <2> SUFFICES ASSUME NEW i \in 1..(Len(s) + 1), NEW j \in 1..(Len(s) + 1), i < j PROVE r[i] < r[j]
    BY <1>1 DEF Rising
  <2>1. CASE j = Len(s) + 1
    BY <1>1, <1>2, <2>1
  <2>2. CASE j # Len(s) + 1
    BY <1>1, <2>2 DEF Rising
  <2>3. QED
    BY <2>1, <2>2
<1>4. ToSet(r) = ToSet(s) \cup {k}
  <2>1. ASSUME NEW x \in ToSet(r) PROVE x \in ToSet(s) \cup {k}
    <3>1. PICK i \in 1..(Len(s) + 1) : x = r[i]
      BY <1>1 DEF ToSet
    <3>2. QED
      BY <1>1, <3>1 DEF ToSet
  <2>2. ASSUME NEW x \in ToSet(s) PROVE x \in ToSet(r)
    <3>1. PICK i \in 1..Len(s) : x = s[i]
      BY <1>1 DEF ToSet
    <3>2. i \in DOMAIN r /\ r[i] = x
      BY <1>1, <3>1
    <3>3. QED
      BY <3>2 DEF ToSet
  <2>3. k \in ToSet(r)
    <3>1. Len(s) + 1 \in DOMAIN r /\ r[Len(s) + 1] = k
      BY <1>1
    <3>2. QED
      BY <3>1 DEF ToSet
  <2>4. QED
    BY <2>1, <2>2, <2>3
<1>5. ToSet(s) \subseteq Keys
  BY <1>1 DEF ToSet
<1>6. QED
  BY <1>3, <1>4, <1>5 DEF r

----------------------------------------------------------------------------
(* Steps                                                                   *)

\* What the steps below know of the types.
LEMMA Numbers ==
    ASSUME WinInv
    PROVE  /\ KbSize \in Nat \ {0, 1} /\ QueueSize \in Nat \ {0, 1} /\ Keys \subseteq Nat
           /\ kb \in Rings(KbSize) /\ Content(kb, KbSize) \subseteq Keys
           /\ stolen \in Seq(Keys) /\ ToSet(stolen) \subseteq Keys /\ pressed \in Keys /\ key \in Keys
           /\ \A t \in Tasks : /\ queue[t] \in Rings(QueueSize) /\ received[t] \in Seq(Keys)
                               /\ Content(queue[t], QueueSize) \subseteq Keys
                               /\ ToSet(received[t]) \subseteq Keys /\ Delivered(t) \subseteq Keys
<1>1. KbSize \in Nat \ {0, 1} /\ QueueSize \in Nat \ {0, 1} /\ Keys \subseteq Nat
  BY DesktopAssumption DEF Keys
<1>2. kb \in Rings(KbSize) /\ stolen \in Seq(Keys) /\ pressed \in Keys /\ key \in Keys
  BY DEF WinInv, Shapes, TypeOK
<1>3. \A s \in Seq(Keys) : ToSet(s) \subseteq Keys
  BY DEF ToSet
<1>4. ASSUME NEW t \in Tasks
      PROVE  /\ queue[t] \in Rings(QueueSize) /\ received[t] \in Seq(Keys)
             /\ Content(queue[t], QueueSize) \subseteq Keys
             /\ ToSet(received[t]) \subseteq Keys /\ Delivered(t) \subseteq Keys
  <2>1. queue[t] \in Rings(QueueSize) /\ received[t] \in Seq(Keys)
    BY DEF WinInv, Shapes
  <2>2. QED
    BY <1>3, <2>1, ContentIsKeys DEF Delivered
<1>5. QED
  BY <1>1, <1>2, <1>3, <1>4, ContentIsKeys

\* What moves a key along: the keyboard's ring changes, and the tasks' do not.
DeliveredStays == UNCHANGED <<queue, received>>

LEMMA SameDelivered ==
    ASSUME DeliveredStays
    PROVE  \A t \in Tasks : Delivered(t)' = Delivered(t)
  BY DEF DeliveredStays, Delivered

LEMMA PressKeeps ==
    ASSUME WinInv, KeysInOrder, Press
    PROVE  KeysInOrder'
<1>0. /\ pressed' = pressed + 1 /\ pressed' \in Keys /\ pressed \in Nat
      /\ UNCHANGED <<queue, received, stolen, key, next, pc, hosted, focused>>
  <2>1. pressed \in Keys
    BY Numbers
  <2>2. QED
    BY <2>1, DesktopAssumption DEF Press, Keys, taskVars, windowVars
<1>1. /\ \A x \in Content(kb, KbSize) : x \in Nat /\ 0 < x /\ x <= pressed
      /\ \A x \in ToSet(stolen) : x \in Nat /\ x <= pressed
      /\ AllBelow(ToSet(stolen), Content(kb, KbSize))
  <2>1. Content(kb, KbSize) \subseteq Nat /\ ToSet(stolen) \subseteq Nat
    BY Numbers
  <2>2. QED
    BY <2>1 DEF KeysInOrder, KeyboardInOrder
<1>2. /\ Sorted(kb', KbSize) /\ Content(kb', KbSize) \subseteq Content(kb, KbSize) \cup {pressed'}
      /\ ~Empty(kb) => ~Empty(kb') /\ kb'.cell[kb'.tail] = kb.cell[kb.tail]
  <2>1. CASE After(kb.head, KbSize) = kb.tail
    BY <2>1 DEF Press, KeysInOrder, KeyboardInOrder
  <2>2. CASE After(kb.head, KbSize) # kb.tail
    <3>1. PICK n \in Keys : n = pressed'
      BY <1>0
    <3>2. AllBelow(Content(kb, KbSize), {n})
      BY <1>0, <1>1, <3>1 DEF AllBelow
    <3>3. kb' = Put(kb, n, KbSize)
      BY <2>2, <3>1 DEF Press, Put
    <3>4. Sorted(kb, KbSize) /\ KbSize \in Nat \ {0, 1} /\ kb \in Rings(KbSize)
      BY Numbers DEF KeysInOrder, KeyboardInOrder
    <3> DEFINE p == Put(kb, n, KbSize)
    <3>5. /\ Content(p, KbSize) = Content(kb, KbSize) \cup {n} /\ Sorted(p, KbSize)
          /\ ~Empty(p) /\ (~Empty(kb) => p.cell[p.tail] = kb.cell[kb.tail])
      BY <2>2, <3>2, <3>4, PutOne
    <3>6. QED
      BY <3>1, <3>3, <3>5
  <2>3. QED
    BY <2>1, <2>2
<1>3. KeyboardInOrder'
  <2>1. \A k \in Content(kb', KbSize) : 0 < k /\ k <= pressed'
    BY <1>0, <1>2, <1>1
  <2>2. AllBelow(ToSet(stolen), Content(kb', KbSize))
    BY <1>0, <1>2, <1>1 DEF AllBelow
  <2>3. \A k \in ToSet(stolen) : k <= pressed'
    BY <1>0, <1>1
  <2>4. QED
    BY <1>0, <1>2, <2>1, <2>2, <2>3 DEF KeysInOrder, KeyboardInOrder
<1>4. \A t \in Tasks : Delivered(t)' = Delivered(t)
  BY <1>0, SameDelivered DEF DeliveredStays
<1>5. ASSUME NEW t \in Tasks PROVE TaskInOrder(t)'
  <2>0. TaskInOrder(t)
    BY DEF KeysInOrder
  <2>1. \A x \in Delivered(t) : x \in Nat
    BY Numbers
  <2>2. AllBelow(Delivered(t), Content(kb', KbSize))
    BY <1>0, <1>2, <2>0, <2>1 DEF TaskInOrder, AllBelow
  <2>3. \A k \in Delivered(t) : 0 < k /\ k <= pressed' /\ k \notin ToSet(stolen)
    BY <1>0, <2>0, <2>1 DEF TaskInOrder
  <2>4. QED
    BY <1>0, <1>4, <2>0, <2>2, <2>3 DEF TaskInOrder
<1>6. Apart'
  BY <1>4 DEF KeysInOrder, Apart
<1>7. InHand'
  <2>1. pc \in {"push", "store"} => 0 < key /\ key <= pressed' /\ AllBelow({key}, Content(kb', KbSize))
    <3>1. pc \in {"push", "store"} => 0 < key /\ key <= pressed /\ AllBelow({key}, Content(kb, KbSize))
      BY DEF KeysInOrder, InHand
    <3>2. key \in Nat
      BY Numbers
    <3>3. pc \in {"push", "store"} => key <= pressed' /\ key < pressed'
      BY <1>0, <3>1, <3>2
    <3>4. QED
      BY <1>2, <3>1, <3>3 DEF AllBelow
  <2>2. QED
    BY <1>0, <1>2, <1>4, <2>1 DEF KeysInOrder, InHand
<1>8. QED
  BY <1>3, <1>5, <1>6, <1>7 DEF KeysInOrder

\* The key at the front of the keyboard's ring is newer than all that were taken.
LEMMA FrontIsNewest ==
    ASSUME WinInv, KeysInOrder, ~Empty(kb)
    PROVE  LET k == kb.cell[kb.tail]
           IN /\ k \in Keys /\ 0 < k /\ k <= pressed /\ k \in Content(kb, KbSize)
              /\ AllBelow(ToSet(stolen), {k}) /\ k \notin ToSet(stolen)
              /\ \A t \in Tasks : AllBelow(Delivered(t), {k}) /\ k \notin Delivered(t)
<1>1. Sorted(kb, KbSize)
  BY DEF KeysInOrder, KeyboardInOrder
<1>2. kb.cell[kb.tail] \in Content(kb, KbSize)
  BY <1>1, Numbers, TakeOne
<1>3. QED
  BY <1>2, Numbers DEF KeysInOrder, KeyboardInOrder, TaskInOrder, AllBelow

LEMMA RawGetcharKeeps ==
    ASSUME WinInv, KeysInOrder, RawGetchar, torn' = 0
    PROVE  KeysInOrder'
<1> DEFINE k == kb.cell[kb.tail]
<1>0. /\ ~Empty(kb) /\ stolen' = Append(stolen, k) /\ kb' = [kb EXCEPT !.tail = After(kb.tail, KbSize)]
      /\ pc # "advance" /\ UNCHANGED <<queue, received, pressed, key, next, pc, hosted, focused>>
  BY DEF RawGetchar, taskVars, windowVars
<1>1. /\ k \in Keys /\ 0 < k /\ k <= pressed /\ k \in Content(kb, KbSize)
      /\ AllBelow(ToSet(stolen), {k}) /\ k \notin ToSet(stolen)
      /\ \A t \in Tasks : AllBelow(Delivered(t), {k}) /\ k \notin Delivered(t)
  BY <1>0, FrontIsNewest
<1>2. /\ Sorted(kb', KbSize) /\ Content(kb', KbSize) \subseteq Content(kb, KbSize)
      /\ AllBelow({k}, Content(kb', KbSize))
  BY <1>0, Numbers, TakeOne DEF KeysInOrder, KeyboardInOrder
<1> HIDE DEF k
<1>3. Rising(stolen') /\ ToSet(stolen') = ToSet(stolen) \cup {k}
  BY <1>0, <1>1, Numbers, ReadOne DEF KeysInOrder, KeyboardInOrder
<1>4. KeyboardInOrder'
  BY <1>0, <1>1, <1>2, <1>3 DEF KeysInOrder, KeyboardInOrder, AllBelow
<1>5. \A t \in Tasks : Delivered(t)' = Delivered(t)
  BY <1>0, SameDelivered DEF DeliveredStays
<1>6. ASSUME NEW t \in Tasks PROVE TaskInOrder(t)'
  BY <1>0, <1>1, <1>2, <1>3, <1>5 DEF KeysInOrder, TaskInOrder, AllBelow
<1>7. Apart'
  BY <1>5 DEF KeysInOrder, Apart
<1>8. InHand'
  <2>1. pc \in {"push", "store"} => key \notin ToSet(stolen') /\ AllBelow({key}, Content(kb', KbSize))
    BY <1>1, <1>2, <1>3, Numbers DEF KeysInOrder, InHand, AllBelow
  <2>2. QED
    BY <1>0, <1>5, <2>1 DEF KeysInOrder, InHand
<1>9. QED
  BY <1>4, <1>6, <1>7, <1>8 DEF KeysInOrder

\* Steps that leave the keys where they are.
LEMMA IdleKeeps ==
    ASSUME KeysInOrder, UNCHANGED <<kb, pressed, queue, received, stolen>>, InHand'
    PROVE  KeysInOrder'
<1>1. \A t \in Tasks : Delivered(t)' = Delivered(t)
  BY SameDelivered DEF DeliveredStays
<1>2. QED
  BY <1>1 DEF KeysInOrder, KeyboardInOrder, TaskInOrder, Apart

LEMMA AdvanceKeeps ==
    ASSUME WinInv, KeysInOrder, Advance
    PROVE  KeysInOrder'
<1>0. /\ ~Empty(kb) /\ key = kb.cell[kb.tail] /\ kb' = [kb EXCEPT !.tail = After(kb.tail, KbSize)]
      /\ pc' \in {"push", "route"} /\ UNCHANGED <<queue, received, stolen, pressed, key>>
  BY DEF Advance, taskVars, KeysInOrder, InHand
<1>1. /\ key \in Keys /\ 0 < key /\ key <= pressed
      /\ AllBelow(ToSet(stolen), {key}) /\ key \notin ToSet(stolen)
      /\ \A t \in Tasks : AllBelow(Delivered(t), {key}) /\ key \notin Delivered(t)
  BY <1>0, FrontIsNewest
<1>2. /\ Sorted(kb', KbSize) /\ Content(kb', KbSize) \subseteq Content(kb, KbSize)
      /\ AllBelow({key}, Content(kb', KbSize))
  BY <1>0, Numbers, TakeOne DEF KeysInOrder, KeyboardInOrder
<1>3. KeyboardInOrder'
  BY <1>0, <1>2 DEF KeysInOrder, KeyboardInOrder, AllBelow
<1>4. \A t \in Tasks : Delivered(t)' = Delivered(t)
  BY <1>0, SameDelivered DEF DeliveredStays
<1>5. ASSUME NEW t \in Tasks PROVE TaskInOrder(t)'
  BY <1>0, <1>2, <1>4 DEF KeysInOrder, TaskInOrder, AllBelow
<1>6. Apart' /\ InHand'
  BY <1>0, <1>1, <1>2, <1>4 DEF KeysInOrder, Apart, InHand
<1>7. QED
  BY <1>3, <1>5, <1>6 DEF KeysInOrder

LEMMA StoreKeeps ==
    ASSUME WinInv, KeysInOrder, Store
    PROVE  KeysInOrder'
<1>1. PICK t \in Tasks : t = hosted[focused]
  BY DEF Store, WinInv, Routing, TypeOK
<1>2. PICK k \in Keys : k = key
  BY Numbers
<1> DEFINE q == queue[t]
           p == Put(q, k, QueueSize)
<1>3. /\ 0 < k /\ k <= pressed /\ k \notin ToSet(stolen) /\ AllBelow({k}, Content(kb, KbSize))
      /\ \A u \in Tasks : AllBelow(Delivered(u), {k})
      /\ next = After(q.head, QueueSize) /\ next # q.tail
  BY <1>1, <1>2 DEF KeysInOrder, InHand, Store
<1>4. queue' = [queue EXCEPT ![t] = p] /\ UNCHANGED <<kb, pressed, received, stolen>> /\ pc' = "route"
  <2>1. DOMAIN queue = Tasks
    BY DEF WinInv, Shapes
  <2>2. QED
    BY <1>1, <1>2, <1>3, <2>1 DEF Store, Put
<1>5. /\ Content(p, QueueSize) = Content(q, QueueSize) \cup {k} /\ Sorted(p, QueueSize)
  <2>1. q \in Rings(QueueSize) /\ QueueSize \in Nat \ {0, 1}
    BY Numbers
  <2>2. AllBelow(Content(q, QueueSize), {k}) /\ Sorted(q, QueueSize)
    BY <1>3 DEF AllBelow, Delivered, KeysInOrder, TaskInOrder
  <2> HIDE DEF q
  <2>3. QED
    BY <1>3, <2>1, <2>2, PutOne
<1>6. queue'[t] = p /\ \A u \in Tasks : u # t => queue'[u] = queue[u]
  BY <1>4 DEF WinInv, Shapes
<1>7. /\ Delivered(t)' = Delivered(t) \cup {k}
      /\ \A u \in Tasks : u # t => Delivered(u)' = Delivered(u)
  BY <1>4, <1>5, <1>6 DEF Delivered
<1> HIDE DEF p, q
<1>8. TaskInOrder(t)'
  <2>1. AllBelow(ToSet(received[t]), Content(queue[t], QueueSize))'
    BY <1>3, <1>4, <1>5, <1>6 DEF AllBelow, Delivered, KeysInOrder, TaskInOrder, q
  <2>2. Sorted(queue[t], QueueSize)' /\ Rising(received[t])'
    BY <1>4, <1>5, <1>6 DEF KeysInOrder, TaskInOrder
  <2>3. (\A x \in Delivered(t) : 0 < x /\ x <= pressed /\ x \notin ToSet(stolen))'
    BY <1>3, <1>4, <1>7 DEF KeysInOrder, TaskInOrder
  <2>4. AllBelow(Delivered(t), Content(kb, KbSize))'
    BY <1>3, <1>4, <1>7 DEF AllBelow, KeysInOrder, TaskInOrder
  <2>5. QED
    BY <2>1, <2>2, <2>3, <2>4 DEF TaskInOrder
<1>9. ASSUME NEW u \in Tasks, u # t PROVE TaskInOrder(u)'
  BY <1>4, <1>6, <1>7, <1>9 DEF KeysInOrder, TaskInOrder
<1>10. Apart'
  <2>1. \A u \in Tasks : k \notin Delivered(u)
    BY <1>3, Numbers DEF AllBelow
  <2>2. QED
    BY <1>7, <2>1 DEF KeysInOrder, Apart
<1>11. KeyboardInOrder' /\ InHand'
  BY <1>4 DEF KeysInOrder, KeyboardInOrder, InHand
<1>12. QED
  BY <1>8, <1>9, <1>10, <1>11 DEF KeysInOrder

\* A step in which one task empties its ring or reads from it.
Consumed(t) ==
    /\ Sorted(queue[t], QueueSize)' /\ Rising(received[t])'
    /\ AllBelow(ToSet(received[t]), Content(queue[t], QueueSize))'
    /\ \A x \in Delivered(t)' : x \in Delivered(t)
    /\ \A u \in Tasks : u # t => queue'[u] = queue[u] /\ received'[u] = received[u]

LEMMA ConsumingKeeps ==
    ASSUME KeysInOrder, NEW t \in Tasks, Consumed(t), UNCHANGED <<kb, pressed, stolen, pc, key, next, hosted, focused>>,
           pc = "store" /\ hosted[focused] = t => queue'[t].head = queue[t].head /\ next # queue'[t].tail,
           pc = "store" => hosted[focused] \in Tasks
    PROVE  KeysInOrder'
<1>1. /\ \A x \in Delivered(t)' : x \in Delivered(t)
      /\ \A u \in Tasks : u # t => Delivered(u)' = Delivered(u)
  BY DEF Consumed, Delivered
<1>2. KeyboardInOrder'
  BY DEF KeysInOrder, KeyboardInOrder
<1>3. ASSUME NEW u \in Tasks PROVE TaskInOrder(u)'
  <2>1. CASE u = t
    BY <1>1, <2>1 DEF Consumed, KeysInOrder, TaskInOrder, AllBelow
  <2>2. CASE u # t
    BY <1>1, <2>2 DEF Consumed, KeysInOrder, TaskInOrder
  <2>3. QED
    BY <2>1, <2>2
<1>4. Apart'
  <2> SUFFICES ASSUME NEW u \in Tasks, NEW v \in Tasks, u # v, NEW x \in Delivered(u)', x \in Delivered(v)'
               PROVE  FALSE
    BY DEF Apart
  <2>1. x \in Delivered(u) /\ x \in Delivered(v)
    BY <1>1
  <2>2. QED
    BY <2>1 DEF KeysInOrder, Apart
<1>5. InHand'
  <2>1. pc \in {"push", "store"} => \A u \in Tasks : AllBelow(Delivered(u)', {key})
    BY <1>1 DEF KeysInOrder, InHand, AllBelow
  <2>2. pc = "store" => next' = After(queue'[hosted[focused]].head, QueueSize) /\ next # queue'[hosted[focused]].tail
    BY DEF Consumed, KeysInOrder, InHand
  <2>3. QED
    BY <2>1, <2>2 DEF KeysInOrder, InHand
<1>6. QED
  BY <1>2, <1>3, <1>4, <1>5 DEF KeysInOrder

LEMMA TaskReadsKeeps ==
    ASSUME WinInv, KeysInOrder, NEW t \in Tasks, TaskReads(t)
    PROVE  KeysInOrder'
<1> DEFINE q == queue[t]
           k == q.cell[q.tail]
           p == [q EXCEPT !.tail = After(q.tail, QueueSize)]
<1>1. /\ ~Empty(q) /\ received' = [received EXCEPT ![t] = Append(received[t], k)]
      /\ queue' = [queue EXCEPT ![t] = p]
      /\ UNCHANGED <<kb, pressed, stolen, pc, key, next, hosted, focused>>
  <2>1. DOMAIN queue = Tasks
    BY DEF WinInv, Shapes
  <2>2. QED
    BY <2>1 DEF TaskReads, windowVars
<1>2. /\ k \in Content(q, QueueSize) /\ Content(p, QueueSize) \subseteq Content(q, QueueSize)
      /\ Sorted(p, QueueSize) /\ AllBelow({k}, Content(p, QueueSize))
      /\ \A x \in Content(q, QueueSize) : x = k \/ x \in Content(p, QueueSize)
  <2>1. q \in Rings(QueueSize) /\ QueueSize \in Nat \ {0, 1} /\ Sorted(q, QueueSize)
    BY Numbers DEF KeysInOrder, TaskInOrder
  <2> HIDE DEF q
  <2>2. QED
    BY <1>1, <2>1, TakeOne
<1>3. k \in Keys /\ received[t] \in Seq(Keys) /\ p.head = q.head /\ p.tail = After(q.tail, QueueSize)
  BY <1>2, Numbers DEF Rings
<1>4. queue'[t] = p /\ received'[t] = Append(received[t], k)
      /\ \A u \in Tasks : u # t => queue'[u] = queue[u] /\ received'[u] = received[u]
  BY <1>1 DEF WinInv, Shapes
<1>5. AllBelow(ToSet(received[t]), {k}) /\ Rising(received[t]) /\ AllBelow(ToSet(received[t]), Content(q, QueueSize))
  BY <1>2 DEF KeysInOrder, TaskInOrder, AllBelow
<1> HIDE DEF k
<1>6. Rising(received'[t]) /\ ToSet(received'[t]) = ToSet(received[t]) \cup {k}
  BY <1>3, <1>4, <1>5, ReadOne
<1> HIDE DEF p
<1>7. Consumed(t)
  <2>1. AllBelow(ToSet(received'[t]), Content(queue'[t], QueueSize))
    BY <1>2, <1>4, <1>5, <1>6 DEF AllBelow
  <2>2. \A x \in Delivered(t)' : x \in Delivered(t)
    BY <1>2, <1>4, <1>6 DEF Delivered
  <2>3. QED
    BY <1>2, <1>4, <1>6, <2>1, <2>2 DEF Consumed
<1>8. pc = "store" => hosted[focused] \in Tasks
  BY DEF WinInv, Routing, TypeOK
<1>9. ASSUME pc = "store", hosted[focused] = t
      PROVE  queue'[t].head = queue[t].head /\ next # queue'[t].tail
  <2>1. next = After(q.head, QueueSize) /\ q.head # q.tail
    BY <1>1, <1>9 DEF KeysInOrder, InHand, Empty
  <2>2. q.head \in 0..(QueueSize - 1) /\ q.tail \in 0..(QueueSize - 1) /\ QueueSize \in Nat \ {0, 1}
    BY Numbers, RingFields
  <2>3. After(q.head, QueueSize) # After(q.tail, QueueSize)
    <3> HIDE DEF q
    <3> QED
      BY <2>1, <2>2, AfterIs
  <2>4. QED
    BY <1>3, <1>4, <2>1, <2>3
<1>10. QED
  BY <1>1, <1>7, <1>8, <1>9, ConsumingKeeps

LEMMA TaskStartsKeeps ==
    ASSUME WinInv, KeysInOrder, NEW t \in Tasks, TaskStarts(t), torn' = 0
    PROVE  KeysInOrder'
<1> DEFINE p == [queue[t] EXCEPT !.head = 0, !.tail = 0]
<1>1. /\ queue' = [queue EXCEPT ![t] = p] /\ received' = received
      /\ UNCHANGED <<kb, pressed, stolen, pc, key, next, hosted, focused>>
      /\ ~ (pc = "store" /\ hosted[focused] = t)
  <2>1. DOMAIN queue = Tasks
    BY DEF WinInv, Shapes
  <2>2. queue' = [queue EXCEPT ![t] = p]
    BY <2>1 DEF TaskStarts
  <2>3. ~ (pc = "store" /\ hosted[focused] = t)
    BY DEF TaskStarts
  <2>4. QED
    BY <2>2, <2>3 DEF TaskStarts, windowVars
<1>2. queue'[t] = p /\ \A u \in Tasks : u # t => queue'[u] = queue[u]
  BY <1>1 DEF WinInv, Shapes
<1>3. Content(p, QueueSize) = {} /\ Sorted(p, QueueSize)
  <2>1. QueueSize \in Nat \ {0, 1} /\ queue[t] \in Rings(QueueSize)
    BY Numbers
  <2>2. 0 \in 0..(QueueSize - 1)
    BY <2>1
  <2>3. p \in Rings(QueueSize) /\ Empty(p)
    BY <2>1, <2>2, RingEnds DEF Rings, Empty
  <2> HIDE DEF p
  <2>4. QED
    BY <2>1, <2>3, EmptyRing
<1> HIDE DEF p
<1>4. Consumed(t)
  BY <1>1, <1>2, <1>3 DEF Consumed, Delivered, AllBelow, KeysInOrder, TaskInOrder
<1>5. pc = "store" => hosted[focused] \in Tasks
  BY DEF WinInv, Routing, TypeOK
<1>6. QED
  BY <1>1, <1>4, <1>5, ConsumingKeeps

LEMMA OtherStepsKeep ==
    ASSUME WinInv, KeysInOrder,
           \/ Route \/ Push \/ RouteDone \/ DesktopStarts \/ Quit \/ (\E down \in {0, 1} : Round(down))
           \/ (\E t \in Tasks : TaskExits(t)) \/ UNCHANGED vars
    PROVE  KeysInOrder'
<1>1. CASE Route
  <2>1. InHand'
    BY <1>1 DEF Route, InHand
  <2>2. QED
    BY <1>1, <2>1, IdleKeeps DEF Route, taskVars
<1>2. CASE Push
  <2>1. /\ pc = "push" /\ pc' \in {"route", "store"}
        /\ pc' = "store" => next' = After(queue[hosted[focused]].head, QueueSize) /\ next' # queue[hosted[focused]].tail
        /\ UNCHANGED <<kb, pressed, queue, received, stolen, key, hosted, focused>>
    BY <1>2 DEF Push, taskVars, windowVars
  <2>2. \A t \in Tasks : Delivered(t)' = Delivered(t)
    BY <2>1, SameDelivered DEF DeliveredStays
  <2>3. InHand'
    BY <2>1, <2>2 DEF KeysInOrder, InHand
  <2>4. QED
    BY <2>1, <2>3, IdleKeeps
<1>3. CASE RouteDone \/ Quit
  <2>1. InHand'
    BY <1>3 DEF RouteDone, Quit, InHand
  <2>2. QED
    BY <1>3, <2>1, IdleKeeps DEF RouteDone, Quit, taskVars
<1>4. CASE \E down \in {0, 1} : Round(down)
  <2>1. pc = "loop" /\ UNCHANGED <<kb, pressed, pc, received, stolen, queue>>
    BY <1>4 DEF Round, OpenWindow, ClickedWindow, CloseWindow, bring_to_front
  <2>2. InHand'
    BY <2>1 DEF InHand
  <2>3. QED
    BY <2>1, <2>2, IdleKeeps
<1>5. CASE (\E t \in Tasks : TaskExits(t)) \/ UNCHANGED vars
  <2>1. UNCHANGED <<kb, pressed, pc, key, next, received, stolen, queue, hosted, focused>>
    BY <1>5 DEF TaskExits, vars, windowVars, taskVars
  <2>2. InHand'
    <3>1. \A t \in Tasks : Delivered(t)' = Delivered(t)
      BY <2>1, SameDelivered DEF DeliveredStays
    <3>2. QED
      BY <2>1, <3>1 DEF KeysInOrder, InHand
  <2>3. QED
    BY <2>1, <2>2, IdleKeeps
<1>6. CASE DesktopStarts
  <2>1. kb' = [kb EXCEPT !.tail = kb.head] /\ pc' = "loop" /\ UNCHANGED <<pressed, queue, received, stolen>>
    BY <1>6 DEF DesktopStarts, taskVars
  <2>2. KbSize \in Nat \ {0, 1} /\ kb \in Rings(KbSize) /\ kb.head \in 0..(KbSize - 1)
    BY Numbers, RingFields
  <2>3. kb' \in Rings(KbSize) /\ Empty(kb')
    BY <2>1, <2>2, RingEnds DEF Rings, Empty
  <2>4. Content(kb', KbSize) = {} /\ Sorted(kb', KbSize)
    <3>1. PICK r \in Rings(KbSize) : r = kb'
      BY <2>3
    <3>2. QED
      BY <2>2, <2>3, <3>1, EmptyRing DEF Empty
  <2>5. \A t \in Tasks : Delivered(t)' = Delivered(t)
    BY <2>1, SameDelivered DEF DeliveredStays
  <2>6. KeyboardInOrder' /\ Apart' /\ InHand'
    BY <2>1, <2>4, <2>5 DEF KeysInOrder, KeyboardInOrder, Apart, InHand, AllBelow
  <2>7. \A t \in Tasks : TaskInOrder(t)'
    BY <2>1, <2>4, <2>5 DEF KeysInOrder, TaskInOrder, AllBelow
  <2>8. QED
    BY <2>6, <2>7 DEF KeysInOrder
<1>7. QED
  BY <1>1, <1>2, <1>3, <1>4, <1>5, <1>6

LEMMA KeysStep ==
    ASSUME WinInv, KeyInv, [Next]_vars
    PROVE  KeyInv'
<1> SUFFICES ASSUME torn' = 0 PROVE KeysInOrder'
  BY DEF KeyInv
<1>1. torn = 0
  <2>1. CASE RawGetchar
    BY <2>1 DEF RawGetchar
  <2>2. ASSUME NEW t \in Tasks, TaskStarts(t) PROVE torn = 0
    BY <2>2 DEF TaskStarts
  <2>3. CASE \E t \in Tasks : TaskReads(t) \/ TaskExits(t)
    BY <2>3 DEF TaskReads, TaskExits
  <2>4. CASE Press \/ RouteKeyboard \/ DesktopStarts \/ Quit \/ UNCHANGED vars
    BY <2>4 DEF Press, RouteKeyboard, Route, Advance, Push, Store, RouteDone, DesktopStarts, Quit, vars
  <2>5. CASE \E down \in {0, 1} : Round(down)
    BY <2>5 DEF Round
  <2>6. QED
    BY <2>1, <2>2, <2>3, <2>4, <2>5 DEF Next
<1>2. KeysInOrder
  BY <1>1 DEF KeyInv
<1>3. CASE Press \/ RawGetchar
  BY <1>2, <1>3, PressKeeps, RawGetcharKeeps
<1>4. CASE RouteKeyboard
  BY <1>2, <1>4, AdvanceKeeps, StoreKeeps, OtherStepsKeep DEF RouteKeyboard
<1>5. CASE DesktopStarts \/ Quit \/ (\E down \in {0, 1} : Round(down)) \/ UNCHANGED vars
  BY <1>2, <1>5, OtherStepsKeep
<1>6. ASSUME NEW t \in Tasks, TaskStarts(t) \/ TaskReads(t) \/ TaskExits(t)
      PROVE  KeysInOrder'
  <2>1. CASE TaskExits(t)
    BY <1>2, <2>1, OtherStepsKeep
  <2>2. CASE TaskStarts(t) \/ TaskReads(t)
    BY <1>2, <2>2, TaskStartsKeeps, TaskReadsKeeps
  <2>3. QED
    BY <1>6, <2>1, <2>2
<1>7. QED
  BY <1>3, <1>4, <1>5, <1>6 DEF Next

\* As long as no access to a ring was caught in the middle by another one, what a
\* task reads is in the order it was typed, nothing comes twice, and no two
\* readers get the same key: for rings of any size, and although route_keyboard
\* reads one ring and writes the other in two steps each.
THEOREM KeysAreDeliveredOnce == Spec => []KeysArriveOnceInOrder
<1>1. Init => KeyInv
  <2> SUFFICES ASSUME Init PROVE KeysInOrder
    BY DEF KeyInv
  <2>1. KbSize \in Nat \ {0, 1} /\ QueueSize \in Nat \ {0, 1}
    BY DesktopAssumption
  <2>2. kb \in Rings(KbSize) /\ Empty(kb) /\ \A t \in Tasks : queue[t] \in Rings(QueueSize) /\ Empty(queue[t])
    BY DesktopAssumption DEF Init, Rings, Ring, Empty, Keys, NoKey
  <2>3. /\ Content(kb, KbSize) = {} /\ Sorted(kb, KbSize)
        /\ \A t \in Tasks : Content(queue[t], QueueSize) = {} /\ Sorted(queue[t], QueueSize)
    BY <2>1, <2>2, EmptyRing
  <2>4. /\ ToSet(stolen) = {} /\ Rising(stolen)
        /\ \A t \in Tasks : ToSet(received[t]) = {} /\ Rising(received[t])
    BY DEF Init, ToSet, Rising
  <2>5. \A t \in Tasks : Delivered(t) = {}
    BY <2>3, <2>4 DEF Delivered
  <2>6. KeyboardInOrder /\ Apart /\ InHand
    BY <2>3, <2>4, <2>5 DEF Init, KeyboardInOrder, AllBelow, Apart, InHand
  <2>7. \A t \in Tasks : TaskInOrder(t)
    BY <2>3, <2>4, <2>5 DEF TaskInOrder, AllBelow
  <2>8. QED
    BY <2>6, <2>7 DEF KeysInOrder
<1>2. WinInv /\ KeyInv /\ [Next]_vars => KeyInv'
  BY KeysStep
<1>3. WinInv /\ KeyInv => KeysArriveOnceInOrder
  <2> SUFFICES ASSUME WinInv, KeysInOrder
               PROVE  /\ Increasing(stolen)
                      /\ \A t \in Tasks : /\ Increasing(received[t]) /\ NoKey \notin ToSet(received[t])
                                          /\ ToSet(stolen) \cap ToSet(received[t]) = {}
                      /\ \A t, u \in Tasks : t # u => ToSet(received[t]) \cap ToSet(received[u]) = {}
    BY DEF KeyInv, KeysArriveOnceInOrder
  <2>1. ASSUME NEW s \in Seq(Keys), Rising(s) PROVE Increasing(s)
    <3>1. Len(s) \in Nat
      OBVIOUS
    <3>2. \A i \in 1..(Len(s) - 1) : i \in 1..Len(s) /\ i + 1 \in 1..Len(s) /\ i < i + 1
      BY <3>1
    <3>3. QED
      BY <2>1, <3>2 DEF Rising, Increasing
  <2>2. Increasing(stolen)
    BY <2>1, Numbers DEF KeysInOrder, KeyboardInOrder
  <2>3. ASSUME NEW t \in Tasks
        PROVE  /\ Increasing(received[t]) /\ NoKey \notin ToSet(received[t])
               /\ ToSet(stolen) \cap ToSet(received[t]) = {}
    <3>1. received[t] \in Seq(Keys) /\ Rising(received[t]) /\ ToSet(received[t]) \subseteq Delivered(t)
      BY Numbers DEF KeysInOrder, TaskInOrder, Delivered
    <3>2. \A k \in Delivered(t) : 0 < k /\ k \notin ToSet(stolen)
      BY DEF KeysInOrder, TaskInOrder
    <3>3. NoKey \notin Delivered(t)
      BY <3>2 DEF NoKey
    <3>4. QED
      BY <2>1, <3>1, <3>2, <3>3
  <2>4. ASSUME NEW t \in Tasks, NEW u \in Tasks, t # u
        PROVE  ToSet(received[t]) \cap ToSet(received[u]) = {}
    BY <2>4 DEF KeysInOrder, Apart, Delivered
  <2>5. QED
    BY <2>2, <2>3, <2>4
<1>4. QED
  BY <1>1, <1>2, <1>3, WinInvHolds, PTL DEF Spec
=============================================================================
