------------------------------ MODULE Desktop ------------------------------
(***************************************************************************)
(* The way of a keystroke: keyboard interrupt, the kernel's ring buffer    *)
(* (kernel/keyboard.c), the desktop's compositor task (kernel/desktop.c),  *)
(* the private ring of the task in the focused window (kernel/task.c), and *)
(* that task.  And the windows: open, close, focus, stacking, dragging.    *)
(*                                                                         *)
(* The compositor, the hosted tasks and the interrupt interleave; a ring   *)
(* that two of them use is accessed one assignment at a time.  A system    *)
(* call (SYS_GETCHAR_NB) and an interrupt are one step each.               *)
(*                                                                         *)
(* Keys are numbered in the order they are pressed.  Positions on screen   *)
(* are left out: a click may hit any part of any window that is not        *)
(* covered, and any window may be uncovered.                               *)
(***************************************************************************)
EXTENDS Integers, Sequences, SequencesExt, FiniteSets, FiniteSetsExt

CONSTANTS
    NWindows,   \* MAX_WINDOWS
    KbSize,     \* KB_BUF_SIZE
    QueueSize,  \* TASK_INPUT_QUEUE_SIZE
    MaxTasks,   \* bound: windows opened
    MaxKeys,    \* bound: keys pressed
    MaxRaw      \* bound: keys that user programs take with SYS_GETCHAR_NB

ASSUME DesktopAssumption ==
    /\ NWindows \in Nat \ {0} /\ KbSize \in Nat \ {0, 1} /\ QueueSize \in Nat \ {0, 1}
    /\ MaxTasks \in Nat /\ MaxKeys \in Nat /\ MaxRaw \in Nat

Slots == 1..NWindows
NoSlot == 0
Tasks == 1..MaxTasks
NoTask == 0
NoKey == 0

VARIABLES
    kb,          \* the keyboard ring: cells, kb_head and kb_tail
    pressed,     \* keys pressed so far
    hosted,      \* per slot: the window's task, NoTask if it is not active
    order,       \* window_order, back to front
    focused,     \* focused_slot
    dragging,    \* dragging_window
    button,      \* prev_buttons: was the left button down
    pc,          \* the compositor: "off", "loop", "route", "advance", "push", "store"
    key,         \* the character it is routing
    next,        \* the head it has computed for the task's ring
    created,     \* tasks created
    state,       \* per task: "none", "new", "running", "zombie"
    queue,       \* per task: its input ring
    received,    \* per task: the keys it has read
    stolen,      \* the keys SYS_GETCHAR_NB returned
    torn         \* history: a ring was reset in the middle of a push into it, or read
                 \* in the middle of another read

windowVars == <<hosted, order, focused, dragging, button>>
taskVars == <<created, state, queue, received>>
vars == <<kb, pressed, windowVars, pc, key, next, taskVars, stolen, torn>>

Ring(size) == [cell |-> [i \in 0..(size - 1) |-> NoKey], head |-> 0, tail |-> 0]
Empty(r) == r.head = r.tail
After(i, size) == (i + 1) % size

Init ==
    /\ kb = Ring(KbSize) /\ pressed = 0
    /\ hosted = [s \in Slots |-> NoTask]
    /\ order = <<>> /\ focused = NoSlot /\ dragging = NoSlot /\ button = 0
    /\ pc = "off" /\ key = NoKey /\ next = 0
    /\ created = 0
    /\ state = [t \in Tasks |-> "none"]
    /\ queue = [t \in Tasks |-> Ring(QueueSize)]
    /\ received = [t \in Tasks |-> <<>>]
    /\ stolen = <<>> /\ torn = 0

----------------------------------------------------------------------------
(* keyboard.c                                                              *)

\* keyboard_callback for a key that has a character: kb_buffer_push drops it
\* when the ring is full.
Press ==
    /\ pressed < MaxKeys
    /\ pressed' = pressed + 1
    /\ kb' = IF After(kb.head, KbSize) = kb.tail THEN kb
             ELSE [kb EXCEPT !.cell[kb.head] = pressed', !.head = After(kb.head, KbSize)]
    /\ UNCHANGED <<windowVars, pc, key, next, taskVars, stolen, torn>>

\* SYS_GETCHAR_NB by a user program, which has no input redirect: the same
\* ring, with interrupts off.
RawGetchar ==
    /\ Len(stolen) < MaxRaw /\ ~Empty(kb)
    /\ stolen' = Append(stolen, kb.cell[kb.tail])
    /\ kb' = [kb EXCEPT !.tail = After(kb.tail, KbSize)]
    /\ torn' = IF pc = "advance" THEN 1 ELSE torn
    /\ UNCHANGED <<pressed, windowVars, pc, key, next, taskVars>>

----------------------------------------------------------------------------
(* route_keyboard, task_push_input_char                                    *)

\* keyboard_has_char and the first half of keyboard_getchar.
Route ==
    /\ pc \in {"loop", "route"} /\ ~Empty(kb)
    /\ key' = kb.cell[kb.tail] /\ pc' = "advance"
    /\ UNCHANGED <<kb, pressed, windowVars, next, taskVars, stolen, torn>>

\* Mutant of Advance: kb_tail stays where it is.
AdvanceNowhere ==
    /\ pc = "advance"
    /\ pc' = IF focused # NoSlot /\ hosted[focused] # NoTask THEN "push" ELSE "route"
    /\ UNCHANGED <<kb, pressed, windowVars, key, next, taskVars, stolen, torn>>

\* The second half moves kb_tail from where it is now.
Advance ==
    /\ pc = "advance"
    /\ kb' = [kb EXCEPT !.tail = After(kb.tail, KbSize)]
    /\ pc' = IF focused # NoSlot /\ hosted[focused] # NoTask THEN "push" ELSE "route"
    /\ UNCHANGED <<pressed, windowVars, key, next, taskVars, stolen, torn>>

\* Compute the next head; a full queue drops the key.
Push ==
    /\ pc = "push"
    /\ LET q == queue[hosted[focused]]
       IN /\ next' = After(q.head, QueueSize)
          /\ pc' = IF next' = q.tail THEN "route" ELSE "store"
    /\ UNCHANGED <<kb, pressed, windowVars, key, taskVars, stolen, torn>>

\* Store the key at the head, then move the head to where it was computed to be.
\* task_unblock changes nothing here: a task that waits for a key halts and is
\* READY, and a hosted shell that is BLOCKED in task_wait_specific only looks at
\* its child again and goes back to sleep.
Store ==
    /\ pc = "store"
    /\ LET t == hosted[focused]
       IN queue' = [queue EXCEPT ![t].cell[queue[t].head] = key, ![t].head = next]
    /\ pc' = "route"
    /\ UNCHANGED <<kb, pressed, windowVars, key, next, created, state, received, stolen, torn>>

RouteDone ==
    /\ pc = "route" /\ Empty(kb)
    /\ pc' = "loop"
    /\ UNCHANGED <<kb, pressed, windowVars, key, next, taskVars, stolen, torn>>

----------------------------------------------------------------------------
(* The hosted tasks                                                        *)

\* terminal_entry_N, editor_entry_N: task_set_input_redirect empties the ring.
TaskStarts(t) ==
    /\ state[t] = "new"
    /\ state' = [state EXCEPT ![t] = "running"]
    /\ queue' = [queue EXCEPT ![t].head = 0, ![t].tail = 0]
    /\ torn' = IF pc = "store" /\ hosted[focused] = t THEN 1 ELSE torn
    /\ UNCHANGED <<kb, pressed, windowVars, pc, key, next, created, received, stolen>>

\* keyboard_getchar through the redirect: only this task moves its tail.
TaskReads(t) ==
    /\ state[t] = "running" /\ ~Empty(queue[t])
    /\ received' = [received EXCEPT ![t] = Append(@, queue[t].cell[queue[t].tail])]
    /\ queue' = [queue EXCEPT ![t].tail = After(queue[t].tail, QueueSize)]
    /\ UNCHANGED <<kb, pressed, windowVars, pc, key, next, created, state, stolen, torn>>

\* The editor saves or quits: task_exit_current.  Its window stays open.
TaskExits(t) ==
    /\ state[t] = "running"
    /\ state' = [state EXCEPT ![t] = "zombie"]
    /\ UNCHANGED <<kb, pressed, windowVars, pc, key, next, created, queue, received, stolen, torn>>

----------------------------------------------------------------------------
(* Windows                                                                 *)

Active == {s \in Slots : hosted[s] # NoTask}
\* The first place that holds the slot is closed up; without one nothing changes.
order_remove(o, s) ==
    IF s \notin ToSet(o) THEN o
    ELSE LET pos == Min({i \in DOMAIN o : o[i] = s})
         IN [i \in 1..(Len(o) - 1) |-> IF i < pos THEN o[i] ELSE o[i + 1]]

\* desktop_run starts: the rest of the keyboard's ring is drained.
DesktopStarts ==
    /\ pc = "off" /\ created < MaxTasks
    /\ hosted' = [s \in Slots |-> NoTask]
    /\ order' = <<>> /\ focused' = NoSlot /\ dragging' = NoSlot
    /\ kb' = [kb EXCEPT !.tail = kb.head]
    /\ pc' = "loop"
    /\ UNCHANGED <<pressed, button, key, next, taskVars, stolen, torn>>

\* open_window, in the lowest free slot.
OpenWindow ==
    /\ created < MaxTasks
    /\ IF Active = Slots
       THEN UNCHANGED <<hosted, order, focused, created, state>>
       ELSE LET s == Min(Slots \ Active)
            IN /\ created' = created + 1
               /\ state' = [state EXCEPT ![created'] = "new"]
               /\ hosted' = [hosted EXCEPT ![s] = created']
               /\ order' = Append(order, s)
               /\ focused' = s
    /\ UNCHANGED <<dragging, queue>>

\* Mutant of CloseWindow: the task is left running.
CloseWindowOnly(s) ==
    /\ hosted' = [hosted EXCEPT ![s] = NoTask]
    /\ order' = order_remove(order, s)
    /\ focused' = IF focused # s THEN focused
                  ELSE IF order' = <<>> THEN NoSlot ELSE Last(order')
    /\ dragging' = IF dragging = s THEN NoSlot ELSE dragging
    /\ UNCHANGED <<created, state, queue>>

\* close_window: the task is terminated, and the focus goes to the front.
CloseWindow(s) ==
    /\ state' = [state EXCEPT ![hosted[s]] = "zombie"]
    /\ hosted' = [hosted EXCEPT ![s] = NoTask]
    /\ order' = order_remove(order, s)
    /\ focused' = IF focused # s THEN focused
                  ELSE IF order' = <<>> THEN NoSlot ELSE Last(order')
    /\ dragging' = IF dragging = s THEN NoSlot ELSE dragging
    /\ UNCHANGED <<created, queue>>

bring_to_front(s) ==
    /\ order' = Append(order_remove(order, s), s)
    /\ focused' = s
    /\ UNCHANGED <<hosted, created, state, queue>>

\* The part of a round of desktop_run after the keyboard: the left button went
\* down, went up, or did not change.
ClickedWindow(s) ==
    \/ CloseWindow(s)
    \/ bring_to_front(s) /\ dragging' = s         \* title bar
    \/ bring_to_front(s) /\ UNCHANGED dragging    \* body

Round(down) ==
    /\ pc = "loop"
    /\ button' = down
    /\ \/ down = 1 /\ button = 0 /\ (OpenWindow \/ \E s \in Active : ClickedWindow(s))
       \/ /\ down = 0
          /\ dragging' = NoSlot
          /\ UNCHANGED <<hosted, order, focused, created, state, queue>>
       \/ /\ down = 1  \* held, or pressed where nothing is
          /\ UNCHANGED <<hosted, order, focused, dragging, created, state, queue>>
    /\ UNCHANGED <<kb, pressed, pc, key, next, received, stolen, torn>>

\* The Quit button: every window is closed.
Quit ==
    /\ pc = "loop" /\ button = 0
    /\ state' = [t \in Tasks |-> IF \E s \in Active : hosted[s] = t THEN "zombie" ELSE state[t]]
    /\ hosted' = [s \in Slots |-> NoTask]
    /\ order' = <<>> /\ focused' = NoSlot /\ dragging' = NoSlot /\ button' = 1
    /\ pc' = "off"
    /\ UNCHANGED <<kb, pressed, key, next, created, queue, received, stolen, torn>>

----------------------------------------------------------------------------
RouteKeyboard == Route \/ Advance \/ Push \/ Store \/ RouteDone

Next ==
    \/ Press \/ RawGetchar
    \/ RouteKeyboard
    \/ DesktopStarts \/ Quit \/ \E down \in {0, 1} : Round(down)
    \/ \E t \in Tasks : TaskStarts(t) \/ TaskReads(t) \/ TaskExits(t)

Spec == Init /\ [][Next]_vars

\* The compositor is scheduled again and again, and looks at the keyboard first
\* in each of its rounds.  Nothing is assumed of the hosted tasks: a shell may
\* wait for ever for a program or a test that does not end, and never read.
FairSpec == Spec /\ WF_vars(RouteKeyboard)

----------------------------------------------------------------------------
(* Properties                                                              *)

Keys == 0..MaxKeys
RingOK(r, size) == /\ r.head \in 0..(size - 1) /\ r.tail \in 0..(size - 1)
                   /\ r.cell \in [0..(size - 1) -> Keys]

TypeOK ==
    /\ RingOK(kb, KbSize) /\ pressed \in Keys
    /\ hosted \in [Slots -> Tasks \cup {NoTask}]
    /\ order \in Seq(Slots)
    /\ focused \in Slots \cup {NoSlot} /\ dragging \in Slots \cup {NoSlot} /\ button \in {0, 1}
    /\ pc \in {"off", "loop", "route", "advance", "push", "store"}
    /\ key \in Keys /\ next \in 0..(QueueSize - 1)
    /\ created \in 0..MaxTasks
    /\ state \in [Tasks -> {"none", "new", "running", "zombie"}]
    /\ \A t \in Tasks : RingOK(queue[t], QueueSize) /\ received[t] \in Seq(Keys)
    /\ torn \in {0, 1}

\* The stack of windows is exactly the active windows, each once, the focused
\* window is the one in front, and only an open window is dragged: through any
\* sequence of opening, closing, clicking and dragging.
StackIsConsistent ==
    /\ ToSet(order) = Active /\ Len(order) = Cardinality(Active)
    /\ focused = IF order = <<>> THEN NoSlot ELSE Last(order)
    /\ dragging # NoSlot => dragging \in Active

\* A task that runs has a window that shows it, and only one; when the desktop
\* has quit none is left ("so no hosted tasks ... linger", desktop.c:375-377).
NoTaskLingers ==
    \A t \in Tasks : state[t] \in {"new", "running"} =>
        pc # "off" /\ Cardinality({s \in Slots : hosted[s] = t}) = 1

\* Windows, stack and tasks fit together in every state of the desktop.
WindowsAreSound == TypeOK /\ StackIsConsistent /\ NoTaskLingers

Increasing(s) == \A i \in 1..(Len(s) - 1) : s[i] < s[i + 1]

\* Typing goes to one window at a time (desktop.c:269-276): what a task reads is
\* in the order it was typed, nothing comes twice, and no two tasks, nor a task
\* and a program that polls the raw ring, get the same key.  Provided that no
\* access to a ring was caught in the middle by another one.
KeysArriveOnceInOrder ==
    torn = 0 =>
        /\ Increasing(stolen)
        /\ \A t \in Tasks : /\ Increasing(received[t]) /\ NoKey \notin ToSet(received[t])
                             /\ ToSet(stolen) \cap ToSet(received[t]) = {}
        /\ \A t, u \in Tasks : t # u => ToSet(received[t]) \cap ToSet(received[u]) = {}

\* A key that waits while the desktop runs is taken: the ring empties.
KeyboardDrains == (pc # "off" /\ ~Empty(kb)) ~> (Empty(kb) \/ pc = "off")
=============================================================================
