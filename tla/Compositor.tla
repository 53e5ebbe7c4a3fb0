---------------------------- MODULE Compositor ----------------------------
(***************************************************************************)
(* The frames of the desktop (kernel/desktop.c, desktop_run and redraw):   *)
(* the compositor polls the keyboard, the mouse's dirty flag and the dirty *)
(* flags of the windows' tasks, samples the buttons, and redraws only if   *)
(* it has seen a reason to.  The mouse interrupt and the tasks that print  *)
(* into their windows set those flags at any moment, so testing a flag and *)
(* clearing it are two steps here, as are storing into a window's buffer   *)
(* and marking it dirty.                                                   *)
(*                                                                         *)
(* The windows' stacking, focus and keys are in module Desktop.            *)
(***************************************************************************)
EXTENDS Mouse

CONSTANTS
    Windows,   \* the slots of windows[]
    NoWindow

ASSUME WindowsAssumption == NoWindow \notin Windows

VARIABLES
    pc,            \* desktop_run: "off", "init", "poll", "clearMouse", "clearWindow",
                   \* "windows", "cursor", "haveX", "haveY", "drawn"
    polled,        \* the window whose flag it is clearing
    need_redraw, prev_buttons, quit_requested,
    shownX, shownY,     \* where the cursor was last drawn
    window,        \* per slot: "closed", "new" (its task has not run) or "open"
    stale,         \* per slot: its buffer has changed since it was last drawn
    vga_redirect_dirty,
    storing        \* per slot: its task has stored a character and not marked it

compositor == <<pc, polled, need_redraw, prev_buttons, quit_requested, shownX, shownY>>
windowVars == <<window, stale, vga_redirect_dirty, storing>>
vars == <<mouseVars, compositor, windowVars>>

NoWindows ==
    [window |-> [w \in Windows |-> "closed"], stale |-> [w \in Windows |-> FALSE],
     dirty |-> [w \in Windows |-> 0], storing |-> [w \in Windows |-> FALSE]]

CInit ==
    /\ Init
    /\ pc = "off" /\ polled = NoWindow
    /\ need_redraw = FALSE /\ prev_buttons = 0 /\ quit_requested = FALSE
    /\ shownX = mouse_x /\ shownY = mouse_y
    /\ window = NoWindows.window /\ stale = NoWindows.stale
    /\ vga_redirect_dirty = NoWindows.dirty /\ storing = NoWindows.storing

----------------------------------------------------------------------------
(* The tasks in the windows                                                *)

\* terminal_entry_N: vga_set_redirect.
TaskStarts(w) ==
    /\ window[w] = "new"
    /\ window' = [window EXCEPT ![w] = "open"]
    /\ vga_redirect_dirty' = [vga_redirect_dirty EXCEPT ![w] = 1]
    /\ UNCHANGED <<mouseVars, compositor, stale, storing>>

\* Mutant of StoreCharacter: the flag is set before the store, not after it.
StoreAfterMark(w) ==
    /\ window[w] = "open" /\ ~storing[w]
    /\ stale' = [stale EXCEPT ![w] = TRUE]
    /\ UNCHANGED <<mouseVars, compositor, window, vga_redirect_dirty, storing>>

\* redirect_putc, vga_clear: the cells change ...
StoreCharacter(w) ==
    /\ window[w] = "open" /\ ~storing[w]
    /\ stale' = [stale EXCEPT ![w] = TRUE]
    /\ storing' = [storing EXCEPT ![w] = TRUE]
    /\ UNCHANGED <<mouseVars, compositor, window, vga_redirect_dirty>>

\* ... and task_current_vga_mark_dirty follows.
MarkDirty(w) ==
    /\ window[w] = "open" /\ storing[w]
    /\ vga_redirect_dirty' = [vga_redirect_dirty EXCEPT ![w] = 1]
    /\ storing' = [storing EXCEPT ![w] = FALSE]
    /\ UNCHANGED <<mouseVars, compositor, window, stale>>

----------------------------------------------------------------------------
(* desktop_run                                                             *)

\* gui_init has succeeded; mouse_init takes its own steps.
DesktopStarts ==
    /\ pc = "off"
    /\ pc' = "init"
    /\ InitStarts
    /\ UNCHANGED <<polled, need_redraw, prev_buttons, quit_requested, shownX, shownY, windowVars>>

MouseInitStep ==
    /\ pc = "init" /\ (SetDefaults \/ EnableReporting \/ ResetPacket \/ InstallHandler)
    /\ UNCHANGED <<compositor, windowVars>>

\* No window is active (none was left by the last desktop), and the first frame is drawn.
EnterLoop ==
    /\ pc = "init" /\ initPc = "out"
    /\ quit_requested' = FALSE
    /\ pc' = "windows"
    /\ UNCHANGED <<mouseVars, polled, need_redraw, prev_buttons, shownX, shownY, windowVars>>

\* keyboard_has_char, route_keyboard.
PollKeyboard ==
    /\ pc = "poll"
    /\ need_redraw' = TRUE
    /\ UNCHANGED <<mouseVars, pc, polled, prev_buttons, quit_requested, shownX, shownY, windowVars>>

\* mouse_consume_dirty: the test ...
PollMouse ==
    /\ pc = "poll" /\ mouse_dirty = 1
    /\ pc' = "clearMouse"
    /\ UNCHANGED <<mouseVars, polled, need_redraw, prev_buttons, quit_requested, shownX, shownY, windowVars>>

\* ... and the assignment.
ClearMouse ==
    /\ pc = "clearMouse"
    /\ mouse_dirty' = 0 /\ need_redraw' = TRUE /\ pc' = "poll"
    /\ UNCHANGED <<device, jammed, installed, initPc, packet, discard_next_packet, mouse_x, mouse_y,
                   mouse_buttons, quiet, polled, prev_buttons, quit_requested, shownX, shownY, windowVars>>

\* task_consume_vga_dirty: the same for a window.  The mouse was found quiet
\* before, but a packet may have come since.
PollWindow(w) ==
    /\ pc = "poll" /\ window[w] # "closed" /\ vga_redirect_dirty[w] = 1
    /\ pc' = "clearWindow" /\ polled' = w
    /\ UNCHANGED <<mouseVars, need_redraw, prev_buttons, quit_requested, shownX, shownY, windowVars>>

\* Mutant of ClearWindow: the flag is cleared and the frame not redrawn.
ClearWindowOnly ==
    /\ pc = "clearWindow"
    /\ vga_redirect_dirty' = [vga_redirect_dirty EXCEPT ![polled] = 0]
    /\ pc' = "poll" /\ polled' = NoWindow
    /\ UNCHANGED <<mouseVars, need_redraw, prev_buttons, quit_requested, shownX, shownY, window, stale, storing>>

ClearWindow ==
    /\ pc = "clearWindow"
    /\ vga_redirect_dirty' = [vga_redirect_dirty EXCEPT ![polled] = 0]
    /\ need_redraw' = TRUE /\ pc' = "poll" /\ polled' = NoWindow
    /\ UNCHANGED <<mouseVars, prev_buttons, quit_requested, shownX, shownY, window, stale, storing>>

----------------------------------------------------------------------------
(* The end of a frame                                                      *)

\* open_window: a new task, whose redirect is not set up yet.
OpenWindow(w) ==
    /\ window[w] = "closed"
    /\ window' = [window EXCEPT ![w] = "new"]
    /\ UNCHANGED <<stale, storing, vga_redirect_dirty>>

\* close_window: the task stops wherever it is; what its flags are no longer matters.
CloseWindow(w) ==
    /\ window[w] # "closed"
    /\ window' = [window EXCEPT ![w] = "closed"]
    /\ stale' = [stale EXCEPT ![w] = FALSE]
    /\ storing' = [storing EXCEPT ![w] = FALSE]
    /\ vga_redirect_dirty' = [vga_redirect_dirty EXCEPT ![w] = 0]

\* What a press of the left button does, wherever the cursor is.
Click ==
    \/ need_redraw' = TRUE /\ UNCHANGED quit_requested
       /\ \E w \in Windows : OpenWindow(w) \/ CloseWindow(w)
    \/ need_redraw' = TRUE /\ quit_requested' = TRUE /\ UNCHANGED windowVars
    \/ need_redraw' = TRUE /\ UNCHANGED <<quit_requested, windowVars>>  \* focus, or a drag
    \/ UNCHANGED <<need_redraw, quit_requested, windowVars>>            \* nothing there

Left(buttons) == buttons % 2

\* The time of the frame is up: the buttons are sampled, and the frame is drawn
\* if there was a reason to.
FrameEnds ==
    /\ pc = "poll"
    /\ \/ Left(mouse_buttons) = 1 /\ Left(prev_buttons) = 0 /\ Click
       \/ /\ Left(mouse_buttons) = 1 /\ Left(prev_buttons) = 1  \* held: a window may be dragged
          /\ need_redraw' \in {need_redraw, TRUE}
          /\ UNCHANGED <<quit_requested, windowVars>>
       \/ Left(mouse_buttons) = 0 /\ UNCHANGED <<need_redraw, quit_requested, windowVars>>
    /\ prev_buttons' = mouse_buttons
    /\ pc' = IF need_redraw' THEN "windows" ELSE "drawn"
    /\ UNCHANGED <<mouseVars, polled, shownX, shownY>>

\* redraw: background, windows back to front, taskbar ...
DrawWindows ==
    /\ pc = "windows"
    /\ stale' = [w \in Windows |-> IF window[w] = "closed" THEN stale[w] ELSE FALSE]
    /\ pc' = "cursor"
    /\ UNCHANGED <<mouseVars, polled, need_redraw, prev_buttons, quit_requested, shownX, shownY,
                   window, vga_redirect_dirty, storing>>

\* ... then draw_cursor(mouse_get_x(), mouse_get_y()), read in either order.
ReadX ==
    /\ pc \in {"cursor", "haveY"}
    /\ shownX' = mouse_x
    /\ pc' = IF pc = "cursor" THEN "haveX" ELSE "drawn"
    /\ UNCHANGED <<mouseVars, polled, need_redraw, prev_buttons, quit_requested, shownY, windowVars>>

ReadY ==
    /\ pc \in {"cursor", "haveX"}
    /\ shownY' = mouse_y
    /\ pc' = IF pc = "cursor" THEN "haveY" ELSE "drawn"
    /\ UNCHANGED <<mouseVars, polled, need_redraw, prev_buttons, quit_requested, shownX, windowVars>>

\* The next frame, or the end: every window is closed, and the screen is text again.
NextFrame ==
    /\ pc = "drawn"
    /\ need_redraw' = FALSE
    /\ \/ /\ quit_requested
          /\ pc' = "off" /\ shownX' = Width \div 2 /\ shownY' = Height \div 2
          /\ window' = NoWindows.window /\ stale' = NoWindows.stale
          /\ vga_redirect_dirty' = NoWindows.dirty /\ storing' = NoWindows.storing
       \/ ~quit_requested /\ pc' = "poll" /\ UNCHANGED <<shownX, shownY, windowVars>>
    /\ UNCHANGED <<mouseVars, polled, prev_buttons, quit_requested>>

----------------------------------------------------------------------------
MouseInterrupt == Interrupt /\ UNCHANGED <<compositor, windowVars>>

Draw == DrawWindows \/ ReadX \/ ReadY \/ NextFrame
DesktopStep == MouseInitStep \/ EnterLoop \/ ClearMouse \/ ClearWindow \/ Draw

CNext ==
    \/ MouseInterrupt
    \/ DesktopStarts \/ DesktopStep \/ FrameEnds \/ PollKeyboard \/ PollMouse
    \/ \E w \in Windows : PollWindow(w) \/ TaskStarts(w) \/ StoreCharacter(w) \/ MarkDirty(w)

CSpec == CInit /\ [][CNext]_vars

\* The compositor is a task that is always ready.  A frame's time ends, whatever
\* the polling finds; and it polls many times in the ticks of a frame, so that it
\* does not miss a flag in every one.  These are weak fairness of DesktopStep and
\* strong fairness of FrameEnds, PollMouse and, while the mouse is quiet, of
\* PollWindow(w), with what enables each of them, and what only it does, spelled
\* out: they are long to evaluate.
CompositorMoves == pc' # pc \/ initPc' # initPc
FairSpec ==
    /\ CSpec
    /\ []<>(pc \in {"off", "poll"}) \/ []<><<CompositorMoves>>_vars
    /\ <>[](pc # "poll") \/ []<><<pc = "poll" /\ pc' \in {"windows", "drawn"}>>_vars
    /\ <>[]~(pc = "poll" /\ mouse_dirty = 1) \/ []<><<pc = "poll" /\ pc' = "clearMouse">>_vars
    /\ \A w \in Windows :
          <>[]~(pc = "poll" /\ mouse_dirty = 0 /\ window[w] # "closed" /\ vga_redirect_dirty[w] = 1)
          \/ []<><<pc = "poll" /\ polled' = w>>_vars

----------------------------------------------------------------------------
(* Properties                                                              *)

CTypeOK ==
    /\ TypeOK
    /\ pc \in {"off", "init", "poll", "clearMouse", "clearWindow", "windows", "cursor", "haveX",
               "haveY", "drawn"}
    /\ polled \in Windows \cup {NoWindow}
    /\ need_redraw \in BOOLEAN /\ prev_buttons \in 0..7 /\ quit_requested \in BOOLEAN
    /\ shownX \in 0..(Width - 1) /\ shownY \in 0..(Height - 1)
    /\ window \in [Windows -> {"closed", "new", "open"}]
    /\ stale \in [Windows -> BOOLEAN] /\ storing \in [Windows -> BOOLEAN]
    /\ vga_redirect_dirty \in [Windows -> {0, 1}]

WillDraw == need_redraw \/ pc \in {"init", "windows"}

\* Whenever the cursor on the screen is not where the mouse is, something that
\* the compositor will still look at says so: no interrupt falls between the
\* test and the clearing of mouse_dirty, or between the two coordinates of
\* draw_cursor, such that its movement is shown only with the next one.
CursorIsNeverForgotten ==
    /\ pc \in {"poll", "clearMouse", "clearWindow", "drawn"} /\ <<shownX, shownY>> # <<mouse_x, mouse_y>>
          => mouse_dirty = 1 \/ WillDraw
    /\ pc \in {"haveX", "drawn"} /\ shownX # mouse_x => mouse_dirty = 1
    /\ pc \in {"haveY", "drawn"} /\ shownY # mouse_y => mouse_dirty = 1

\* The same of the text of every open window: a character that a task stored
\* while the compositor was clearing the flag or drawing is drawn later.
TextIsNeverForgotten ==
    \A w \in Windows : window[w] = "open" /\ stale[w] =>
        vga_redirect_dirty[w] = 1 \/ storing[w] \/ WillDraw

\* No mouse interrupt and no character printed at the wrong moment goes unseen.
NothingIsForgotten == CTypeOK /\ CursorIsNeverForgotten /\ TextIsNeverForgotten

\* And what says so is seen: a raised flag leads to a redraw that starts after
\* it, however busy the keyboard, the mouse and the other windows are.
FlagRaised == mouse_dirty = 1 \/ \E w \in Windows : window[w] # "closed" /\ vga_redirect_dirty[w] = 1

ScreenCatchesUp == FlagRaised ~> pc \in {"windows", "off", "init"}
=============================================================================
