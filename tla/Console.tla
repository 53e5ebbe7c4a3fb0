------------------------------ MODULE Console ------------------------------
(***************************************************************************)
(* The console (kernel/vga.c, and the redirect accessors of task.c): a     *)
(* character goes to the buffer of the window that hosts the task, or to   *)
(* the real screen.  The real screen is the VGA text memory until graphics *)
(* mode has been engaged, and from then on a larger buffer that is drawn   *)
(* into the framebuffer.                                                   *)
(*                                                                         *)
(* A grid maps positions <<row, column>>, from zero, to characters; colours *)
(* and the copy that goes to the serial port are left out.                 *)
(***************************************************************************)
EXTENDS Integers, Sequences

CONSTANTS
    Rows, Cols,         \* VGA_HEIGHT, VGA_WIDTH
    FbRows, FbCols,     \* REAL_FB_ROWS, REAL_FB_COLS
    WinRows, WinCols    \* TERM_ROWS, TERM_COLS

\* The text screen fits into the framebuffer's; vga_put_at relies on it.
ASSUME ConsoleAssumption ==
    /\ {Rows, Cols, WinRows, WinCols} \subseteq Nat \ {0}
    /\ FbRows \in Nat /\ FbCols \in Nat /\ FbRows >= Rows /\ FbCols >= Cols

VARIABLES
    gui,       \* gui_is_active()
    real,      \* the real screen: what it shows, real_screen_buf, the cursor,
               \* real_screen_initialized, whether graphics mode was engaged before a
               \* character put in text mode was scrolled, and (history) whether a
               \* program has drawn since the console last drew the whole screen
    window,    \* the window's term_buffers entry and the cursor of its task
    overran    \* history: "screen" or "window", where a character was stored past the end

consoleVars == <<gui, real, window, overran>>

NL == "newline"
BS == "backspace"

Blank(rows, cols) == [at \in (0..(rows - 1)) \X (0..(cols - 1)) |-> " "]

Height == IF gui THEN FbRows ELSE Rows
Width == IF gui THEN FbCols ELSE Cols

ConsoleInit ==
    /\ gui = FALSE
    /\ real = [screen |-> Blank(Rows, Cols), buffer |-> Blank(FbRows, FbCols), cursor |-> <<0, 0>>,
               initialized |-> FALSE, switched |-> FALSE, painted |-> FALSE]
    /\ window = [grid |-> Blank(WinRows, WinCols), cursor |-> <<0, 0>>]
    /\ overran = {}

----------------------------------------------------------------------------
(* The three forms of putc, on a grid and a cursor                         *)

Forward(at, cols) == IF at[2] + 1 >= cols THEN <<at[1] + 1, 0>> ELSE <<at[1], at[2] + 1>>

\* Mutant of Back: it does not go back to the row above.
BackInRow(at, cols) == IF at[2] > 0 THEN <<at[1], at[2] - 1>> ELSE at

Back(at, cols) ==
    CASE at[2] > 0 -> <<at[1], at[2] - 1>>
      [] at[2] = 0 /\ at[1] > 0 -> <<at[1] - 1, cols - 1>>
      [] at[2] = 0 /\ at[1] = 0 -> at

Moved(at, ch, cols) ==
    CASE ch = NL -> <<at[1] + 1, 0>> [] ch = BS -> Back(at, cols) [] OTHER -> Forward(at, cols)

\* The cells that are stored to, and what.
Touched(at, ch, cols) == CASE ch = NL -> {} [] ch = BS -> {Back(at, cols)} [] OTHER -> {at}
Glyph(ch) == IF ch = BS THEN " " ELSE ch

Stored(grid, at, ch, cols) ==
    [p \in DOMAIN grid |-> IF p \in Touched(at, ch, cols) THEN Glyph(ch) ELSE grid[p]]

\* Mutant of BelowEnd: one row late.
BelowEndLate(row, rows) == row > rows

BelowEnd(row, rows) == row >= rows

Scrolled(grid, rows) ==
    [p \in DOMAIN grid |-> IF p[1] < rows - 1 THEN grid[<<p[1] + 1, p[2]>>] ELSE " "]

----------------------------------------------------------------------------
(* The real screen                                                         *)

\* Everything but the scrolling.
Place(r, ch) ==
    LET inited == IF gui /\ ~r.initialized
                  THEN [r EXCEPT !.buffer = Blank(FbRows, FbCols), !.screen = Blank(FbRows, FbCols),
                                 !.initialized = TRUE, !.painted = FALSE]
                  ELSE r
    IN [inited EXCEPT !.screen = Stored(@, r.cursor, ch, Width),
                      !.buffer = IF gui THEN Stored(@, r.cursor, ch, Width) ELSE @,
                      !.cursor = Moved(@, ch, Width)]

\* vga_scroll, and the last part of real_putc_framebuffer, which draws the whole
\* buffer again.
Scroll(r) ==
    IF ~BelowEnd(r.cursor[1], Height) THEN r
    ELSE LET scrolled == Scrolled(IF gui THEN r.buffer ELSE r.screen, Height)
         IN [r EXCEPT !.screen = scrolled, !.buffer = IF gui THEN scrolled ELSE @,
                      !.cursor = <<Height - 1, @[2]>>, !.painted = @ /\ ~gui]

\* vga_scroll when graphics mode has begun since the character was put: the text
\* memory is not seen any more, but the cursor is the one of both.
TextScroll(r) ==
    [r EXCEPT !.cursor = IF BelowEnd(@[1], Rows) THEN <<Rows - 1, @[2]>> ELSE @, !.switched = FALSE]

\* vga_clear of a task that has no window.
RealCleared(r, graphics) ==
    IF graphics THEN [screen |-> Blank(FbRows, FbCols), buffer |-> Blank(FbRows, FbCols),
                      cursor |-> <<0, 0>>, initialized |-> TRUE, switched |-> FALSE, painted |-> FALSE]
    ELSE [r EXCEPT !.screen = Blank(Rows, Cols), !.cursor = <<0, 0>>]

\* vga_put_at, for all cells of a picture: straight to the real screen, whatever
\* the task's window, and past the buffer.
PutAt(r, picture) ==
    LET cells == {p \in DOMAIN picture : p[1] \in 0..(Rows - 1) /\ p[2] \in 0..(Cols - 1)}
    IN [r EXCEPT !.screen = [p \in DOMAIN @ |-> IF p \in cells THEN picture[p] ELSE @[p]]]

\* The glyphs of a program that has mapped the framebuffer (SYS_MAP_FB).
Painted(r, area) ==
    [r EXCEPT !.screen = [p \in (0..(FbRows - 1)) \X (0..(FbCols - 1)) |->
                             CASE p \in area -> "program"
                               [] p \notin area /\ gui -> @[p]
                               [] p \notin area /\ ~gui -> "black"],
              !.painted = TRUE]

PastScreen(r, ch) == ~(Touched(r.cursor, ch, Width) \subseteq (0..(Height - 1)) \X (0..(Width - 1)))

----------------------------------------------------------------------------
(* The window                                                              *)

redirect_putc(w, ch) ==
    LET placed == [grid |-> Stored(w.grid, w.cursor, ch, WinCols), cursor |-> Moved(w.cursor, ch, WinCols)]
    IN IF BelowEnd(placed.cursor[1], WinRows)
       THEN [grid |-> Scrolled(placed.grid, WinRows), cursor |-> <<WinRows - 1, placed.cursor[2]>>]
       ELSE placed

\* task_set_vga_redirect and vga_clear.
WindowCleared == [grid |-> Blank(WinRows, WinCols), cursor |-> <<0, 0>>]

PastWindow(w, ch) == ~(Touched(w.cursor, ch, WinCols) \subseteq DOMAIN w.grid)
=============================================================================
