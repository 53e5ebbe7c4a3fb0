------------------------------ MODULE Terminal ------------------------------
(***************************************************************************)
(* A shell (kernel/shell.c: shell_run, read_line, dispatch) on a console,  *)
(* with the commands that use the screen: those that print, clear, snake,  *)
(* and desktop, which engages graphics mode for good and opens a terminal  *)
(* window with a shell of its own.  One of the two shells runs at a time;  *)
(* the other one is inside desktop_run.                                    *)
(*                                                                         *)
(* A user program, which a shell runs or which was left behind, writes to  *)
(* the real screen with SYS_WRITE, or engages graphics mode with           *)
(* SYS_MAP_FB and draws on the screen itself.  The gate of a system call   *)
(* disables interrupts: it falls between two steps of the shell and is not *)
(* interrupted itself.  What a command of the shell clears or draws at     *)
(* once is one step.                                                       *)
(*                                                                         *)
(* Bound: MaxCalls lines and system calls, together.                       *)
(***************************************************************************)
EXTENDS Console, Snake

CONSTANTS
    Characters,   \* those that can be printed
    Letters,      \* those that may be typed
    LineMax,      \* LINE_MAX - 1
    Prompt, Banner, Controls, Goodbye,   \* texts: sequences of characters
    Outputs,      \* texts a command may print
    Areas,        \* sets of cells that a program may draw on
    MaxCalls

Texts == Seq(Characters)
Printable(text) == \A i \in 1..Len(text) : text[i] \notin {NL, BS}

\* A line and its prompt fit into a window that has scrolled, and the game onto
\* the text screen, below the score and above its one row of help.
ASSUME TerminalAssumption ==
    /\ {Prompt, Banner, Controls, Goodbye} \cup Outputs \subseteq Texts
    /\ Printable(Prompt) /\ Printable(Controls) /\ Letters \subseteq Characters \ {NL, BS}
    /\ {NL, BS} \subseteq Characters
    /\ {LineMax, MaxCalls} \subseteq Nat
    /\ Len(Prompt) + LineMax <= (WinRows - 1) * WinCols
    /\ Len(Prompt) + LineMax <= (Rows - 1) * Cols
    /\ 2 <= Top /\ Bottom + 2 < Rows /\ 1 <= Left /\ Right + 1 < Cols /\ Len(Controls) < Cols

VARIABLES
    hosted,     \* the shell that runs is the one in the window
    mode,       \* "print", "read", "dispatch", "play", or "over"
    out, then,  \* what is still to be printed, and the mode after that
    pending,    \* a character has been put, and the screen not yet scrolled
    line,       \* buf of read_line
    game,
    calls,      \* the bound: how many are left
    disturbed   \* history: another program has written or drawn since the screen was cleared

sessionVars == <<hosted, mode, out, then, pending, line, game, calls, disturbed>>
terminalVars == <<consoleVars, sessionVars>>

TerminalInit ==
    /\ ConsoleInit
    /\ hosted = FALSE /\ mode = "print" /\ out = Banner \o Prompt /\ then = "read"
    /\ pending = FALSE /\ line = <<>> /\ game = NoGame
    /\ calls = MaxCalls /\ disturbed = FALSE

\* vga_write(text), and then go on.
vga_write(text, next) == mode' = "print" /\ out' = text /\ then' = next

\* The top of the shell's loop.
PromptAfter(text) == vga_write(text \o Prompt, "read") /\ line' = <<>>

vga_clear ==
    IF hosted THEN window' = WindowCleared /\ UNCHANGED <<real, disturbed>>
    ELSE real' = RealCleared(real, gui) /\ disturbed' = FALSE /\ UNCHANGED window

----------------------------------------------------------------------------
(* vga_putc                                                                *)

PutChar ==
    /\ mode = "print" /\ out # <<>> /\ ~pending
    /\ LET ch == Head(out)
       IN IF hosted
          THEN /\ window' = redirect_putc(window, ch)
               /\ overran' = overran \cup {x \in {"window"} : PastWindow(window, ch)}
               /\ UNCHANGED <<real, pending>>
          ELSE /\ real' = Place(real, ch)
               /\ overran' = overran \cup {x \in {"screen"} : PastScreen(real, ch)}
               /\ pending' = BelowEnd(real'.cursor[1], Height)
               /\ UNCHANGED window
    /\ out' = Tail(out)
    /\ UNCHANGED <<gui, hosted, mode, then, line, game, calls, disturbed>>

FinishPut ==
    /\ pending
    /\ real' = (IF real.switched THEN TextScroll(real) ELSE Scroll(real)) /\ pending' = FALSE
    /\ UNCHANGED <<gui, window, overran, hosted, mode, out, then, line, game, calls, disturbed>>

PrintEnds ==
    /\ mode = "print" /\ out = <<>> /\ ~pending
    /\ mode' = then
    /\ UNCHANGED <<consoleVars, hosted, out, then, pending, line, game, calls, disturbed>>

\* SYS_WRITE of one character by a program that has no window.
OtherWrites(ch) ==
    /\ calls > 0
    /\ real' = Scroll(Place(real, ch))
    /\ overran' = overran \cup {x \in {"screen"} : PastScreen(real, ch)}
    /\ calls' = calls - 1 /\ disturbed' = TRUE
    /\ UNCHANGED <<gui, window, hosted, mode, out, then, pending, line, game>>

\* SYS_MAP_FB, and what the program draws on the framebuffer then: nothing of it
\* goes through the console.
ProgramDraws(area) ==
    /\ calls > 0
    /\ gui' = TRUE
    /\ real' = [Painted(real, area) EXCEPT !.switched = @ \/ (pending /\ ~gui)]
    /\ calls' = calls - 1 /\ disturbed' = TRUE
    /\ UNCHANGED <<window, overran, hosted, mode, out, then, pending, line, game>>

----------------------------------------------------------------------------
(* read_line and dispatch                                                  *)

TypeLetter(ch) ==
    /\ mode = "read" /\ Len(line) < LineMax
    /\ line' = Append(line, ch) /\ vga_write(<<ch>>, "read")
    /\ UNCHANGED <<consoleVars, hosted, pending, game, calls, disturbed>>

TypeBackspace ==
    /\ mode = "read" /\ line # <<>>
    /\ line' = SubSeq(line, 1, Len(line) - 1) /\ vga_write(<<BS>>, "read")
    /\ UNCHANGED <<consoleVars, hosted, pending, game, calls, disturbed>>

TypeEnter ==
    /\ mode = "read" /\ calls > 0
    /\ vga_write(<<NL>>, "dispatch") /\ calls' = calls - 1
    /\ UNCHANGED <<consoleVars, hosted, pending, line, game, disturbed>>

NoCommand ==
    /\ mode = "dispatch" /\ line = <<>>
    /\ PromptAfter(<<>>)
    /\ UNCHANGED <<consoleVars, hosted, pending, game, calls, disturbed>>

Command == mode = "dispatch" /\ line # <<>> /\ UNCHANGED calls

\* A command that only prints.
CmdPrints(text) ==
    /\ Command
    /\ PromptAfter(text)
    /\ UNCHANGED <<consoleVars, hosted, pending, game, disturbed>>

CmdClear ==
    /\ Command
    /\ vga_clear /\ PromptAfter(<<>>)
    /\ UNCHANGED <<gui, overran, hosted, pending, game>>

\* desktop: gui_init, and a terminal window.  The compositor paints the screen.
CmdDesktop ==
    /\ Command /\ ~hosted
    /\ gui' = TRUE /\ hosted' = TRUE
    /\ real' = [real EXCEPT !.screen = [p \in DOMAIN real.buffer |-> "desktop"]]
    /\ window' = WindowCleared /\ PromptAfter(Banner)
    /\ UNCHANGED <<overran, pending, game, disturbed>>

\* gui_init finds no display.
CmdDesktopFails ==
    /\ Command /\ ~hosted /\ ~gui
    /\ PromptAfter(<<>>)
    /\ UNCHANGED <<consoleVars, hosted, pending, game, disturbed>>

\* The desktop is left: the window's shell is terminated wherever it is, and the
\* console's goes on.  What its buffer held is not seen again: the next terminal
\* clears it.
DesktopEnds ==
    /\ hosted
    /\ hosted' = FALSE
    /\ real' = RealCleared([real EXCEPT !.screen = [p \in DOMAIN @ |-> "black"]], gui)
    /\ disturbed' = FALSE
    /\ PromptAfter(Goodbye) /\ game' = NoGame
    /\ window' = WindowCleared
    /\ UNCHANGED <<gui, overran, pending, calls>>

----------------------------------------------------------------------------
(* snake_run                                                               *)

vga_set_cursor_pos(r, w, at) ==
    IF hosted THEN real' = r /\ window' = [w EXCEPT !.cursor = at]
    ELSE real' = [r EXCEPT !.cursor = at] /\ window' = w

LastRow == <<Rows - 1, 0>>

CmdSnake ==
    /\ Command
    /\ \E food \in FreeCells(NewGame.body) :
          LET g == [NewGame EXCEPT !.food = food]
              cleared == IF hosted THEN real ELSE RealCleared(real, gui)
          IN /\ game' = g
             /\ vga_set_cursor_pos(PutAt(cleared, FirstPicture(g)),
                                   IF hosted THEN WindowCleared ELSE window, LastRow)
    /\ disturbed' = (hosted /\ disturbed)
    /\ vga_write(Controls, "play") /\ line' = <<>>
    /\ UNCHANGED <<gui, overran, hosted, pending>>

Turn(d) ==
    /\ mode = "play"
    /\ game' = Turned(game, d)
    /\ UNCHANGED <<consoleVars, hosted, mode, out, then, pending, line, calls, disturbed>>

Quit ==
    /\ mode = "play"
    /\ game' = [game EXCEPT !.quit = TRUE]
    /\ UNCHANGED <<consoleVars, hosted, mode, out, then, pending, line, calls, disturbed>>

\* The time for a step has come, and the game goes on.
Move ==
    /\ mode = "play" /\ ~game.quit /\ ~Dies(game)
    /\ \E food \in IF Eats(game) THEN FreeCells(<<new_head(game)>> \o game.body) ELSE {game.food} :
          /\ game' = Stepped(game, food)
          /\ real' = PutAt(real, StepPicture(game, game'))
    /\ UNCHANGED <<gui, window, overran, hosted, mode, out, then, pending, line, calls, disturbed>>

\* It does not.
GameOver ==
    /\ mode = "play" /\ (game.quit \/ Dies(game))
    /\ vga_set_cursor_pos(PutAt(real, draw_score(FALSE)), window, LastRow)
    /\ mode' = "over"
    /\ UNCHANGED <<gui, overran, hosted, out, then, pending, line, game, calls, disturbed>>

\* Any key returns to the shell.
LeaveGame ==
    /\ mode = "over"
    /\ vga_clear /\ PromptAfter(<<>>) /\ game' = NoGame
    /\ UNCHANGED <<gui, overran, hosted, pending, calls>>

----------------------------------------------------------------------------

TerminalNext ==
    \/ PutChar \/ FinishPut \/ PrintEnds
    \/ \E ch \in {"x", NL, BS} : OtherWrites(ch)
    \/ \E area \in Areas : ProgramDraws(area)
    \/ \E ch \in Letters : TypeLetter(ch)
    \/ TypeBackspace \/ TypeEnter \/ NoCommand
    \/ \E text \in Outputs : CmdPrints(text)
    \/ CmdClear \/ CmdDesktop \/ CmdDesktopFails \/ DesktopEnds
    \/ CmdSnake \/ (\E d \in Dirs : Turn(d)) \/ Quit \/ Move \/ GameOver \/ LeaveGame

TerminalSpec == TerminalInit /\ [][TerminalNext]_terminalVars

----------------------------------------------------------------------------
(* Properties                                                              *)

\* Cursors are inside their grids, but for the moment before the screen is
\* scrolled, and for the one snake puts below a window's last row.
TerminalTypeOK ==
    /\ gui \in BOOLEAN /\ hosted \in BOOLEAN /\ pending \in BOOLEAN /\ disturbed \in BOOLEAN
    /\ real.cursor \in (0..(Height + (IF pending THEN 1 ELSE 0) - 1)) \X (0..(Width - 1))
    /\ window.cursor \in (0..(WinRows - 1)) \X (0..(WinCols - 1)) \/ (window.cursor = LastRow /\ game # NoGame)
    /\ DOMAIN real.screen = (0..(Height - 1)) \X (0..(Width - 1))
    /\ mode \in {"print", "read", "dispatch", "play", "over"}
    /\ Len(line) <= LineMax

\* Where the shell prints, and the number of a cell when its rows are one.
ShellGrid == IF hosted THEN window.grid ELSE real.screen
ShellCols == IF hosted THEN WinCols ELSE Width
Index(p, cols) == p[1] * cols + p[2]
ShellAt == Index(IF hosted THEN window.cursor ELSE real.cursor, ShellCols)

\* While a line is read, the screen shows it: in front of the cursor are the
\* prompt and the characters that the command will get, and nothing is left of
\* those that were taken back, also where the line has wrapped, or has scrolled
\* the screen.
EchoMatchesLine ==
    mode = "read" /\ (hosted \/ ~disturbed) =>
        LET shown == Prompt \o line
            start == ShellAt - Len(shown)
        IN /\ start >= 0
           /\ \A p \in DOMAIN ShellGrid :
                 LET i == Index(p, ShellCols) - start + 1
                 IN /\ i \in 1..Len(shown) => ShellGrid[p] = shown[i]
                    /\ i > Len(shown) => ShellGrid[p] = " "

\* In graphics mode, the console on the framebuffer is its buffer's picture,
\* whichever task wrote to it, but where a program has drawn on the framebuffer
\* since the console last drew all of it: the console draws the cells it writes to
\* over the program's picture, and a clear or a scroll draws over the rest.  Until
\* the console first writes in graphics mode, the screen is the program's.  (A game
\* draws past the buffer.)
ScreenShowsBuffer ==
    gui /\ real.initialized /\ ~hosted /\ game = NoGame =>
        \A p \in DOMAIN real.buffer :
            \/ real.screen[p] = real.buffer[p]
            \/ real.painted /\ real.screen[p] = "program"

\* What is on the screen is what was written and typed, on all three targets.
ScreenIsFaithful == TerminalTypeOK /\ EchoMatchesLine /\ ScreenShowsBuffer

\* No character is stored past the end of the screen or the window, but by
\* another program while the shell has not yet scrolled, or by the shell of a
\* window in which snake has put the cursor on the last row of the real screen.
WritesStayInside ==
    [][overran' # overran => (pending /\ calls' < calls) \/ (hosted /\ game # NoGame)]_terminalVars

\* Keys pressed between two steps, however many, never turn the snake into its
\* own neck.
NeverTurnsBack == mode = "play" => new_head(game) # game.body[2]

Adjacent(p, q) == \E d \in Dirs : Neighbour(p, d) = q

\* The snake is a path in the field that does not cross itself, and what it has
\* not yet eaten lies beside it; only one that can grow no more keeps its food.
SnakeIsAPath ==
    game # NoGame =>
        /\ Len(game.body) \in 3..MaxLen /\ Range(game.body) \subseteq Field
        /\ \A i \in 1..(Len(game.body) - 1) : Adjacent(game.body[i], game.body[i + 1])
        /\ \A i, j \in DOMAIN game.body : game.body[i] = game.body[j] => i = j
        /\ game.food \in Field
        /\ game.food \in Range(game.body) => Len(game.body) = MaxLen

\* The snake stays one that the rules allow, whatever keys are pressed when.
SnakeIsSound == NeverTurnsBack /\ SnakeIsAPath

\* The steps draw only what changes, and the field on the screen is still the
\* game's: on the text screen and in graphics mode, until another program
\* writes or draws.  The food that a snake of full length has run over is not seen again.
GameIsDrawn ==
    mode = "play" /\ ~hosted /\ ~disturbed =>
        /\ \A p \in Range(game.body) : real.screen[p] = Snake(game.body)[p]
        /\ \A p \in FreeCells(game.body) \ {game.food} : real.screen[p] = " "
        /\ game.food \notin Range(game.body) =>
              real.screen[game.food] = "*" \/ (Len(game.body) = MaxLen /\ real.screen[game.food] = " ")
        /\ \A p \in Border : real.screen[p] = "#"
=============================================================================
