------------------------------- MODULE Kronk -------------------------------
(***************************************************************************)
(* The KRONK interpreter (kernel/kronk.c, kronk_run): load a program from  *)
(* a file, run it.  Each terminal has a shell that can run one, in a task  *)
(* of its own, but the program, the variables and the error are static:    *)
(* there is one of each.                                                   *)
(*                                                                         *)
(* Storing a line and testing for room are separate steps; a statement is  *)
(* one step, and what it does by itself is the parameter Effect: KronkLang *)
(* has the statements and expressions of the language, and compares what   *)
(* runs do with a reference interpreter.  What two runs at a time make of  *)
(* each other's variables is anything.                                     *)
(***************************************************************************)
EXTENDS Integers, Sequences, FiniteSets

CONSTANTS
    IntRange,     \* an int is one of -IntRange..(IntRange - 1): 2^31
    Vars,         \* names of variables: A to Z
    Effect(_, _), \* what exec_line does for a line, with the variables it finds
    Terminals,
    Disk,         \* the texts of the files, by name: sequences of lines
    Files,        \* per terminal: the names it is given
    Inputs,       \* the numbers that may be typed at an INPUT
    MaxLines,     \* MAX_LINES
    MaxSteps      \* MAX_STEPS

MinInt == -IntRange
Ints == MinInt..(IntRange - 1)
Envs == [Vars -> Ints]

\* What the build's arithmetic makes of a result that does not fit.
Wrap(v) == ((v - MinInt) % (2 * IntRange)) + MinInt

\* A line: number (0: it has none), statement, its variable, its tokens, the
\* expressions among them, its relation, its target.
Line(number, kind) == [number |-> number, kind |-> kind, var |-> "", toks |-> <<>>,
                       exprs |-> <<>>, rel |-> "", target |-> 0]

Lines == UNION {{Disk[f][i] : i \in DOMAIN Disk[f]} : f \in DOMAIN Disk}

\* Where a statement goes on: the next line, nowhere, or the line with the number
\* that is its target.
Advance == -1
Stop == -2
Jumps == 0

\* What a statement does: to the variables, to the output, whether it sets
\* had_error, whether it divides in a way that the processor refuses.
Effects == [env : Envs, out : Seq(Ints), err : BOOLEAN, trap : BOOLEAN, next : {Advance, Stop, Jumps}]

\* exec_line stores and prints ints.
ASSUME KronkAssumption ==
    /\ IntRange \in Nat \ {0} /\ MaxLines \in Nat \ {0} /\ MaxSteps \in Nat /\ Inputs \subseteq Int
    /\ \A f \in DOMAIN Disk : Disk[f] \in Seq(Lines)
    /\ \A s \in Terminals : Files[s] \subseteq DOMAIN Disk
    /\ \A l \in Lines :
          /\ l.number \in Nat
          /\ IF l.kind = "input" THEN l.var \in Vars ELSE \A env \in Envs : Effect(l, env) \in Effects

VARIABLES
    program,   \* program[0..program_count - 1], as places <<file, line>> on the disk:
               \* what is behind is never looked at
    variables, had_error, error_line,
    stage,     \* per terminal: "idle", "load", "store", "exec" or "input"
    run,       \* per terminal: the locals of its last kronk_run, and what is known of it
    halted     \* a processor exception in the kernel: nothing runs any more

program_count == Len(program)

statics == <<program, variables, had_error, error_line>>
kronkVars == <<statics, stage, run, halted>>

\* How a run ended, and the line that it named.
Ended(what, line) == [what |-> what, line |-> line]

\* file: the name; cursor: the line of it that is next; at, steps: pc and steps
\* of kronk_run; asking: the place of the INPUT it waits in; printed, typed: the
\* values, while no other run has come between; mixed: one has.
NoRun == [file |-> 0, cursor |-> 1, at |-> 1, steps |-> 0, asking |-> <<>>,
          printed |-> <<>>, typed |-> <<>>, mixed |-> FALSE, report |-> Ended("none", 0)]

Text(s) == Disk[run[s].file]
At(place) == Disk[place[1]][place[2]]

KronkInit ==
    /\ program = <<>> /\ variables = [x \in Vars |-> 0]
    /\ had_error = FALSE /\ error_line = 0
    /\ stage = [s \in Terminals |-> "idle"]
    /\ run = [s \in Terminals |-> NoRun]
    /\ halted = FALSE

Goto(s, l) == stage' = [stage EXCEPT ![s] = l]
Becomes(s, r) == run' = [run EXCEPT ![s] = r]
Ends(s, r, what, line) == Goto(s, "idle") /\ Becomes(s, [r EXCEPT !.report = Ended(what, line)])

----------------------------------------------------------------------------
(* kronk_run: loading                                                      *)

\* The file is not found, or cannot be read.
OpenFails(s) ==
    /\ stage[s] = "idle" /\ ~halted
    /\ \E what \in {"not found", "read failed"} : Ends(s, run[s], what, 0)
    /\ UNCHANGED <<statics, halted>>

Mix(r) == [r EXCEPT !.mixed = TRUE, !.printed = <<>>, !.typed = <<>>]
Record(r, printed, typed) ==
    IF r.mixed THEN r ELSE [r EXCEPT !.printed = @ \o printed, !.typed = @ \o typed]

\* It is in memory, and the statics are reset, whoever is using them.  Nothing
\* is kept of the runs that have ended.
Open(s) ==
    /\ stage[s] = "idle" /\ ~halted
    /\ program' = <<>> /\ variables' = [x \in Vars |-> 0]
    /\ had_error' = FALSE /\ error_line' = 0
    /\ Goto(s, "load")
    /\ LET busy == {u \in Terminals \ {s} : stage[u] # "idle"}
       IN \E f \in Files[s] :
             run' = [u \in Terminals |-> CASE u = s -> [NoRun EXCEPT !.file = f, !.mixed = busy # {}]
                                        [] u \in busy -> Mix(run[u])
                                        [] OTHER -> NoRun]
    /\ UNCHANGED halted

\* Mutant of HasRoom: off by one.
HasRoomForOneMore(lines) == lines <= MaxLines

HasRoom(lines) == lines < MaxLines

SkipLine(r) == [r EXCEPT !.cursor = @ + 1]

\* The loop's test, and the lines that have no number.
LoadNext(s) ==
    /\ stage[s] = "load" /\ ~halted
    /\ run[s].cursor <= Len(Text(s)) /\ HasRoom(program_count)
    /\ IF Text(s)[run[s].cursor].number = 0
       THEN Becomes(s, SkipLine(run[s])) /\ UNCHANGED stage
       ELSE Goto(s, "store") /\ UNCHANGED run
    /\ UNCHANGED <<statics, halted>>

\* program[program_count], as it is now.
StoreLine(s) ==
    /\ stage[s] = "store" /\ ~halted
    /\ program' = Append(program, <<run[s].file, run[s].cursor>>)
    /\ Becomes(s, SkipLine(run[s])) /\ Goto(s, "load")
    /\ UNCHANGED <<variables, had_error, error_line, halted>>

LoadEnds(s) ==
    /\ stage[s] = "load" /\ ~halted
    /\ run[s].cursor > Len(Text(s)) \/ ~HasRoom(program_count)
    /\ IF program_count = 0 THEN Ends(s, run[s], "no lines", 0) ELSE Goto(s, "exec") /\ UNCHANGED run
    /\ UNCHANGED <<statics, halted>>

----------------------------------------------------------------------------
(* kronk_run: running                                                      *)

\* Mutant of CountStep: a jump starts to count anew.
CountStraight(n, next) == IF next = Advance THEN n + 1 ELSE 0

CountStep(n, next) == n + 1

\* The first line with the number.
find_line_index(number) ==
    LET found == {i \in 1..program_count : At(program[i]).number = number}
    IN IF found = {} THEN 0 ELSE CHOOSE i \in found : \A j \in found : i <= j

\* GOTO, and IF with a true condition, to a line that is not there.
Lost(l, e) == e.next = Jumps /\ find_line_index(l.target) = 0

\* What exec_line returns.
Returned(l, e) ==
    CASE Lost(l, e) -> Stop
      [] e.next = Jumps /\ ~Lost(l, e) -> find_line_index(l.target)
      [] OTHER -> e.next

\* The second half of the loop's body, after exec_line has returned; r is the
\* run by then.
AfterLine(s, r, number, next) ==
    CASE had_error' -> Ends(s, r, "error", IF error_line' # 0 THEN error_line' ELSE number)
      [] ~had_error' /\ next = Stop -> Ends(s, r, "finished", 0)
      [] OTHER ->
            LET on == [r EXCEPT !.at = IF next = Advance THEN @ + 1 ELSE next,
                                !.steps = CountStep(@, next)]
            IN IF on.steps > MaxSteps THEN Ends(s, on, "too many steps", 0)
               ELSE Goto(s, "exec") /\ Becomes(s, on)

\* What is left of the loop's body once the line has had its effect; a division
\* that the processor refuses stops everything.
Executed(s, l, e) ==
    \/ /\ e.trap
       /\ halted' = TRUE /\ Ends(s, run[s], "exception", 0)
       /\ UNCHANGED <<variables, had_error, error_line>>
    \/ /\ ~e.trap
       /\ variables' = e.env
       /\ had_error' = (had_error \/ e.err \/ Lost(l, e))
       /\ error_line' = IF Lost(l, e) THEN l.number ELSE error_line
       /\ AfterLine(s, Record(run[s], e.out, <<>>), l.number, Returned(l, e))
       /\ UNCHANGED halted

\* Any statement but INPUT.
ExecLine(s) ==
    /\ stage[s] = "exec" /\ ~halted
    /\ run[s].at <= program_count /\ At(program[run[s].at]).kind # "input"
    /\ LET l == At(program[run[s].at]) IN Executed(s, l, Effect(l, variables))
    /\ UNCHANGED program

\* INPUT prompts, and waits for the user.
AskInput(s) ==
    /\ stage[s] = "exec" /\ ~halted
    /\ run[s].at <= program_count /\ At(program[run[s].at]).kind = "input"
    /\ Goto(s, "input") /\ Becomes(s, [run[s] EXCEPT !.asking = program[run[s].at]])
    /\ UNCHANGED <<statics, halted>>

\* The variable and the line number were read before the wait.
GetInput(s) ==
    /\ stage[s] = "input" /\ ~halted
    /\ LET l == At(run[s].asking)
       IN \E v \in Inputs :
             /\ variables' = [variables EXCEPT ![l.var] = Wrap(v)]
             /\ UNCHANGED <<had_error, error_line>>
             /\ AfterLine(s, [Record(run[s], <<>>, <<v>>) EXCEPT !.asking = <<>>], l.number, Advance)
    /\ UNCHANGED <<program, halted>>

RunEnds(s) ==
    /\ stage[s] = "exec" /\ ~halted /\ run[s].at > program_count
    /\ Ends(s, run[s], "finished", 0)
    /\ UNCHANGED <<statics, halted>>

RunStep(s) == LoadNext(s) \/ StoreLine(s) \/ LoadEnds(s) \/ ExecLine(s) \/ AskInput(s) \/ RunEnds(s)

KronkNext == \E s \in Terminals : OpenFails(s) \/ Open(s) \/ RunStep(s) \/ GetInput(s)

KronkSpec == KronkInit /\ [][KronkNext]_kronkVars

\* A shell's task is scheduled again and again; the user need not type anything.
\* This is weak fairness of RunStep(s), with what enables it, and what only it
\* does, spelled out: RunStep(s) itself is long to evaluate.
Ready(s) == stage[s] \in {"load", "store", "exec"} /\ ~halted
Moves(s) == stage'[s] # stage[s] \/ Mix(run'[s]) # Mix(run[s])
KronkFairSpec == KronkSpec /\ \A s \in Terminals : []<>~Ready(s) \/ []<><<Moves(s)>>_kronkVars

----------------------------------------------------------------------------
(* Properties                                                              *)

KronkTypeOK ==
    /\ variables \in [Vars -> Ints] /\ had_error \in BOOLEAN /\ error_line \in Nat
    /\ stage \in [Terminals -> {"idle", "load", "store", "exec", "input"}]
    /\ \A s \in Terminals : LET r == run[s] IN
          /\ r.cursor \in Nat /\ r.at \in Nat /\ r.steps \in 0..(MaxSteps + 1)
          /\ r.printed \in Seq(Ints) /\ r.typed \in Seq(Inputs) /\ r.mixed \in BOOLEAN
    /\ halted \in BOOLEAN

\* A file of any length, and any number of runs after each other, stay inside
\* program[].  Only two loads at a time can pass its end: the room that one of
\* them has tested for is taken by the other.
LoadsStayInside == program_count <= MaxLines \/ \E s \in Terminals : run[s].mixed

\* The static tables are sound.
TablesAreSound == KronkTypeOK /\ LoadsStayInside

\* "guard against a runaway infinite loop" (kronk.c:327): a run ends, or waits
\* for the user in INPUT, or has halted the machine, even while another run
\* replaces the program under it.
RunsEnd == \A s \in Terminals : stage[s] # "idle" ~> (stage[s] \in {"idle", "input"} \/ halted)
=============================================================================
