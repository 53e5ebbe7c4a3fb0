----------------------------- MODULE KronkLang -----------------------------
(***************************************************************************)
(* The statements and expressions of the KRONK language as kernel/kronk.c  *)
(* (exec_line) executes them: a recursive descent that computes while it   *)
(* parses, on machine integers; and a reference interpreter, which does    *)
(* not parse.                                                              *)
(*                                                                         *)
(* A line is a sequence of tokens, [kind, val]; blanks and spelling are    *)
(* left out.  A parser takes the tokens at *p and the variables, and       *)
(* returns the value, the tokens that are left, whether had_error was set, *)
(* and whether a division raised the processor's exception.                *)
(***************************************************************************)
EXTENDS Kronk

\* C's division drops the fraction.
Quotient(a, b) ==
    LET mag(x) == IF x < 0 THEN -x ELSE x
        q == mag(a) \div mag(b)
    IN IF (a < 0) = (b < 0) THEN q ELSE -q

Tok(k) == [kind |-> k, val |-> 0]
Num(n) == [kind |-> "num", val |-> n]
Var(x) == [kind |-> "var", val |-> x]
Next(ts, k) == ts # <<>> /\ Head(ts).kind = k

Got(v, rest) == [v |-> v, rest |-> rest, err |-> FALSE, trap |-> FALSE]

\* The flags stay set once they are.
After(before, r) == [r EXCEPT !.err = @ \/ before.err, !.trap = @ \/ before.trap]

Close(e) == IF Next(e.rest, ")") THEN [e EXCEPT !.rest = Tail(@)] ELSE e

RECURSIVE parse_expr(_, _), parse_factor(_, _), term_loop(_, _), expr_loop(_, _)

\* A parenthesis that is never closed is accepted; what cannot start a factor is
\* left where it is.
parse_factor(ts, env) ==
    CASE Next(ts, "(") -> Close(parse_expr(Tail(ts), env))
      [] Next(ts, "-") -> [parse_factor(Tail(ts), env) EXCEPT !.v = Wrap(-@)]
      [] Next(ts, "num") -> Got(Wrap(Head(ts).val), Tail(ts))
      [] Next(ts, "var") -> Got(env[Head(ts).val], Tail(ts))
      [] OTHER -> [Got(0, ts) EXCEPT !.err = TRUE]

\* left = left * factor, left = left / factor, left = left +- term.
Times(l, f) == After(l, [f EXCEPT !.v = Wrap(l.v * @)])
Over(l, f) == After(l, [f EXCEPT !.v = Wrap(Quotient(l.v, @)),
                                 !.trap = @ \/ (l.v = MinInt /\ f.v = -1)])
Plus(l, t) == After(l, [t EXCEPT !.v = Wrap(l.v + @)])
Minus(l, t) == After(l, [t EXCEPT !.v = Wrap(l.v - @)])

\* A division by zero leaves parse_term at once.
Divide(l, f, env) ==
    IF f.v = 0 THEN After(l, [f EXCEPT !.v = 0, !.err = TRUE]) ELSE term_loop(Over(l, f), env)

\* The loop of parse_term, with l what has been parsed so far.
term_loop(l, env) ==
    CASE Next(l.rest, "*") -> term_loop(Times(l, parse_factor(Tail(l.rest), env)), env)
      [] Next(l.rest, "/") -> Divide(l, parse_factor(Tail(l.rest), env), env)
      [] OTHER -> l

parse_term(ts, env) == term_loop(parse_factor(ts, env), env)

\* Mutant of expr_loop: operators of the same rank group to the right.
expr_loop_right(l, env) ==
    CASE Next(l.rest, "+") -> Plus(l, parse_expr(Tail(l.rest), env))
      [] Next(l.rest, "-") -> Minus(l, parse_expr(Tail(l.rest), env))
      [] OTHER -> l

\* The loop of parse_expr.
expr_loop(l, env) ==
    CASE Next(l.rest, "+") -> expr_loop(Plus(l, parse_term(Tail(l.rest), env)), env)
      [] Next(l.rest, "-") -> expr_loop(Minus(l, parse_term(Tail(l.rest), env)), env)
      [] OTHER -> l

parse_expr(ts, env) == expr_loop(parse_term(ts, env), env)

Relops == {"<", "<=", ">", ">=", "=", "<>"}
Compare(op, a, b) ==
    CASE op = "<=" -> a <= b [] op = ">=" -> a >= b [] op = "<>" -> a # b
      [] op = "<" -> a < b [] op = ">" -> a > b [] op = "=" -> a = b

\* The value is 1 or 0; without an operator it is an error.
Related(l, r) == After(l, [r EXCEPT !.v = IF Compare(Head(l.rest).kind, l.v, @) THEN 1 ELSE 0])
RelateRest(l, env) ==
    IF l.rest = <<>> \/ Head(l.rest).kind \notin Relops THEN [l EXCEPT !.v = 0, !.err = TRUE]
    ELSE Related(l, parse_expr(Tail(l.rest), env))
parse_condition(ts, env) == RelateRest(parse_expr(ts, env), env)

----------------------------------------------------------------------------
(* exec_line, but for INPUT                                                *)

\* It starts from nothing done.
Nothing(env) == [env |-> env, out |-> <<>>, err |-> FALSE, trap |-> FALSE, next |-> Advance]
Evaluated(r, env) == [Nothing(env) EXCEPT !.err = r.err, !.trap = r.trap]

RECURSIVE print_items(_, _)

Printed(done, r) == [done EXCEPT !.err = @ \/ r.err, !.trap = @ \/ r.trap, !.out = Append(@, r.v)]
MoreItems(rest, done) == IF Next(rest, ",") THEN print_items(Tail(rest), done) ELSE done
AfterItem(r, done) == MoreItems(r.rest, Printed(done, r))

\* PRINT: strings and values, separated by commas.
print_items(ts, done) ==
    CASE ts = <<>> -> done
      [] Next(ts, "text") -> MoreItems(Tail(ts), done)
      [] OTHER -> AfterItem(parse_expr(ts, done.env), done)

\* LET, and IF, with r what their expressions gave.
Assign(x, r, env) == [Evaluated(r, env) EXCEPT !.env[x] = r.v]
Branch(r, env) ==
    CASE ~Next(r.rest, "then") -> [Evaluated(r, env) EXCEPT !.err = TRUE, !.next = Stop]
      [] Next(r.rest, "then") /\ r.v = 0 -> Evaluated(r, env)
      [] OTHER -> [Evaluated(r, env) EXCEPT !.next = Jumps]

exec_line(l, env) ==
    CASE l.kind = "rem" -> Nothing(env)
      [] l.kind = "end" -> [Nothing(env) EXCEPT !.next = Stop]
      [] l.kind = "let" -> Assign(l.var, parse_expr(l.toks, env), env)
      [] l.kind = "kronk" -> Nothing([x \in Vars |-> 0])
      [] l.kind = "print" -> print_items(l.toks, Nothing(env))
      [] l.kind = "goto" -> [Nothing(env) EXCEPT !.next = Jumps]
      [] l.kind = "if" -> Branch(parse_condition(l.toks, env), env)
      [] OTHER -> [Nothing(env) EXCEPT !.err = TRUE, !.next = Stop]

----------------------------------------------------------------------------
(* What an expression means, said without a parser: the last operator of   *)
(* the lowest rank outside parentheses is applied last.                    *)

\* The value, or "error" or "exception".
Value(v) == [is |-> "value", v |-> Wrap(v)]
Failure(what) == [is |-> what, v |-> 0]

Apply(op, a, b) ==
    CASE a.is # "value" -> a
      [] a.is = "value" /\ b.is # "value" -> b
      [] a.is = "value" /\ b.is = "value" ->
            CASE op = "+" -> Value(a.v + b.v)
              [] op = "-" -> Value(a.v - b.v)
              [] op = "*" -> Value(a.v * b.v)
              [] op = "/" /\ b.v = 0 -> Failure("error")
              [] op = "/" /\ a.v = MinInt /\ b.v = -1 -> Failure("exception")
              [] op = "/" /\ b.v # 0 /\ ~(a.v = MinInt /\ b.v = -1) -> Value(Quotient(a.v, b.v))

Meaning(ts, env) ==
    LET n == Len(ts)
        is(i, kinds) == ts[i].kind \in kinds
        depth[i \in 0..n] ==
            IF i = 0 THEN 0
            ELSE depth[i - 1] + (CASE is(i, {"("}) -> 1 [] is(i, {")"}) -> -1 [] OTHER -> 0)
        \* Operators between two operands of ts[i..j], outside its parentheses.
        infix(i, j, ops) == {k \in (i + 1)..(j - 1) :
            is(k, ops) /\ is(k - 1, {"num", "var", ")"}) /\ depth[k] = depth[i - 1]}
        of[i \in 1..(n + 1), j \in 0..n] ==
            LET sums == infix(i, j, {"+", "-"})
                split == IF sums # {} THEN sums ELSE infix(i, j, {"*", "/"})
                last == CHOOSE k \in split : \A m \in split : m <= k
            IN CASE i > j -> Failure("error")
                 [] split # {} -> Apply(ts[last].kind, of[i, last - 1], of[last + 1, j])
                 [] i <= j /\ split = {} /\ is(i, {"-"}) -> Apply("-", Value(0), of[i + 1, j])
                 [] i < j /\ split = {} /\ is(i, {"("}) /\ is(j, {")"}) -> of[i + 1, j - 1]
                 [] i = j /\ is(i, {"num"}) -> Value(ts[i].val)
                 [] i = j /\ is(i, {"var"}) -> Value(env[ts[i].val])
                 [] OTHER -> Failure("error")
    IN of[1, n]

----------------------------------------------------------------------------
(* The reference interpreter                                               *)

\* The program of a file: its numbered lines, as many as there is room for.
Loaded(f) ==
    LET numbered == SelectSeq(f, LAMBDA l : l.number # 0)
    IN SubSeq(numbered, 1, IF Len(numbered) < MaxLines THEN Len(numbered) ELSE MaxLines)

Outcome(what, line, out) == [what |-> what, line |-> line, out |-> out]

RECURSIVE Run(_, _)

\* What a program does from a state on: st is the line it is at, the variables,
\* the steps taken, the numbers still to be typed, the output.
Run(prog, st) ==
    IF st.at > Len(prog) THEN Outcome("finished", 0, st.out)
    ELSE LET l == prog[st.at]
             vals == [i \in DOMAIN l.exprs |-> Meaning(l.exprs[i], st.env)]
             bad == {i \in DOMAIN vals : vals[i].is # "value"}
             on(new) == IF st.steps = MaxSteps THEN Outcome("too many steps", 0, new.out)
                        ELSE Run(prog, [new EXCEPT !.steps = @ + 1])
             next == [st EXCEPT !.at = @ + 1]
             target == {i \in DOMAIN prog : prog[i].number = l.target}
             jump == IF target = {} THEN Outcome("error", l.number, st.out)
                     ELSE on([st EXCEPT !.at = CHOOSE i \in target : \A j \in target : i <= j])
         IN CASE \E i \in bad : \A j \in bad : i <= j /\ vals[i].is = "exception" ->
                    Outcome("exception", 0, st.out)
              [] bad # {} \/ l.kind = "bad" -> Outcome("error", l.number, st.out)
              [] l.kind = "rem" -> on(next)
              [] l.kind = "end" -> Outcome("finished", 0, st.out)
              [] l.kind = "let" -> on([next EXCEPT !.env[l.var] = vals[1].v])
              [] l.kind = "kronk" -> on([next EXCEPT !.env = [x \in Vars |-> 0]])
              [] l.kind = "input" -> on([next EXCEPT !.env[l.var] = Wrap(Head(st.typed)),
                                                     !.typed = Tail(@)])
              [] l.kind = "print" -> on([next EXCEPT !.out = @ \o [i \in DOMAIN vals |-> vals[i].v]])
              [] l.kind = "goto" -> jump
              [] l.kind = "if" -> IF Compare(l.rel, vals[1].v, vals[2].v) THEN jump ELSE on(next)

Reference(s) == Run(Loaded(Text(s)), [at |-> 1, env |-> [x \in Vars |-> 0], steps |-> 0,
                                      typed |-> run[s].typed, out |-> <<>>])

\* A run that no other run falls into ends the way its program says: the values
\* it prints are those of its expressions (precedence, grouping to the left,
\* division, overflow), jumps go where the first line of that number is, and an
\* error is reported with the line that made it.  The rest of that line is still
\* evaluated: what it prints does not matter, but it may divide the least
\* integer by -1, which the processor refuses.
RunsAsWritten ==
    \A s \in Terminals :
        LET r == run[s]
        IN stage[s] = "idle" /\ ~r.mixed /\ r.report.what \notin {"none", "not found", "read failed", "no lines"} =>
              LET ref == Reference(s)
              IN /\ \/ r.report = Ended(ref.what, ref.line)
                    \/ r.report.what = "exception" /\ ref.what = "error"
                 /\ ref.what \notin {"error", "exception"} => r.printed = ref.out
=============================================================================
