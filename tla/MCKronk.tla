------------------------------ MODULE MCKronk ------------------------------
(* Instances of Kronk for TLC: the programs.                               *)
EXTENDS KronkLang, SequencesExt

CONSTANTS s1, s2

\* 4 does not fit into the three bits of an int: A is the least one in most of
\* the programs, and A + 3 is -1.
A == Var("A")
N(n) == <<Num(n)>>
Join(es) == Tail(FlattenSeq([i \in DOMAIN es |-> <<Tok(",")>> \o es[i]]))

Let(n, x, e) == [Line(n, "let") EXCEPT !.var = x, !.toks = e, !.exprs = <<e>>]
PrintAll(n, es) == [Line(n, "print") EXCEPT !.toks = <<Tok("text"), Tok(",")>> \o Join(es), !.exprs = es]
Input(n, x) == [Line(n, "input") EXCEPT !.var = x]
Go(n, target) == [Line(n, "goto") EXCEPT !.target = target]
If(n, e, rel, f, target) == [Line(n, "if") EXCEPT
    !.toks = e \o <<Tok(rel)>> \o f \o <<Tok("then")>>, !.exprs = <<e, f>>, !.rel = rel, !.target = target]
Malformed(n, kind, toks) == [Line(n, kind) EXCEPT !.var = "A", !.toks = toks, !.exprs = <<<<>>>>]

\* Every pair of operators around the same three operands, grouped by the line
\* itself, to the left and to the right, with a sign in front of one operand.
\* Those that have a value are printed by one program for each first operator.
Ops == <<"+", "-", "*", "/">>
Shapes(op1, op2, x, y, z) ==
    LET o1 == <<Tok(op1)>>  o2 == <<Tok(op2)>>  neg == <<Tok("-")>>
        open == <<Tok("(")>>  close == <<Tok(")")>>
        X == <<x>>  Y == <<y>>  Z == <<z>>
    IN <<X \o o1 \o Y \o o2 \o Z, open \o X \o o1 \o Y \o close \o o2 \o Z,
         X \o o1 \o open \o Y \o o2 \o Z \o close, neg \o X \o o1 \o Y \o o2 \o Z,
         X \o o1 \o neg \o Y \o o2 \o Z, X \o o1 \o neg \o open \o Y \o o2 \o Z \o close>>
LeastA == [x \in Vars |-> MinInt]
Valued(es) == SelectSeq(es, LAMBDA e : Meaning(e, LeastA).is = "value")
Around(op1, op2) == Shapes(op1, op2, A, Num(3), Num(2)) \o Shapes(op1, op2, Num(2), A, Num(3))
Printer(op) == <<Let(10, "A", N(4)), Line(0, "bad"),
                 PrintAll(20, Valued(FlattenSeq([i \in 1..4 |-> Around(op, Ops[i])])))>>

\* Expressions that have none.
Zero == <<Tok("("), A, Tok("-"), A, Tok(")")>>
MinusOne == <<Tok("("), A, Tok("+"), Num(3), Tok(")")>>
Failing == <<<<Num(3), Tok("/")>> \o Zero, <<A, Tok("/")>> \o MinusOne,
             <<A, Tok("/")>> \o Zero \o <<Tok("+"), A, Tok("/")>> \o MinusOne>>

Rels == <<"<", "<=", ">", ">=", "=", "<>">>
Programs ==
    [i \in 1..4 |-> Printer(Ops[i])]
    \o [i \in DOMAIN Failing |-> <<Let(10, "A", N(4)), Let(20, "A", Failing[i])>>]
    \o [i \in 1..3 |-> <<Input(10, "A"), If(20, <<A>>, Rels[i], N(1), 40), If(40, <<A>>, Rels[i + 3], N(1), 99)>>]
    \o <<<<Line(0, "bad"), Let(10, "A", N(1)), Go(20, 20)>>,
         <<Go(20, 10), Line(20, "kronk"), PrintAll(10, <<<<A>>, N(3)>>), Line(30, "bad")>>,
         <<Input(10, "A"), If(20, <<A>>, ">", N(0), 10), Line(30, "end")>>,
         <<Input(10, "A"), PrintAll(10, <<<<A>>, <<Tok("-"), A>>>>), Go(30, 10)>>,
         <<Malformed(10, "if", <<Num(1), Tok("="), Num(1)>>)>>,
         <<Malformed(10, "if", <<Num(1), Tok("then")>>)>>,
         <<Malformed(10, "let", <<Num(1), Tok("+")>>)>>,
         <<Line(10, "rem"), Line(20, "bad")>>, <<Line(0, "bad")>>>>

\* What the other shell runs.
Replacing == <<Let(10, "A", N(1)), If(20, <<A>>, "=", N(1), 10), Input(30, "A")>>

MCDisk == Programs \o <<Replacing>>
MCFiles == (s1 :> 1..(Len(MCDisk) - 1)) @@ (s2 :> {Len(MCDisk)})
MCTerminals == {s1, s2}
MCInputs == {1, 7}
=============================================================================
