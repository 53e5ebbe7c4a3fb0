------------------------------- MODULE Snake -------------------------------
(***************************************************************************)
(* The game of kernel/snake.c: its rules and what it draws.  The module    *)
(* Terminal runs it on a console.                                          *)
(*                                                                         *)
(* The random generator is any cell; the score is drawn as one mark.       *)
(***************************************************************************)
EXTENDS Integers, Sequences, Functions

CONSTANTS
    Top, Bottom, Left, Right,   \* FIELD_TOP to FIELD_RIGHT
    MaxLen                      \* MAX_SNAKE_LEN

\* The snake has room to start, and food to find, at any length.
ASSUME SnakeAssumption ==
    /\ {Top, Bottom, Left, Right, MaxLen} \subseteq Nat
    /\ Top <= Bottom /\ Left + 4 <= Right
    /\ 3 <= MaxLen /\ MaxLen < (Bottom - Top + 1) * (Right - Left + 1)

Field == (Top..Bottom) \X (Left..Right)
Border == (((Top - 1)..(Bottom + 1)) \X ((Left - 1)..(Right + 1))) \ Field

Dirs == {"up", "down", "left", "right"}
Opposite(d) ==
    CASE d = "up" -> "down" [] d = "down" -> "up" [] d = "left" -> "right" [] d = "right" -> "left"
Neighbour(p, d) ==
    CASE d = "up" -> <<p[1] - 1, p[2]>> [] d = "down" -> <<p[1] + 1, p[2]>>
      [] d = "left" -> <<p[1], p[2] - 1>> [] d = "right" -> <<p[1], p[2] + 1>>

NoGame == [body |-> <<>>, direction |-> "right", requested |-> "right", food |-> <<0, 0>>, quit |-> FALSE]

\* place_food
FreeCells(body) == Field \ Range(body)

\* The game before the food is placed.
NewGame ==
    LET row == (Top + Bottom) \div 2
        col == (Left + Right) \div 2
    IN [NoGame EXCEPT !.body = <<<<row, col>>, <<row, col - 1>>, <<row, col - 2>>>>]

\* Mutant of Turned: it looks at the last key, not at the way the snake is going.
TurnedFromLastKey(g, d) == IF d = Opposite(g.requested) THEN g ELSE [g EXCEPT !.requested = d]

\* A key while the step is waited for.
Turned(g, d) == IF d = Opposite(g.direction) THEN g ELSE [g EXCEPT !.requested = d]

new_head(g) == Neighbour(g.body[1], g.requested)

Dies(g) == new_head(g) \notin Field \/ new_head(g) \in Range(g.body)

Eats(g) == new_head(g) = g.food /\ Len(g.body) < MaxLen

\* The snake after a step; food is where it is placed when it has eaten.
Stepped(g, food) ==
    LET body == <<new_head(g)>> \o g.body
    IN [g EXCEPT !.direction = g.requested,
                 !.body = IF Eats(g) THEN body ELSE SubSeq(body, 1, Len(g.body)),
                 !.food = IF Eats(g) THEN food ELSE @]

----------------------------------------------------------------------------
(* Pictures: cells and what is drawn there                                 *)

Everywhere(cells, ch) == [p \in cells |-> ch]
Over(above, below) ==
    [p \in DOMAIN above \cup DOMAIN below |-> IF p \in DOMAIN above THEN above[p] ELSE below[p]]

draw_score(alive) == [p \in {0} \X {0} |-> IF alive THEN "score" ELSE "game over"]

Snake(body) == Over(Everywhere({body[1]}, "@"), Everywhere(Range(body), "o"))

\* draw_border, the snake, the food, the score.
FirstPicture(g) ==
    Over(draw_score(TRUE), Over(Everywhere({g.food}, "*"), Over(Snake(g.body), Everywhere(Border, "#"))))

\* Mutant of StepPicture: the tail is left standing.
StepPictureWithTail(old, new) ==
    LET head == Over(Everywhere({new.body[1]}, "@"), Everywhere({new.body[2]}, "o"))
        change == IF Eats(old) THEN Everywhere({new.food}, "*") ELSE << >>
    IN Over(draw_score(TRUE), Over(head, change))

\* What a step draws: the new food or a blank where the tail was, then the head
\* and the cell behind it.
StepPicture(old, new) ==
    LET head == Over(Everywhere({new.body[1]}, "@"), Everywhere({new.body[2]}, "o"))
        change == IF Eats(old) THEN Everywhere({new.food}, "*")
                  ELSE Everywhere({old.body[Len(old.body)]}, " ")
    IN Over(draw_score(TRUE), Over(head, change))
=============================================================================
