--------------------------------- MODULE Snake ---------------------------------
(***************************************************************************)
(* snake.c: one or two snakes on a torus.  The game is one record, snake:   *)
(*   p1, p2        [body, dx, dy], the body from the head to the tail      *)
(*   two_player, initialized, game_over, help_open                         *)
(*   choosing      1 the mode, 2 the difficulty, 0 playing                 *)
(*   winner        0 none, 1, 2, 3 a draw                                  *)
(*   food          a cell                                                  *)
(*   grid          what the screen shows in each cell of the game area     *)
(*   crossed       history: the two snakes have shared a cell              *)
(*   missed        history: the tries of place_food have run out           *)
(* Each operator gives the records that may follow.  Left out: the score,  *)
(* the difficulty and the frame counter (an update moves the snakes or     *)
(* not), the text around the game area.                                    *)
(***************************************************************************)
EXTENDS Integers, Sequences, SequencesExt

CONSTANTS GRID_W, GRID_H,   \* the torus (64 x 25)
          FOOD              \* the cells that rng_range yields

VARIABLE snake

Cell == (0..GRID_W-1) \X (0..GRID_H-1)

\* Both snakes start inside the grid.
ASSUME SnakeAssumption == /\ GRID_W \in Nat /\ GRID_W >= 12
                          /\ GRID_H \in Nat \ {0}
                          /\ FOOD \subseteq Cell /\ FOOD # {}

Snakes == [body : Seq(Cell), dx : -1..1, dy : -1..1]

SnakeState ==
  [p1 : Snakes, p2 : Snakes, two_player : BOOLEAN, initialized : BOOLEAN, game_over : BOOLEAN,
   help_open : BOOLEAN, choosing : 0..2, winner : 0..3, food : Cell,
   grid : [Cell -> {"blank", "food", "text", "O", "o", "#", "="}], crossed : BOOLEAN,
   missed : BOOLEAN]

\* The variables of snake.c before its first init.
SnakeStatics ==
  LET none == [body |-> << >>, dx |-> 0, dy |-> 0]
  IN  [p1 |-> none, p2 |-> none, two_player |-> FALSE, initialized |-> FALSE,
       game_over |-> FALSE, help_open |-> FALSE, choosing |-> 0, winner |-> 0,
       food |-> <<0, 0>>, grid |-> [c \in Cell |-> "text"], crossed |-> FALSE,
       missed |-> FALSE]

-----------------------------------------------------------------------------
(***************************************************************************)
(* What is drawn.                                                          *)
(***************************************************************************)
Painted(grid, cells, what) == [c \in Cell |-> IF c \in cells THEN what ELSE grid[c]]

Filled(what) == [c \in Cell |-> what]

\* The part of the game area behind the text at the end of a game, and behind
\* the help.
MessageBox == {c \in Cell : c[2] \in {GRID_H \div 2 - 1, GRID_H \div 2 + 1}}
HelpBox    == {c \in Cell : c[1] \in 2..GRID_W-3}

HeadDrawn(grid, p, head, part) == Painted(Painted(grid, {p.body[2]}, part), {p.body[1]}, head)
BodyDrawn(grid, p, head, part) == Painted(Painted(grid, ToSet(p.body), part), {p.body[1]}, head)

\* redraw_all, and the drawing of start_game: one over the other.
Picture(s) ==
  LET first  == BodyDrawn(Filled("blank"), s.p1, "O", "o")
      second == IF s.two_player THEN BodyDrawn(first, s.p2, "#", "=") ELSE first
      game   == Painted(second, {s.food}, "food")
  IN  IF s.game_over THEN Painted(game, MessageBox, "text") ELSE game

-----------------------------------------------------------------------------
Bodies(s) == ToSet(s.p1.body) \cup (IF s.two_player THEN ToSet(s.p2.body) ELSE {})

\* Defect: the second snake is forgotten.
Snake_food_on_p1(s) == s.food \in ToSet(s.p1.body)

food_on_any(s) == s.food \in Bodies(s)

\* A try that misses the bodies ends the loop; the 200th is kept wherever it is.
place_food(s) ==
  {[n EXCEPT !.missed = @ \/ food_on_any(n)] : n \in {[s EXCEPT !.food = f] : f \in FOOD}}

init_snake(sx, sy, dx) ==
  [body |-> [i \in 1..3 |-> <<sx - (i - 1) * dx, sy>>], dx |-> dx, dy |-> 0]

start_game(s) ==
  LET new == [s EXCEPT !.choosing = 0, !.winner = 0, !.game_over = FALSE,
                       !.initialized = TRUE, !.crossed = FALSE, !.missed = FALSE,
                       !.p1 = init_snake(GRID_W \div 4, GRID_H \div 2, 1),
                       !.p2 = IF s.two_player
                              THEN init_snake((GRID_W * 3) \div 4, GRID_H \div 2, -1) ELSE @]
  IN  {[n EXCEPT !.grid = Picture(n)] : n \in place_food(new)}

Snake_init(s) ==
  [s EXCEPT !.initialized = FALSE, !.choosing = 1, !.two_player = FALSE, !.help_open = FALSE,
            !.grid = Filled("text")]

-----------------------------------------------------------------------------
(***************************************************************************)
(* update: the heads move on unless one meets a body; a tail that moves    *)
(* away in the same step is no obstacle.                                   *)
(***************************************************************************)
Ahead(p) == <<(p.body[1][1] + p.dx + GRID_W) % GRID_W, (p.body[1][2] + p.dy + GRID_H) % GRID_H>>

\* Defect: only the head counts.
Snake_hits_head(p, c) == p.body[1] = c

hits_body(p, c) == \E i \in 1..Len(p.body)-1 : p.body[i] = c

Grown(p, ate) == [p EXCEPT !.body = <<Ahead(p)>> \o (IF ate THEN @ ELSE Front(@))]

\* Defect: the tail of a snake that eats is cleared as well.
Snake_clear_tails(s, n, ate1, ate2) ==
  [n EXCEPT !.grid = HeadDrawn(Painted(s.grid, {Last(s.p1.body)}, "blank"), n.p1, "O", "o")]

\* Only what changed is drawn: the old tails, both heads and the parts behind.
draw_step(s, n, ate1, ate2) ==
  LET left   == (IF ate1 THEN {} ELSE {Last(s.p1.body)})
                  \cup (IF s.two_player /\ ~ate2 THEN {Last(s.p2.body)} ELSE {})
      first  == HeadDrawn(Painted(s.grid, left, "blank"), n.p1, "O", "o")
      second == IF s.two_player THEN HeadDrawn(first, n.p2, "#", "=") ELSE first
  IN  [n EXCEPT !.grid = second]

Moved(s) ==
  LET ate1 == Ahead(s.p1) = s.food
      ate2 == s.two_player /\ Ahead(s.p2) = s.food
      next == [s EXCEPT !.p1 = Grown(@, ate1), !.p2 = IF s.two_player THEN Grown(@, ate2) ELSE @]
      seen == [draw_step(s, next, ate1, ate2) EXCEPT !.crossed =
                 @ \/ (s.two_player /\ ToSet(next.p1.body) \cap ToSet(next.p2.body) # {})]
  IN  IF ate1 \/ ate2 THEN {[n EXCEPT !.grid[n.food] = "food"] : n \in place_food(seen)}
                      ELSE {seen}

Snake_update(s) ==
  LET n1    == Ahead(s.p1)
      n2    == Ahead(s.p2)
      dead1 == hits_body(s.p1, n1) \/ (s.two_player /\ (hits_body(s.p2, n1) \/ n1 = n2))
      dead2 == s.two_player /\ (hits_body(s.p2, n2) \/ hits_body(s.p1, n2) \/ n1 = n2)
      over  == [s EXCEPT !.game_over = TRUE,
                         !.winner = IF ~s.two_player THEN @ ELSE IF dead1 /\ dead2 THEN 3
                                    ELSE IF dead1 THEN 2 ELSE 1,
                         !.grid = Painted(@, MessageBox, "text")]
  IN  IF ~s.initialized \/ s.game_over \/ s.help_open THEN {s}
      ELSE {s} \cup (IF dead1 \/ dead2 THEN {over} ELSE Moved(s))

-----------------------------------------------------------------------------
(***************************************************************************)
(* input.  F10 is not among the keys: t_active_prog keeps it for itself.   *)
(***************************************************************************)
Wasd   == [w |-> <<0, -1>>, s |-> <<0, 1>>, a |-> <<-1, 0>>, d |-> <<1, 0>>]
Arrows == [up |-> <<0, -1>>, down |-> <<0, 1>>, left |-> <<-1, 0>>, right |-> <<1, 0>>]

SnakeKeys == {"F1", "1", "2", "r"} \cup DOMAIN Wasd \cup DOMAIN Arrows

\* A key turns a snake unless it points straight back.
Turn(p, keys, k) ==
  IF k \in DOMAIN keys /\ keys[k] # <<-p.dx, -p.dy>>
  THEN [p EXCEPT !.dx = keys[k][1], !.dy = keys[k][2]] ELSE p

toggle_help(s) ==
  IF s.choosing # 0 \/ ~s.initialized THEN s
  ELSE IF s.help_open THEN [s EXCEPT !.help_open = FALSE, !.grid = Picture(s)]
  ELSE [s EXCEPT !.help_open = TRUE, !.grid = Painted(@, HelpBox, "text")]

Snake_input(s, k) ==
  CASE k = "F1"                      -> {toggle_help(s)}
    [] k # "F1" /\ s.help_open       -> {s}
    [] k # "F1" /\ ~s.help_open /\ s.choosing = 1 ->
         IF k \in {"1", "2"} THEN {[s EXCEPT !.two_player = (k = "2"), !.choosing = 2,
                                             !.grid = Filled("text")]} ELSE {s}
    [] k # "F1" /\ ~s.help_open /\ s.choosing = 2 ->
         IF k \in {"1", "2"} THEN start_game(s) ELSE {s}
    [] k # "F1" /\ ~s.help_open /\ s.choosing = 0 /\ s.game_over ->
         IF k = "r" THEN start_game(s) ELSE {s}
    [] OTHER -> {IF s.two_player
                 THEN [s EXCEPT !.p1 = Turn(@, Wasd, k), !.p2 = Turn(@, Arrows, k)]
                 ELSE [s EXCEPT !.p1 = Turn(Turn(@, Wasd, k), Arrows, k)]}

Snake_finish(s) == ~s.initialized /\ s.choosing = 0

-----------------------------------------------------------------------------
Playing(s) == s.initialized /\ s.choosing = 0

\* A body never meets itself, and each part is next to the one before it
\* (update of snake.c: hits_body looks at where the bodies were, the shift and
\* the growth come after), unless food has lain under one: who eats it there
\* keeps a tail where the head is now.
IsSnake(p) ==
  /\ Len(p.body) >= 3
  /\ \A i, j \in DOMAIN p.body : i # j => p.body[i] # p.body[j]
  /\ \A i \in 1..Len(p.body)-1 :
       LET dx == (p.body[i][1] - p.body[i+1][1] + GRID_W) % GRID_W
           dy == (p.body[i][2] - p.body[i+1][2] + GRID_H) % GRID_H
       IN  \/ dx \in {1, GRID_W - 1} /\ dy = 0
           \/ dy \in {1, GRID_H - 1} /\ dx = 0

BodiesSound ==
  Playing(snake) /\ ~snake.missed =>
    IsSnake(snake.p1) /\ (snake.two_player => IsSnake(snake.p2))

\* Food that was placed clear of the bodies stays clear of them, however the
\* snakes move and grow and whichever of them eats (place_food and update):
\* a head that gets to it has eaten it, and it is placed again in that step.
FoodFree == Playing(snake) /\ ~snake.missed => snake.food \notin Bodies(snake)

\* The game area shows the game: what the steps of update drew is what
\* redraw_all would draw, until two snakes have shared a cell or food has lain
\* under one.
GameShown ==
  LET s == snake
  IN  Playing(s) /\ ~s.help_open /\ ~s.game_over /\ ~s.crossed /\ ~s.missed => s.grid = Picture(s)
=============================================================================
