-------------------------------- MODULE Conway --------------------------------
(***************************************************************************)
(* conway_engine.vhd, a state machine that steps one cell per clock, and   *)
(* conway_hw.c, the program that drives it through registers and polls its *)
(* busy bit.  The whole is one record, conway:                             *)
(*   a, b, sel        the two grids, and which of them is visible          *)
(*   mode, idx        the state of the engine and the cell it is at        *)
(*   busy             the busy bit, which follows the mode by a clock      *)
(*   generation, pop  the counters                                         *)
(*   target           what the LFSR writes for the seed it was given       *)
(*   initialized, help_open, edit_mode, cursor                             *)
(*   prev             what the program takes the screen to show            *)
(*   screen, hud      what the VGA shows: the cells, and the counters      *)
(*   then             what the program does once busy is 0 ("" : nothing)  *)
(*   edited           history: cells changed since pop was counted         *)
(* Left out: the speed (an update steps or not), the words around the grid,*)
(* and auto_run, which the program never sets.                             *)
(***************************************************************************)
EXTENDS Integers, Sequences, FiniteSets

CONSTANTS COLS, ROWS,    \* 64 x 25
          RANDOM         \* the grids that next_seed may lead to

VARIABLE conway

Cells == (0..COLS-1) \X (0..ROWS-1)
GRID_SIZE == COLS * ROWS

ASSUME ConwayAssumption == /\ COLS \in Nat /\ COLS >= 3 /\ ROWS \in Nat /\ ROWS >= 3
                           /\ RANDOM \subseteq SUBSET Cells

\* The population is counted in 16 bits, which a grid of 64 x 25 never fills
\* (pop_count of conway_engine.vhd).
ASSUME PopulationAssumption == GRID_SIZE < 2^16

ConwayState ==
  [a : SUBSET Cells, b : SUBSET Cells, sel : {0, 1},
   mode : {"IDLE", "RAND", "COMPUTE", "FLIP", "POP"}, idx : 0..GRID_SIZE-1,
   busy : {0, 1}, generation : 0..2^16-1, pop : 0..2^16-1, target : SUBSET Cells,
   initialized : BOOLEAN, help_open : BOOLEAN, edit_mode : BOOLEAN, cursor : Cells,
   prev : SUBSET Cells,
   screen : [Cells -> {"", ".", "#", "+", "O"}], hud : (0..2^16-1) \X (0..2^16-1),
   then : {"", "init", "toggle", "grid", "step"}, edited : BOOLEAN]

\* The variables of both after reset.
ConwayStatics ==
  [a |-> {}, b |-> {}, sel |-> 0, mode |-> "IDLE", idx |-> 0, busy |-> 0,
   generation |-> 0, pop |-> 0, target |-> {},
   initialized |-> FALSE, help_open |-> FALSE, edit_mode |-> FALSE, cursor |-> <<0, 0>>,
   prev |-> {},
   screen |-> [c \in Cells |-> ""], hud |-> <<0, 0>>, then |-> "", edited |-> FALSE]

-----------------------------------------------------------------------------
(***************************************************************************)
(* The engine.                                                             *)
(***************************************************************************)
Visible(w) == IF w.sel = 0 THEN w.a ELSE w.b
CellAt(i)  == <<i % COLS, i \div COLS>>

Put(grid, c, alive) == IF alive THEN grid \cup {c} ELSE grid \ {c}

SetVisible(w, c, alive) == IF w.sel = 0 THEN [w EXCEPT !.a = Put(@, c, alive)]
                                        ELSE [w EXCEPT !.b = Put(@, c, alive)]
\* Defect: there is only one grid.
Conway_one_grid(w, c, alive) == SetVisible(w, c, alive)

SetHidden(w, c, alive) == IF w.sel = 0 THEN [w EXCEPT !.b = Put(@, c, alive)]
                                       ELSE [w EXCEPT !.a = Put(@, c, alive)]

next_alive(grid, c) ==
  LET steps == (-1..1) \X (-1..1)
      n == Cardinality({d \in steps \ {<<0, 0>>} :
             <<(c[1] + d[1] + COLS) % COLS, (c[2] + d[2] + ROWS) % ROWS>> \in grid})
  IN  IF c \in grid THEN n \in {2, 3} ELSE n = 3

\* After the last cell comes the mode last.
Advance(w, last) == IF w.idx = GRID_SIZE - 1 THEN [w EXCEPT !.mode = last]
                                             ELSE [w EXCEPT !.idx = @ + 1]

Rand(w) == Advance(SetVisible(w, CellAt(w.idx), CellAt(w.idx) \in w.target), "IDLE")

Compute(w) ==
  Advance(SetHidden(w, CellAt(w.idx), next_alive(Visible(w), CellAt(w.idx))), "FLIP")

\* Defect: the count goes on from the one before.
Conway_no_recount(w) == [w EXCEPT !.sel = 1 - @, !.generation = (@ + 1) % 2^16,
                                  !.idx = 0, !.mode = "POP", !.edited = FALSE]

Flip(w) == [w EXCEPT !.sel = 1 - @, !.generation = (@ + 1) % 2^16,
                     !.pop = 0, !.idx = 0, !.mode = "POP", !.edited = FALSE]

Pop(w) == Advance([w EXCEPT !.pop = IF CellAt(w.idx) \in Visible(w) THEN @ + 1 ELSE @], "IDLE")

\* A clock without a command.
Clock(w) == CASE w.mode = "IDLE"    -> [w EXCEPT !.busy = 0]
              [] w.mode = "RAND"    -> Rand(w)
              [] w.mode = "COMPUTE" -> Compute(w)
              [] w.mode = "FLIP"    -> Flip(w)
              [] w.mode = "POP"     -> Pop(w)

\* The clock at which the command register is written: only in FSM_IDLE does
\* the command have an effect.
clear(w)  == IF w.mode # "IDLE" THEN Clock(w)
             ELSE [w EXCEPT !.busy = 0, !.generation = 0, !.pop = 0, !.sel = 0,
                            !.a = {}, !.b = {}, !.edited = FALSE]
toggle(w) == IF w.mode # "IDLE" THEN Clock(w)
             ELSE [SetVisible(w, w.cursor, w.cursor \notin Visible(w))
                     EXCEPT !.busy = 0, !.edited = TRUE]
start(w, mode) == IF w.mode # "IDLE" THEN Clock(w)
                  ELSE [w EXCEPT !.busy = 1, !.idx = 0, !.mode = mode]

-----------------------------------------------------------------------------
(***************************************************************************)
(* What the program draws.                                                 *)
(***************************************************************************)
Char(alive) == IF alive THEN "#" ELSE "."

\* Defect: the row is compared with what was drawn, but not kept.
Conway_no_shadow(w, y, force) ==
  LET row == {c \in Cells : c[2] = y /\ (force \/ (c \in Visible(w)) # (c \in w.prev))}
  IN  [w EXCEPT !.screen = [c \in Cells |-> IF c \in row THEN Char(c \in Visible(w)) ELSE @[c]]]

refresh_row(w, y, force) ==
  LET row     == {c \in Cells : c[2] = y}
      changed == {c \in row : force \/ (c \in Visible(w)) # (c \in w.prev)}
  IN  [w EXCEPT !.screen = [c \in Cells |-> IF c \in changed THEN Char(c \in Visible(w)) ELSE @[c]],
                !.prev   = (@ \ row) \cup (Visible(w) \cap row)]

draw_rows(w, force) ==
  LET rows[y \in 0..ROWS] == IF y = 0 THEN w ELSE refresh_row(rows[y-1], y - 1, force)
  IN  rows[ROWS]

draw_grid(w)         == draw_rows(w, TRUE)
draw_grid_partial(w) == draw_rows(w, FALSE)

draw_hud(w) == [w EXCEPT !.hud = <<w.generation, w.pop>>]

move_cursor(w, dx, dy) ==
  LET old == w.cursor
      new == <<(old[1] + dx + COLS) % COLS, (old[2] + dy + ROWS) % ROWS>>
      at  == IF new \in Visible(w) THEN "O" ELSE "+"
  IN  IF ~w.edit_mode THEN [w EXCEPT !.cursor = new]
      ELSE [w EXCEPT !.cursor = new,
                     !.screen = [@ EXCEPT ![old] = Char(old \in Visible(w)), ![new] = at]]

\* The box lies over part of the grid.
draw_help(w) ==
  [w EXCEPT !.screen = [c \in Cells |-> IF c[2] >= 1 THEN "" ELSE @[c]]]

-----------------------------------------------------------------------------
(***************************************************************************)
(* The program: each call returns, or waits for the engine and goes on     *)
(* with Conway_continue.                                                   *)
(***************************************************************************)
Conway_waiting(w) == w.then # ""

Conway_init(w) == [clear(w) EXCEPT !.then = "init"]

Conway_update(w) == IF ~w.initialized \/ w.help_open \/ w.edit_mode THEN w
                    ELSE [start(w, "COMPUTE") EXCEPT !.then = "step"]

\* hw_wait has read a busy bit of 0.
Conway_continue(w) ==
  LET done == [w EXCEPT !.then = ""]
  IN  CASE w.then = "init" ->
             move_cursor(draw_hud(draw_grid(
               [done EXCEPT !.edit_mode = TRUE, !.cursor = <<COLS \div 2, ROWS \div 2>>,
                            !.prev = Cells,
                            !.initialized = TRUE, !.screen = [c \in Cells |-> ""]])), 0, 0)
        [] w.then = "toggle" -> draw_hud(refresh_row(done, w.cursor[2], FALSE))
        [] w.then = "grid"   -> draw_hud(draw_grid(done))
        [] w.then = "step"   -> draw_hud(draw_grid_partial(done))

Moves == [w |-> <<0, -1>>, s |-> <<0, 1>>, a |-> <<-1, 0>>, d |-> <<1, 0>>]
ConwayKeys == {"F1", "enter", "space", "r", "c"} \cup DOMAIN Moves

Conway_F1(w) == IF w.help_open THEN draw_hud(draw_grid([w EXCEPT !.help_open = FALSE]))
                               ELSE draw_help([w EXCEPT !.help_open = TRUE])

Conway_key(w, k) ==
  CASE k = "F1"    -> {Conway_F1(w)}
    [] k # "F1" /\ w.help_open -> {w}
    [] k = "enter" /\ ~w.help_open -> {draw_hud([w EXCEPT !.edit_mode = ~@])}
    [] k = "space" /\ ~w.help_open ->
         IF w.edit_mode THEN {[toggle(w) EXCEPT !.then = "toggle"]} ELSE {draw_hud(w)}
    [] k = "r" /\ ~w.help_open ->
         {[start(w, "RAND") EXCEPT !.target = g, !.edited = TRUE, !.then = "grid"] : g \in RANDOM}
    [] k = "c" /\ ~w.help_open -> {[clear(w) EXCEPT !.then = "grid"]}
    [] k \in DOMAIN Moves /\ ~w.help_open ->
         {draw_hud(move_cursor(w, Moves[k][1], Moves[k][2]))}

Conway_input(w, k) == IF w.initialized THEN Conway_key(w, k) ELSE {w}

Conway_finish(w) == ~w.initialized

-----------------------------------------------------------------------------
TheLife == INSTANCE Life WITH live <- Visible(conway), generation <- conway.generation

\* Between clears and single cells the visible grid goes from one generation
\* to the next at once, by the rules, and is never seen half computed
\* (conway_hw.c:325-331).
ImplementsLife == TheLife!Spec

\* An engine at rest that nobody has edited since has counted its visible grid.
PopulationExact ==
  conway.mode = "IDLE" /\ ~conway.edited => conway.pop = Cardinality(Visible(conway))

\* With the help closed the screen shows the visible grid, although most
\* refreshes only draw what differs from the shadow of the grid.
GridShown ==
  LET w == conway
  IN  w.initialized /\ ~w.help_open /\ ~Conway_waiting(w) =>
        \A c \in Cells : (w.screen[c] \in {"#", "O"}) = (c \in Visible(w))
=============================================================================
