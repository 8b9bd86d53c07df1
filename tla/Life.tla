--------------------------------- MODULE Life ---------------------------------
(***************************************************************************)
(* Conway's game as its help promises it (conway_hw.c: "B3/S23, toroidal   *)
(* wrap"): a whole generation at a time, besides clearing the grid and     *)
(* changing single cells.                                                  *)
(***************************************************************************)
EXTENDS Integers, FiniteSets

CONSTANTS COLS, ROWS

Cells == (0..COLS-1) \X (0..ROWS-1)

VARIABLES live,         \* the live cells
          generation    \* generations since the grid was cleared (16 bits)

\* By distance on the torus.
Near(a, b, size) == (a - b) % size \in {0, 1, size - 1}
Neighbours(c) == {d \in Cells \ {c} : Near(c[1], d[1], COLS) /\ Near(c[2], d[2], ROWS)}

NextGeneration(grid) ==
  {c \in Cells : LET n == Cardinality(Neighbours(c) \cap grid)
                 IN  n = 3 \/ (n = 2 /\ c \in grid)}

Init == live = {} /\ generation = 0

Clear == live' = {} /\ generation' = 0

Edit == \E c \in Cells : /\ live' \in {live \cup {c}, live \ {c}}
                         /\ UNCHANGED generation

Step == /\ live' = NextGeneration(live)
        /\ generation' = (generation + 1) % 2^16

Next == Clear \/ Edit \/ Step

Spec == Init /\ [][Next]_<<live, generation>>
=============================================================================
