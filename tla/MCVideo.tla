------------------------------ MODULE MCVideo ------------------------------
(***************************************************************************)
(* Values for the constants of VideoBoard.  Every cell holds its own       *)
(* address.                                                                *)
(***************************************************************************)
EXTENDS VideoBoard

MC_DATA    == 0 .. 4 * ROWS * COLS
MC_MEM     == [a \in Adr |-> a]
MC_GPU_DAT == 4 * ROWS * COLS

\* A column of one burst, and a row of two that is clipped on two sides.
MC_RECTS ==
  {[x |-> 4, y |-> 0, w |-> 4, h |-> 2], [x |-> -4, y |-> -1, w |-> 12, h |-> 2]}
=============================================================================
