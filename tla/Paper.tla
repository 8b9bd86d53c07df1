--------------------------------- MODULE Paper ---------------------------------
(***************************************************************************)
(* What a program that prints may take the text screen for: a roll of      *)
(* paper without an end, of which the screen shows the last rows.  Nobody  *)
(* but the writer puts anything on it.                                     *)
(***************************************************************************)
EXTENDS Integers, Sequences, SequencesExt

CONSTANTS WIDTH,    \* of a row
          SYMBOLS,  \* what can be written
          SPACE

VARIABLES rows,     \* the rows so far; the last one is being written
          column    \* where the next symbol goes

EmptyRow == [c \in 0..WIDTH-1 |-> SPACE]

Init == rows = <<EmptyRow>> /\ column = 0

NewLine == rows' = Append(rows, EmptyRow) /\ column' = 0

\* A row that is full is followed by a new one at once.
Write == \E s \in SYMBOLS :
  LET written == [rows EXCEPT ![Len(rows)][column] = s]
  IN  IF column + 1 = WIDTH
      THEN rows' = Append(written, EmptyRow) /\ column' = 0
      ELSE rows' = written /\ column' = column + 1

\* The symbol before, if it is on the same row.
Erase == /\ column > 0
         /\ rows' = [rows EXCEPT ![Len(rows)][column-1] = SPACE]
         /\ column' = column - 1

Clear == rows' = <<EmptyRow>> /\ column' = 0

Next == NewLine \/ Write \/ Erase \/ Clear

Spec == Init /\ [][Next]_<<rows, column>>
=============================================================================
