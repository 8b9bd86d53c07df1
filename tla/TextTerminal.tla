------------------------------ MODULE TextTerminal ------------------------------
(***************************************************************************)
(* The text screen (vga_hal.c, the build for the board), the line editor   *)
(* of t_shell that writes to it and the status bar that t_status writes    *)
(* into its last row, all under one mutex.  The whole is one record, text: *)
(*   cell            what each cell of the screen shows                    *)
(*   cur_row, cur_col                                                      *)
(*   shell_line      the line typed so far                                 *)
(*   out             what the task that holds the mutex has yet to print   *)
(*   gone            history: the rows scrolled off the screen             *)
(*   slipped         history: an erase has met the left edge since the     *)
(*                   prompt was printed                                    *)
(* Left out: colours, the copy on the serial line, and the scroll region,  *)
(* which every caller sets to all rows but the last.                       *)
(***************************************************************************)
EXTENDS Integers, Sequences, SequencesExt, TLC

CONSTANTS VGA_COLS, VGA_ROWS,   \* 80 x 30
          SHELL_LINE_SIZE,      \* 80
          LETTERS               \* what can be typed

VARIABLE text

ASSUME TextAssumption == /\ VGA_COLS \in Nat \ {0} /\ VGA_ROWS \in Nat /\ VGA_ROWS >= 2
                         /\ SHELL_LINE_SIZE \in Nat \ {0}
                         /\ LETTERS \cap {"newline", "backspace", "clear", "enter", "bs", "^C"} = {}

PROMPT == <<">">>         \* RTOS >
BANNER == <<"*", "newline">>   \* the four lines of shell_init_screen
OUTPUT == <<"*", "newline">>   \* what a command prints
BREAK  == <<"^", "newline">>   \* ^C

Symbols == LETTERS \cup {">", "*", "^"}
SPACE   == " "
BAR     == "-"            \* a cell of the status bar

scroll_bottom == VGA_ROWS - 2

Row       == [0..VGA_COLS-1 -> Symbols \cup {SPACE, BAR}]
BlankRow  == [c \in 0..VGA_COLS-1 |-> SPACE]

TextState ==
  [cell : [0..VGA_ROWS-1 -> Row], cur_row : 0..VGA_ROWS-1, cur_col : 0..VGA_COLS-1,
   shell_line : Seq(LETTERS), out : Seq(Symbols \cup {"newline", "backspace", "clear"}),
   gone : Seq(Row), slipped : BOOLEAN]

-----------------------------------------------------------------------------
(***************************************************************************)
(* vga_hal.c.                                                              *)
(***************************************************************************)
hw_write_cell(t, col, row, c) == [t EXCEPT !.cell[row][col] = c]

hw_scroll_up_region(t) ==
  [t EXCEPT !.gone = Append(@, t.cell[0]),
            !.cell = [r \in 0..VGA_ROWS-1 |-> IF r < scroll_bottom THEN @[r+1]
                                              ELSE IF r = scroll_bottom THEN BlankRow
                                              ELSE @[r]]]

\* To the start of the next row, which is made when there is none.
NextRow(t) ==
  IF t.cur_row + 1 > scroll_bottom
  THEN [hw_scroll_up_region(t) EXCEPT !.cur_col = 0, !.cur_row = scroll_bottom]
  ELSE [t EXCEPT !.cur_col = 0, !.cur_row = @ + 1]

advance_cursor(t) ==
  IF t.cur_col + 1 >= VGA_COLS THEN NextRow(t) ELSE [t EXCEPT !.cur_col = @ + 1]

Backspace(t) ==
  IF t.cur_col = 0 THEN [t EXCEPT !.slipped = TRUE]
  ELSE [hw_write_cell(t, t.cur_col - 1, t.cur_row, SPACE) EXCEPT !.cur_col = @ - 1]

vga_putc(t, c) ==
  CASE c = "newline" -> NextRow(t)
    [] c = "backspace" -> Backspace(t)
    [] OTHER    -> advance_cursor(hw_write_cell(t, t.cur_col, t.cur_row, c))

vga_goto(t, col, row) == [t EXCEPT !.cur_col = col, !.cur_row = row]

vga_clear(t) ==
  [t EXCEPT !.cell = [r \in 0..VGA_ROWS-1 |-> BlankRow], !.cur_col = 0, !.cur_row = 0,
            !.gone = << >>]

\* One call of the task that holds the mutex.
Text_print(t) ==
  LET next == [t EXCEPT !.out = Tail(@)]
  IN  IF Head(t.out) = "clear" THEN vga_clear(next) ELSE vga_putc(next, Head(t.out))

-----------------------------------------------------------------------------
\* Defect: the cursor stays behind the bar.
Text_bar_keeps_cursor(t) ==
  vga_goto([t EXCEPT !.cell[VGA_ROWS-1] = [c \in 0..VGA_COLS-1 |-> BAR]],
           VGA_COLS - 1, VGA_ROWS - 1)

\* The bar is shorter than a row, so the cursor never leaves the last row
\* before it is put back.
render_status_bar(t) ==
  vga_goto([t EXCEPT !.cell[VGA_ROWS-1] = [c \in 0..VGA_COLS-1 |-> BAR]],
           t.cur_col, t.cur_row)

-----------------------------------------------------------------------------
(***************************************************************************)
(* t_shell.                                                                *)
(***************************************************************************)
\* shell_reset_line and shell_prompt, after what was printed first.
Prompted(t, first) ==
  [t EXCEPT !.shell_line = << >>, !.out = first \o PROMPT, !.slipped = FALSE]

shell_init_screen(t) == Prompted(t, <<"clear">> \o BANNER)

\* Defect: a character the line has no room for is echoed all the same.
Text_echo_all(t, c) ==
  [t EXCEPT !.shell_line = IF Len(@) < SHELL_LINE_SIZE - 1 THEN Append(@, c) ELSE @,
            !.out = <<c>>]

shell_char(t, c) ==
  IF Len(t.shell_line) < SHELL_LINE_SIZE - 1
  THEN [t EXCEPT !.shell_line = Append(@, c), !.out = <<c>>] ELSE t

\* A command prints something, or clears the screen.
shell_enter(t) ==
  IF t.shell_line = << >> THEN {Prompted(t, <<"newline">>)}
  ELSE {Prompted(t, <<"newline">> \o OUTPUT), Prompted(t, <<"newline", "clear">>)}

TextKeys == LETTERS \cup {"enter", "bs", "^C"}

Text_key(t, k) ==
  CASE k = "^C"      -> {Prompted(t, BREAK)}
    [] k = "enter"   -> shell_enter(t)
    [] k = "bs"      -> {IF t.shell_line = << >> THEN t
                         ELSE [t EXCEPT !.shell_line = Front(@), !.out = <<"backspace">>]}
    [] k \in LETTERS -> {shell_char(t, k)}

\* The screen as the shell finds it, about to print its first lines.
TextStart ==
  shell_init_screen([cell |-> [r \in 0..VGA_ROWS-1 |-> BlankRow], cur_row |-> 0, cur_col |-> 0,
                     shell_line |-> << >>, out |-> << >>, gone |-> << >>, slipped |-> FALSE])

-----------------------------------------------------------------------------
\* All rows down to that of the cursor.
Written(t) == t.gone \o [r \in 1..t.cur_row+1 |-> t.cell[r-1]]

ThePaper == INSTANCE Paper WITH WIDTH <- VGA_COLS, SYMBOLS <- Symbols,
                                rows <- Written(text), column <- text.cur_col

\* Scrolling, wrapping and the status bar keep up the illusion of an endless
\* roll of paper that only the shell writes on.
ImplementsPaper == ThePaper!Spec

\* Where the next symbol goes, counted from the start of the roll, and the
\* symbol at a place.
Upto(t)        == (Len(Written(t)) - 1) * VGA_COLS + t.cur_col
SymbolAt(t, n) == Written(t)[n \div VGA_COLS + 1][n % VGA_COLS]

\* What stands before the cursor is the prompt and the line that Enter will
\* run, unless an erase has met the left edge (vga_hal.c:325).
LineShown ==
  LET shown == PROMPT \o text.shell_line
      first == Upto(text) - Len(shown)
  IN  text.out = << >> /\ ~text.slipped =>
        first >= 0 /\ \A i \in 1..Len(shown) : SymbolAt(text, first + i - 1) = shown[i]
=============================================================================
