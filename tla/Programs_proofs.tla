-------------------------- MODULE Programs_proofs --------------------------
(***************************************************************************)
(* The programs of the shell and the text screen, for any keys, any number *)
(* of launches, any size of the grids and of the screen, any letters and   *)
(* any order of the steps, calls and status bars.                          *)
(***************************************************************************)
EXTENDS Ntt_proofs, SequenceTheorems, FiniteSetTheorems

-----------------------------------------------------------------------------
(***************************************************************************)
(* The text screen refines the roll of paper, and the line that Enter will *)
(* run stands after the prompt, before the cursor.                         *)
(*                                                                         *)
(* Each call of vga_hal.c is first told as what it does to the roll        *)
(* (Written): a scroll only moves a row from the screen to gone, a wrap    *)
(* appends a blank row, the bar touches no row of the roll.  Then the      *)
(* roll is read as one row of places (PlaceOf, Symbol), so that a line     *)
(* that wraps is one segment that ends at the cursor (Stands).  The        *)
(* invariant, TextInv, is that segment with what is still to be printed:   *)
(* nothing, the rest of a prompt, or the echo of the last key.             *)
(***************************************************************************)
-----------------------------------------------------------------------------
(***************************************************************************)
(* The cells and the roll.                                                 *)
(***************************************************************************)
\* The sizes as numbers.
LEMMA TextSizes == /\ VGA_COLS \in Nat /\ VGA_COLS >= 1 /\ VGA_ROWS \in Nat /\ VGA_ROWS >= 2
                   /\ scroll_bottom \in Nat /\ scroll_bottom = VGA_ROWS - 2
BY TextAssumption DEF scroll_bottom

\* A blank row is a row.
LEMMA BlankIsRow == BlankRow \in Row
BY DEF BlankRow, Row

\* The cursor is above the status bar, and nothing is written below it.
Good(t) ==
  /\ t \in TextState /\ t.cur_row <= scroll_bottom
  /\ \A r \in 0 .. scroll_bottom : r > t.cur_row => t.cell[r] = BlankRow

LEMMA GoodTypes ==
  ASSUME NEW t, Good(t)
  PROVE  /\ t.cell \in [0 .. VGA_ROWS - 1 -> Row] /\ t.gone \in Seq(Row)
         /\ t.cur_row \in 0 .. scroll_bottom /\ t.cur_col \in 0 .. VGA_COLS - 1
         /\ t.cur_row \in 0 .. VGA_ROWS - 1
         /\ t.shell_line \in Seq(LETTERS) /\ t.slipped \in BOOLEAN
         /\ t.out \in Seq(Symbols \cup {"newline", "backspace", "clear"})
BY TextSizes DEF Good, TextState

\* The rows of the screen down to number k, as a sequence.
LEMMA TopRows ==
  ASSUME NEW cells \in [0 .. VGA_ROWS - 1 -> Row], NEW k \in 0 .. scroll_bottom
  PROVE  LET top == [r \in 1 .. k + 1 |-> cells[r-1]]
         IN  /\ top \in Seq(Row) /\ Len(top) = k + 1
             /\ \A i \in 1 .. k + 1 : top[i] = cells[i-1]
<1> DEFINE top == [r \in 1 .. k + 1 |-> cells[r-1]]
<1>1. \A r \in 1 .. k + 1 : cells[r-1] \in Row
  BY TextSizes
<1>2. top \in [1 .. k + 1 -> Row]
  BY <1>1
<1>3. k + 1 \in Nat
  BY TextSizes
<1>4. top \in Seq(Row)
  <2>1. [1 .. k + 1 -> Row] \in {[1 .. n -> Row] : n \in Nat}
    BY <1>3
  <2> QED
    BY <1>2, <2>1, SeqDef, Zenon
<1>5. Len(top) = k + 1
  BY <1>3, <1>4, <1>2
<1> QED
  BY <1>4, <1>5

LEMMA WrittenIs ==
  ASSUME NEW t, Good(t)
  PROVE  /\ Written(t) \in Seq(Row) /\ Len(Written(t)) = Len(t.gone) + t.cur_row + 1
         /\ Len(Written(t)) \in Nat
         /\ \A i \in 1 .. Len(t.gone) : Written(t)[i] = t.gone[i]
         /\ \A i \in 0 .. t.cur_row : Written(t)[Len(t.gone) + 1 + i] = t.cell[i]
         /\ \A i \in 1 .. Len(Written(t)) :
              Written(t)[i] = IF i <= Len(t.gone) THEN t.gone[i] ELSE t.cell[i - Len(t.gone) - 1]
<1> DEFINE k   == t.cur_row
           g   == t.gone
           top == [r \in 1 .. k + 1 |-> t.cell[r-1]]
           w   == g \o top
<1>1. /\ top \in Seq(Row) /\ Len(top) = k + 1
      /\ \A i \in 1 .. k + 1 : top[i] = t.cell[i-1]
  BY GoodTypes, TopRows
<1>2. w = Written(t)
  BY DEF Written
<1>3. g \in Seq(Row) /\ Len(g) \in Nat /\ k \in Nat
  BY GoodTypes, TextSizes
<1> HIDE DEF top
<1>4. /\ w \in Seq(Row) /\ Len(w) = Len(g) + Len(top)
      /\ \A i \in 1 .. Len(g) + Len(top) : w[i] = IF i <= Len(g) THEN g[i] ELSE top[i - Len(g)]
  BY <1>1, <1>3, ConcatProperties
<1> HIDE DEF w, g, k
<1>5. Len(w) = Len(g) + k + 1 /\ Len(w) \in Nat
  BY <1>1, <1>3, <1>4
<1>6. ASSUME NEW i \in 1 .. Len(w)
      PROVE  w[i] = IF i <= Len(g) THEN g[i] ELSE t.cell[i - Len(g) - 1]
  BY <1>1, <1>3, <1>4, <1>5
<1>7. ASSUME NEW i \in 0 .. k
      PROVE  w[Len(g) + 1 + i] = t.cell[i]
  <2>1. Len(g) + 1 + i \in 1 .. Len(w) /\ ~(Len(g) + 1 + i <= Len(g))
        /\ Len(g) + 1 + i - Len(g) - 1 = i
    BY <1>3, <1>5
  <2> QED
    BY <1>6, <2>1
<1>8. \A i \in 1 .. Len(g) : w[i] = g[i]
  BY <1>3, <1>5, <1>6
<1> QED
  BY <1>2, <1>4, <1>5, <1>6, <1>7, <1>8 DEF g, k

\* Two screens with the same rows above the cursor.
LEMMA SameWritten ==
  ASSUME NEW t, Good(t), NEW n, Good(n), n.gone = t.gone, n.cur_row = t.cur_row,
         \A r \in 0 .. t.cur_row : n.cell[r] = t.cell[r]
  PROVE  Written(n) = Written(t)
<1>1. \A r \in 1 .. t.cur_row + 1 : n.cell[r-1] = t.cell[r-1]
  BY GoodTypes, TextSizes
<1> QED
  BY <1>1 DEF Written

-----------------------------------------------------------------------------
(***************************************************************************)
(* The calls of vga_hal.c, on the roll.                                    *)
(***************************************************************************)
SameLine(n, t) == n.out = t.out /\ n.shell_line = t.shell_line

LEMMA Scrolled ==
  ASSUME NEW t, Good(t), t.cur_row = scroll_bottom
  PROVE  LET n == [hw_scroll_up_region(t) EXCEPT !.cur_col = 0, !.cur_row = scroll_bottom]
         IN  /\ Good(n) /\ SameLine(n, t) /\ n.slipped = t.slipped
             /\ n.cur_col = 0 /\ Written(n) = Append(Written(t), BlankRow)
<1> DEFINE rows == [r \in 0 .. VGA_ROWS - 1 |-> IF r < scroll_bottom THEN t.cell[r+1]
                                                ELSE IF r = scroll_bottom THEN BlankRow
                                                ELSE t.cell[r]]
           up   == Append(t.gone, t.cell[0])
           n    == [hw_scroll_up_region(t) EXCEPT !.cur_col = 0, !.cur_row = scroll_bottom]
<1>1. t \in TextState
  BY DEF Good
<1>2. n = [t EXCEPT !.gone = up, !.cell = rows, !.cur_col = 0, !.cur_row = scroll_bottom]
  BY <1>1 DEF hw_scroll_up_region, TextState
<1>3. rows \in [0 .. VGA_ROWS - 1 -> Row]
  <2>1. \A r \in 0 .. VGA_ROWS - 1 : r < scroll_bottom => r + 1 \in 0 .. VGA_ROWS - 1
    BY TextSizes
  <2> QED
    BY <2>1, GoodTypes, BlankIsRow
<1>4. t.cell[0] \in Row
  BY GoodTypes, TextSizes
<1>5. up \in Seq(Row) /\ Len(up) = Len(t.gone) + 1 /\ up[Len(t.gone) + 1] = t.cell[0]
      /\ \A i \in 1 .. Len(t.gone) : up[i] = t.gone[i]
  BY <1>4, GoodTypes
<1>6. /\ \A r \in 0 .. scroll_bottom : r < scroll_bottom => rows[r] = t.cell[r+1]
      /\ rows[scroll_bottom] = BlankRow
  BY TextSizes
<1> HIDE DEF rows, up, n
<1>7. /\ n.gone = up /\ n.cell = rows /\ n.cur_col = 0 /\ n.cur_row = scroll_bottom
      /\ n.out = t.out /\ n.shell_line = t.shell_line /\ n.slipped = t.slipped
  BY <1>1, <1>2 DEF TextState
<1>8. n \in TextState
  <2>1. 0 \in 0 .. VGA_COLS - 1 /\ scroll_bottom \in 0 .. VGA_ROWS - 1
    BY TextSizes
  <2> QED
    BY <1>1, <1>2, <1>3, <1>5, <2>1 DEF TextState
<1>9. Good(n)
  BY <1>7, <1>8, TextSizes DEF Good
<1>10. Written(n) = Append(Written(t), BlankRow)
  <2> DEFINE a == Written(n)
             w == Written(t)
             b == Append(w, BlankRow)
             m == Len(t.gone)
  <2>1. m \in Nat
    BY GoodTypes
  <2>2. /\ a \in Seq(Row) /\ Len(a) = m + scroll_bottom + 2
        /\ \A i \in 1 .. Len(a) : a[i] = IF i <= m + 1 THEN up[i] ELSE rows[i - (m + 1) - 1]
    <3>1. /\ a \in Seq(Row) /\ Len(a) = Len(n.gone) + n.cur_row + 1
          /\ \A i \in 1 .. Len(a) :
               a[i] = IF i <= Len(n.gone) THEN n.gone[i] ELSE n.cell[i - Len(n.gone) - 1]
      BY <1>9, WrittenIs
    <3>2. Len(n.gone) = m + 1 /\ Len(n.gone) + n.cur_row + 1 = m + scroll_bottom + 2
      BY <1>5, <1>7, <2>1, TextSizes
    <3> QED
      BY <1>7, <3>1, <3>2
  <2>3. /\ w \in Seq(Row) /\ Len(w) = m + scroll_bottom + 1
        /\ \A i \in 1 .. Len(w) : w[i] = IF i <= m THEN t.gone[i] ELSE t.cell[i - m - 1]
    BY WrittenIs
  <2> HIDE DEF a, w, m
  <2>4. b \in Seq(Row) /\ Len(b) = m + scroll_bottom + 2 /\ b[m + scroll_bottom + 2] = BlankRow
        /\ \A i \in 1 .. m + scroll_bottom + 1 : b[i] = w[i]
    BY <2>1, <2>3, BlankIsRow, TextSizes
  <2> HIDE DEF b
  <2>5. ASSUME NEW i \in 1 .. m + scroll_bottom + 2
        PROVE  a[i] = b[i]
    <3>1. CASE i <= m
      <4>1. a[i] = up[i] /\ b[i] = w[i] /\ w[i] = t.gone[i]
        BY <2>1, <2>2, <2>3, <2>4, <3>1, TextSizes
      <4> QED
        BY <1>5, <2>1, <3>1, <4>1 DEF m
    <3>2. CASE i = m + 1
      <4>1. a[i] = up[m + 1] /\ b[i] = w[i] /\ w[i] = t.cell[0]
        <5>1. i - m - 1 = 0 /\ i \in 1 .. m + scroll_bottom + 1 /\ ~(i <= m) /\ i <= m + 1
          BY <2>1, <3>2, TextSizes
        <5> QED
          BY <2>1, <2>2, <2>3, <2>4, <3>2, <5>1
      <4> QED
        BY <1>5, <4>1 DEF m
    <3>3. CASE i > m + 1 /\ i <= m + scroll_bottom + 1
      <4> DEFINE r == i - (m + 1) - 1
      <4>1. /\ r \in 0 .. scroll_bottom /\ r < scroll_bottom /\ r + 1 = i - m - 1
            /\ ~(i <= m) /\ ~(i <= m + 1)
            /\ i \in 1 .. m + scroll_bottom + 1
        BY <2>1, <3>3, TextSizes
      <4>2. a[i] = rows[r] /\ b[i] = w[i] /\ w[i] = t.cell[i - m - 1]
        BY <2>1, <2>2, <2>3, <2>4, <4>1
      <4> HIDE DEF r
      <4> QED
        BY <1>6, <4>1, <4>2
    <3>4. CASE i = m + scroll_bottom + 2
      <4>1. i - (m + 1) - 1 = scroll_bottom /\ ~(i <= m + 1)
        BY <2>1, <3>4, TextSizes
      <4> QED
        BY <1>6, <2>2, <2>4, <3>4, <4>1
    <3> QED
      BY <2>1, <3>1, <3>2, <3>3, <3>4, TextSizes
  <2> QED
    BY <2>2, <2>4, <2>5, SeqEqual DEF a, w, b
<1> QED
  BY <1>7, <1>9, <1>10 DEF n, SameLine

LEMMA NextRowIs ==
  ASSUME NEW t, Good(t)
  PROVE  LET n == NextRow(t)
         IN  /\ Good(n) /\ SameLine(n, t) /\ n.slipped = t.slipped
             /\ n.cur_col = 0 /\ Written(n) = Append(Written(t), BlankRow)
<1>1. CASE t.cur_row + 1 > scroll_bottom
  <2>1. t.cur_row = scroll_bottom
    BY <1>1, GoodTypes, TextSizes
  <2> QED
    BY <1>1, <2>1, Scrolled DEF NextRow
<1>2. CASE ~(t.cur_row + 1 > scroll_bottom)
  <2> DEFINE k == t.cur_row
             n == [t EXCEPT !.cur_col = 0, !.cur_row = k + 1]
             w == Written(t)
             m == Len(t.gone)
             b == Append(w, BlankRow)
  <2>1. t \in TextState /\ k \in Nat /\ k + 1 \in 0 .. scroll_bottom /\ k + 1 \in 0 .. VGA_ROWS - 1
        /\ 0 \in 0 .. VGA_COLS - 1
    BY <1>2, GoodTypes, TextSizes DEF Good
  <2>2. n = NextRow(t)
    BY <1>2 DEF NextRow
  <2>3. /\ n.gone = t.gone /\ n.cell = t.cell /\ n.cur_col = 0 /\ n.cur_row = k + 1
        /\ n.out = t.out /\ n.shell_line = t.shell_line /\ n.slipped = t.slipped
        /\ n \in TextState
    BY <2>1 DEF TextState
  <2> HIDE DEF n
  <2>4. Good(n)
    BY <2>1, <2>3 DEF Good
  <2>5. t.cell[k + 1] = BlankRow
    BY <2>1 DEF Good
  <2>6. m \in Nat
    BY GoodTypes
  <2>7. /\ Written(n) \in Seq(Row) /\ Len(Written(n)) = m + k + 2
        /\ \A i \in 1 .. Len(Written(n)) :
             Written(n)[i] = IF i <= m THEN t.gone[i] ELSE t.cell[i - m - 1]
    <3>1. /\ Written(n) \in Seq(Row) /\ Len(Written(n)) = Len(n.gone) + n.cur_row + 1
          /\ \A i \in 1 .. Len(Written(n)) :
               Written(n)[i] = IF i <= Len(n.gone) THEN n.gone[i] ELSE n.cell[i - Len(n.gone) - 1]
      BY <2>4, WrittenIs
    <3>2. Len(n.gone) + n.cur_row + 1 = m + k + 2
      BY <2>1, <2>3, <2>6
    <3> QED
      BY <2>3, <3>1, <3>2
  <2>8. /\ w \in Seq(Row) /\ Len(w) = m + k + 1
        /\ \A i \in 1 .. Len(w) : w[i] = IF i <= m THEN t.gone[i] ELSE t.cell[i - m - 1]
    BY WrittenIs
  <2> HIDE DEF w, m, k
  <2>9. b \in Seq(Row) /\ Len(b) = m + k + 2 /\ b[m + k + 2] = BlankRow
        /\ \A i \in 1 .. m + k + 1 : b[i] = w[i]
    BY <2>1, <2>6, <2>8, BlankIsRow
  <2> HIDE DEF b
  <2>10. ASSUME NEW i \in 1 .. m + k + 2
         PROVE  Written(n)[i] = b[i]
    <3>1. CASE i <= m + k + 1
      <4>1. i \in 1 .. m + k + 1
        BY <2>1, <2>6, <3>1
      <4> QED
        BY <2>7, <2>8, <2>9, <4>1
    <3>2. CASE i = m + k + 2
      <4>1. i - m - 1 = k + 1 /\ ~(i <= m)
        BY <2>1, <2>6, <3>2
      <4> QED
        BY <2>5, <2>7, <2>9, <3>2, <4>1
    <3> QED
      BY <2>1, <2>6, <3>1, <3>2
  <2>11. Written(n) = b
    BY <2>7, <2>9, <2>10, SeqEqual
  <2> QED
    BY <2>2, <2>3, <2>4, <2>11 DEF SameLine, b, w
<1> QED
  BY <1>1, <1>2

\* The last row of a roll with one symbol changed.
Marked(rows, c, s) == [rows EXCEPT ![Len(rows)][c] = s]

LEMMA WriteCell ==
  ASSUME NEW t, Good(t), NEW c \in 0 .. VGA_COLS - 1, NEW s \in Symbols \cup {SPACE}
  PROVE  LET n == hw_write_cell(t, c, t.cur_row, s)
         IN  /\ Good(n) /\ SameLine(n, t) /\ n.slipped = t.slipped
             /\ n.cur_col = t.cur_col /\ n.cur_row = t.cur_row
             /\ Written(n) = Marked(Written(t), c, s)
<1> DEFINE k   == t.cur_row
           row == [t.cell[k] EXCEPT ![c] = s]
           new == [t.cell EXCEPT ![k] = row]
           n   == hw_write_cell(t, c, k, s)
           w   == Written(t)
           m   == Len(t.gone)
           v   == [w EXCEPT ![Len(w)] = row]
<1>1. t \in TextState /\ k \in 0 .. scroll_bottom /\ k \in 0 .. VGA_ROWS - 1 /\ k \in Nat
      /\ t.cell \in [0 .. VGA_ROWS - 1 -> Row]
  BY GoodTypes DEF Good
<1>2. row \in Row
  BY <1>1 DEF Row
<1>3. n = [t EXCEPT !.cell = new]
  BY <1>1 DEF hw_write_cell, TextState
<1> HIDE DEF row
<1>4. /\ new \in [0 .. VGA_ROWS - 1 -> Row] /\ new[k] = row
      /\ \A r \in 0 .. VGA_ROWS - 1 : r # k => new[r] = t.cell[r]
  BY <1>1, <1>2
<1> HIDE DEF new, n
<1>5. /\ n.gone = t.gone /\ n.cell = new /\ n.cur_col = t.cur_col /\ n.cur_row = k
      /\ n.out = t.out /\ n.shell_line = t.shell_line /\ n.slipped = t.slipped
      /\ n \in TextState
  BY <1>1, <1>3, <1>4 DEF TextState
<1>6. Good(n)
  <2>1. \A r \in 0 .. scroll_bottom : r > k => r # k /\ r \in 0 .. VGA_ROWS - 1
    BY <1>1, TextSizes
  <2> QED
    BY <1>1, <1>4, <1>5, <2>1 DEF Good
<1>7. m \in Nat
  BY GoodTypes
<1>8. /\ w \in Seq(Row) /\ Len(w) = m + k + 1
      /\ \A i \in 1 .. Len(w) : w[i] = IF i <= m THEN t.gone[i] ELSE t.cell[i - m - 1]
  BY WrittenIs
<1>9. /\ Written(n) \in Seq(Row) /\ Len(Written(n)) = m + k + 1
      /\ \A i \in 1 .. Len(Written(n)) :
           Written(n)[i] = IF i <= m THEN t.gone[i] ELSE new[i - m - 1]
  BY <1>5, <1>6, WrittenIs
<1>10. Marked(w, c, s) = v
  <2>1. Len(w) \in 1 .. Len(w) /\ Len(w) - m - 1 = k /\ ~(Len(w) <= m)
    BY <1>1, <1>7, <1>8
  <2>2. w[Len(w)] = t.cell[k]
    BY <1>8, <2>1
  <2> QED
    BY <2>2 DEF Marked, row
<1> HIDE DEF w, m, k
<1>11. v \in Seq(Row) /\ Len(v) = m + k + 1 /\ v[m + k + 1] = row
       /\ \A i \in 1 .. m + k + 1 : i # m + k + 1 => v[i] = w[i]
  <2>1. m + k + 1 \in 1 .. Len(w)
    BY <1>1, <1>7, <1>8
  <2> QED
    BY <1>2, <1>8, <2>1, ExceptSeq
<1> HIDE DEF v
<1>12. ASSUME NEW i \in 1 .. m + k + 1
       PROVE  Written(n)[i] = v[i]
  <2>1. CASE i = m + k + 1
    <3>1. i - m - 1 = k /\ ~(i <= m)
      BY <1>1, <1>7, <2>1
    <3> QED
      BY <1>4, <1>9, <1>11, <2>1, <3>1
  <2>2. CASE i # m + k + 1 /\ i <= m
    BY <1>8, <1>9, <1>11, <2>2
  <2>3. CASE i # m + k + 1 /\ ~(i <= m)
    <3>1. i - m - 1 \in 0 .. VGA_ROWS - 1 /\ i - m - 1 # k
      BY <1>1, <1>7, <2>3, TextSizes
    <3>2. new[i - m - 1] = t.cell[i - m - 1]
      BY <1>4, <3>1
    <3> QED
      BY <1>8, <1>9, <1>11, <2>3, <3>2
  <2> QED
    BY <2>1, <2>2, <2>3
<1>13. Written(n) = v
  BY <1>9, <1>11, <1>12, SeqEqual
<1> QED
  BY <1>5, <1>6, <1>10, <1>13 DEF SameLine, k, w, n

\* A symbol is written, and the row that it fills is followed by a new one.
RowsPut(r, c, s, r2, c2) ==
  IF c + 1 = VGA_COLS THEN r2 = Append(Marked(r, c, s), BlankRow) /\ c2 = 0
                      ELSE r2 = Marked(r, c, s) /\ c2 = c + 1

LEMMA PutIs ==
  ASSUME NEW t, Good(t), NEW s \in Symbols
  PROVE  LET n == advance_cursor(hw_write_cell(t, t.cur_col, t.cur_row, s))
         IN  /\ Good(n) /\ SameLine(n, t) /\ n.slipped = t.slipped
             /\ RowsPut(Written(t), t.cur_col, s, Written(n), n.cur_col)
<1> DEFINE c == t.cur_col
           h == hw_write_cell(t, c, t.cur_row, s)
           n == advance_cursor(h)
<1>1. c \in 0 .. VGA_COLS - 1
  BY GoodTypes
<1>2. /\ Good(h) /\ SameLine(h, t) /\ h.slipped = t.slipped
      /\ h.cur_col = c /\ h.cur_row = t.cur_row
      /\ Written(h) = Marked(Written(t), c, s)
  BY <1>1, WriteCell
<1> HIDE DEF h, c
<1>3. CASE c + 1 = VGA_COLS
  <2>1. n = NextRow(h)
    BY <1>1, <1>2, <1>3, TextSizes DEF advance_cursor
  <2>2. /\ Good(n) /\ SameLine(n, h) /\ n.slipped = h.slipped
        /\ n.cur_col = 0 /\ Written(n) = Append(Written(h), BlankRow)
    BY <1>2, <2>1, NextRowIs
  <2> QED
    BY <1>2, <1>3, <2>2 DEF RowsPut, SameLine, h, c
<1>4. CASE c + 1 # VGA_COLS
  <2>1. n = [h EXCEPT !.cur_col = c + 1] /\ c + 1 \in 0 .. VGA_COLS - 1
    <3>1. h \in TextState
      BY <1>2 DEF Good
    <3>2. ~(h.cur_col + 1 >= VGA_COLS) /\ c + 1 \in 0 .. VGA_COLS - 1
      BY <1>1, <1>2, <1>4, TextSizes
    <3> QED
      BY <1>2, <3>1, <3>2 DEF advance_cursor, TextState
  <2>2. /\ n \in TextState /\ n.cell = h.cell /\ n.gone = h.gone /\ n.cur_row = h.cur_row
        /\ SameLine(n, h) /\ n.slipped = h.slipped /\ n.cur_col = c + 1
    BY <1>2, <2>1 DEF Good, TextState, SameLine
  <2> HIDE DEF n
  <2>3. Good(n)
    BY <1>2, <2>2 DEF Good
  <2>4. Written(n) = Written(h)
    BY <1>2, <2>2, <2>3, SameWritten
  <2> QED
    BY <1>2, <1>4, <2>2, <2>3, <2>4 DEF RowsPut, SameLine, n, h, c
<1> QED
  BY <1>3, <1>4

LEMMA EraseIs ==
  ASSUME NEW t, Good(t), t.cur_col > 0
  PROVE  LET n == Backspace(t)
         IN  /\ Good(n) /\ SameLine(n, t) /\ n.slipped = t.slipped
             /\ n.cur_col = t.cur_col - 1
             /\ Written(n) = Marked(Written(t), t.cur_col - 1, SPACE)
<1> DEFINE c == t.cur_col - 1
           h == hw_write_cell(t, c, t.cur_row, SPACE)
           n == [h EXCEPT !.cur_col = c]
<1>1. c \in 0 .. VGA_COLS - 1 /\ SPACE \in Symbols \cup {SPACE}
  BY GoodTypes, TextSizes
<1>2. /\ Good(h) /\ SameLine(h, t) /\ h.slipped = t.slipped
      /\ h.cur_col = t.cur_col /\ h.cur_row = t.cur_row
      /\ Written(h) = Marked(Written(t), c, SPACE)
  BY <1>1, WriteCell
<1>3. Backspace(t) = n
  <2>1. t.cur_col # 0
    BY GoodTypes
  <2>2. h \in TextState
    BY <1>2 DEF Good
  <2> QED
    BY <1>2, <2>1, <2>2 DEF Backspace, TextState
<1> HIDE DEF h, c
<1>4. /\ n \in TextState /\ n.cell = h.cell /\ n.gone = h.gone /\ n.cur_row = h.cur_row
      /\ SameLine(n, h) /\ n.slipped = h.slipped /\ n.cur_col = c
  BY <1>1, <1>2 DEF Good, TextState, SameLine
<1> HIDE DEF n
<1>5. Good(n)
  BY <1>2, <1>4 DEF Good
<1>6. Written(n) = Written(h)
  BY <1>2, <1>4, <1>5, SameWritten
<1> QED
  BY <1>2, <1>3, <1>4, <1>5, <1>6 DEF SameLine, c

LEMMA ScreenCleared ==
  ASSUME NEW t, Good(t)
  PROVE  LET n == vga_clear(t)
         IN  /\ Good(n) /\ SameLine(n, t) /\ n.slipped = t.slipped
             /\ n.cur_col = 0 /\ Written(n) = << BlankRow >>
<1> DEFINE blank == [r \in 0 .. VGA_ROWS - 1 |-> BlankRow]
           n     == vga_clear(t)
<1>1. blank \in [0 .. VGA_ROWS - 1 -> Row] /\ \A r \in 0 .. VGA_ROWS - 1 : blank[r] = BlankRow
  BY BlankIsRow
<1>2. n = [t EXCEPT !.cell = blank, !.cur_col = 0, !.cur_row = 0, !.gone = << >>]
  BY DEF vga_clear
<1> HIDE DEF blank, n
<1>3. t \in TextState /\ 0 \in 0 .. VGA_COLS - 1 /\ 0 \in 0 .. VGA_ROWS - 1 /\ << >> \in Seq(Row)
  BY TextSizes DEF Good
<1>4. /\ n \in TextState /\ n.cell = blank /\ n.gone = << >> /\ n.cur_row = 0 /\ n.cur_col = 0
      /\ n.out = t.out /\ n.shell_line = t.shell_line /\ n.slipped = t.slipped
  BY <1>1, <1>2, <1>3 DEF TextState
<1>5. Good(n)
  <2>1. \A r \in 0 .. scroll_bottom : r \in 0 .. VGA_ROWS - 1
    BY TextSizes
  <2> QED
    BY <1>1, <1>4, <2>1, TextSizes DEF Good
<1>6. Len(n.gone) = 0
  BY <1>4
<1>7. Written(n) \in Seq(Row) /\ Len(Written(n)) = 1 /\ Written(n)[1] = BlankRow
  <2>1. Len(Written(n)) = Len(n.gone) + n.cur_row + 1 /\ Written(n) \in Seq(Row)
        /\ \A i \in 0 .. n.cur_row : Written(n)[Len(n.gone) + 1 + i] = n.cell[i]
    BY <1>5, WrittenIs
  <2>2. 0 \in 0 .. n.cur_row /\ Len(n.gone) + 1 + 0 = 1 /\ Len(n.gone) + n.cur_row + 1 = 1
    BY <1>4, <1>6
  <2>3. n.cell[0] = BlankRow
    BY <1>1, <1>3, <1>4
  <2> QED
    BY <2>1, <2>2, <2>3
<1>8. << BlankRow >> \in Seq(Row) /\ Len(<< BlankRow >>) = 1 /\ << BlankRow >>[1] = BlankRow
  BY BlankIsRow
<1>9. Written(n) = << BlankRow >>
  BY <1>7, <1>8, SeqEqual
<1> QED
  BY <1>4, <1>5, <1>9 DEF n, SameLine

LEMMA BarIs ==
  ASSUME NEW t, Good(t)
  PROVE  LET n == render_status_bar(t)
         IN  /\ Good(n) /\ SameLine(n, t) /\ n.slipped = t.slipped
             /\ n.cur_col = t.cur_col /\ Written(n) = Written(t)
<1> DEFINE bar == [c \in 0 .. VGA_COLS - 1 |-> BAR]
           new == [t.cell EXCEPT ![VGA_ROWS - 1] = bar]
           n   == render_status_bar(t)
<1>1. t \in TextState /\ t.cell \in [0 .. VGA_ROWS - 1 -> Row]
  BY GoodTypes DEF Good
<1>2. bar \in Row
  BY DEF Row
<1>3. n = [t EXCEPT !.cell = new]
  BY <1>1 DEF render_status_bar, vga_goto, TextState
<1> HIDE DEF bar, n
<1>4. new \in [0 .. VGA_ROWS - 1 -> Row] /\ \A r \in 0 .. scroll_bottom : new[r] = t.cell[r]
  <2>1. \A r \in 0 .. scroll_bottom : r \in 0 .. VGA_ROWS - 1 /\ r # VGA_ROWS - 1
    BY TextSizes
  <2> QED
    BY <1>1, <1>2, <2>1
<1> HIDE DEF new
<1>5. /\ n \in TextState /\ n.cell = new /\ n.gone = t.gone /\ n.cur_row = t.cur_row
      /\ n.cur_col = t.cur_col
      /\ n.out = t.out /\ n.shell_line = t.shell_line /\ n.slipped = t.slipped
  BY <1>1, <1>3, <1>4 DEF TextState
<1>6. Good(n)
  BY <1>4, <1>5 DEF Good
<1>7. \A r \in 0 .. t.cur_row : n.cell[r] = t.cell[r]
  <2>1. \A r \in 0 .. t.cur_row : r \in 0 .. scroll_bottom
    BY GoodTypes, TextSizes
  <2> QED
    BY <1>4, <1>5, <2>1
<1>8. Written(n) = Written(t)
  BY <1>5, <1>6, <1>7, SameWritten
<1> QED
  BY <1>5, <1>6, <1>8 DEF n, SameLine

-----------------------------------------------------------------------------
(***************************************************************************)
(* Places on the roll.                                                     *)
(***************************************************************************)
PlaceOf(rows, c)   == (Len(rows) - 1) * VGA_COLS + c
Symbol(rows, n)    == rows[n \div VGA_COLS + 1][n % VGA_COLS]

LEMMA Divided ==
  ASSUME NEW w \in Nat, w >= 1, NEW n \in Nat
  PROVE  n \div w \in Nat /\ n % w \in 0 .. w - 1 /\ n = (n \div w) * w + (n % w)
<1>1. \A m \in Nat \ {0}, a \in Nat : a = m * (a \div m) + (a % m)
  BY Z3
<1>2. n \div w \in Nat /\ n % w \in 0 .. w - 1
  OBVIOUS
<1>3. w \in Nat \ {0}
  OBVIOUS
<1>4. n = w * (n \div w) + (n % w)
  BY <1>1, <1>3, Zenon
<1>5. \A q, r \in Nat : n = w * q + r => n = q * w + r
  OBVIOUS
<1>6. n % w \in Nat
  OBVIOUS
<1>7. n = (n \div w) * w + (n % w)
  BY <1>2, <1>4, <1>5, <1>6, Zenon
<1> QED
  BY <1>2, <1>7, Zenon

LEMMA Ordered ==
  ASSUME NEW w \in Nat, w >= 1, NEW q \in Int, NEW p \in Int, q < p
  PROVE  q * w + w <= p * w
<1> SUFFICES ASSUME NEW d \in Nat, p = q + 1 + d PROVE q * w + w <= p * w
  <2>1. p - q - 1 \in Nat /\ p = q + 1 + (p - q - 1)
    OBVIOUS
  <2> QED
    BY <2>1
<1>1. p * w = q * w + w + d * w
  OBVIOUS
<1>2. d * w \in Nat /\ q * w \in Int
  OBVIOUS
<1> QED
  BY <1>1, <1>2

\* A place before column c of row m + 1 is in an earlier row or an earlier column.
LEMMA RowsBefore ==
  ASSUME NEW w \in Nat, w >= 1, NEW m \in Nat, NEW c \in 0 .. w - 1, NEW n \in Nat, n < m * w + c
  PROVE  n \div w <= m /\ (n \div w = m => n % w < c)
<1> DEFINE q == n \div w
           r == n % w
<1>1. q \in Nat /\ r \in 0 .. w - 1 /\ n = q * w + r
  BY Divided
<1> HIDE DEF q, r
<1>2. q * w \in Nat /\ m * w \in Nat
  BY <1>1
<1>3. ~(m < q)
  <2> SUFFICES ASSUME m < q PROVE FALSE
    OBVIOUS
  <2>1. m * w + w <= q * w
    BY <1>1, Ordered
  <2> QED
    BY <1>1, <1>2, <2>1
<1>4. q = m => r < c
  <2> SUFFICES ASSUME q = m PROVE r < c
    OBVIOUS
  <2>1. q * w = m * w
    OBVIOUS
  <2> QED
    BY <1>1, <1>2, <2>1
<1> QED
  BY <1>1, <1>3, <1>4 DEF q, r

LEMMA OnRow ==
  ASSUME NEW w \in Nat, w >= 1, NEW m \in Nat, NEW c \in 0 .. w - 1
  PROVE  (m * w + c) \div w = m /\ (m * w + c) % w = c
<1> DEFINE n == m * w + c
           q == n \div w
           r == n % w
<1>1. n \in Nat /\ m * w \in Nat
  OBVIOUS
<1>2. q \in Nat /\ r \in 0 .. w - 1 /\ n = q * w + r
  BY <1>1, Divided
<1> HIDE DEF q, r
<1>3. q * w \in Nat
  BY <1>2
<1>4. ~(m < q)
  <2> SUFFICES ASSUME m < q PROVE FALSE
    OBVIOUS
  <2>1. m * w + w <= q * w
    BY <1>2, Ordered
  <2> QED
    BY <1>1, <1>2, <1>3, <2>1
<1>5. ~(q < m)
  <2> SUFFICES ASSUME q < m PROVE FALSE
    OBVIOUS
  <2>1. q * w + w <= m * w
    BY <1>2, Ordered
  <2> QED
    BY <1>1, <1>2, <1>3, <2>1
<1>6. q = m
  BY <1>2, <1>4, <1>5
<1>7. r = c
  BY <1>1, <1>2, <1>6
<1> QED
  BY <1>6, <1>7 DEF q, r

LEMMA MarkedIs ==
  ASSUME NEW rows \in Seq(Row), Len(rows) >= 1,
         NEW c \in 0 .. VGA_COLS - 1, NEW s \in Symbols \cup {SPACE}
  PROVE  /\ Marked(rows, c, s) \in Seq(Row) /\ Len(Marked(rows, c, s)) = Len(rows)
         /\ \A i \in 1 .. Len(rows) : i # Len(rows) => Marked(rows, c, s)[i] = rows[i]
         /\ Marked(rows, c, s)[Len(rows)][c] = s
         /\ \A d \in 0 .. VGA_COLS - 1 : d # c => Marked(rows, c, s)[Len(rows)][d] = rows[Len(rows)][d]
<1> DEFINE l   == Len(rows)
           row == [rows[l] EXCEPT ![c] = s]
           v   == [rows EXCEPT ![l] = row]
<1>1. l \in 1 .. Len(rows) /\ rows[l] \in Row
  OBVIOUS
<1>2. row \in Row /\ row[c] = s /\ \A d \in 0 .. VGA_COLS - 1 : d # c => row[d] = rows[l][d]
  BY <1>1 DEF Row
<1>3. Marked(rows, c, s) = v
  BY DEF Marked
<1> HIDE DEF row, l
<1>4. /\ v \in Seq(Row) /\ Len(v) = Len(rows)
      /\ \A j \in 1 .. Len(rows) : v[j] = IF j = l THEN row ELSE rows[j]
  BY <1>1, <1>2, ExceptSeq
<1> HIDE DEF v
<1> QED
  BY <1>1, <1>2, <1>3, <1>4 DEF l

LEMMA PutPlaces ==
  ASSUME NEW rows \in Seq(Row), Len(rows) >= 1,
         NEW c \in 0 .. VGA_COLS - 1, NEW s \in Symbols,
         NEW r2, NEW c2, RowsPut(rows, c, s, r2, c2)
  PROVE  /\ PlaceOf(rows, c) \in Nat /\ PlaceOf(r2, c2) = PlaceOf(rows, c) + 1
         /\ Symbol(r2, PlaceOf(rows, c)) = s
         /\ \A n \in 0 .. PlaceOf(rows, c) - 1 : Symbol(r2, n) = Symbol(rows, n)
<1> DEFINE v == Marked(rows, c, s)
           m == Len(rows) - 1
           p == m * VGA_COLS + c
<1>1. /\ v \in Seq(Row) /\ Len(v) = Len(rows)
      /\ \A i \in 1 .. Len(rows) : i # Len(rows) => v[i] = rows[i]
      /\ v[Len(rows)][c] = s
      /\ \A d \in 0 .. VGA_COLS - 1 : d # c => v[Len(rows)][d] = rows[Len(rows)][d]
  BY MarkedIs
<1>2. m \in Nat /\ Len(rows) = m + 1 /\ Len(rows) \in Nat /\ m * VGA_COLS \in Nat
      /\ (m + 1) * VGA_COLS = m * VGA_COLS + VGA_COLS
  <2>1. m \in Nat /\ Len(rows) = m + 1 /\ Len(rows) \in Nat
    OBVIOUS
  <2> HIDE DEF m
  <2> QED
    BY <2>1, TextSizes
<1>3. \/ r2 = Append(v, BlankRow) /\ c + 1 = VGA_COLS /\ c2 = 0
      \/ r2 = v /\ c2 = c + 1
  BY DEF RowsPut
<1> HIDE DEF v
<1>4. \A i \in 1 .. Len(rows) : r2[i] = v[i]
  <2>1. CASE r2 = Append(v, BlankRow)
    BY <1>1, <2>1, BlankIsRow
  <2>2. CASE r2 = v
    BY <2>2
  <2> QED
    BY <1>3, <2>1, <2>2
<1>5. PlaceOf(r2, c2) = p + 1
  <2>1. CASE r2 = Append(v, BlankRow) /\ c + 1 = VGA_COLS /\ c2 = 0
    <3>1. Len(r2) - 1 = m + 1
      BY <1>1, <1>2, <2>1, BlankIsRow
    <3>2. PlaceOf(r2, c2) = (m + 1) * VGA_COLS + 0
      BY <2>1, <3>1 DEF PlaceOf
    <3> HIDE DEF m
    <3> QED
      BY <1>2, <2>1, <3>2, TextSizes
  <2>2. CASE r2 = v /\ c2 = c + 1
    <3>1. PlaceOf(r2, c2) = m * VGA_COLS + (c + 1)
      BY <1>1, <1>2, <2>2 DEF PlaceOf
    <3> HIDE DEF m
    <3> QED
      BY <1>2, <3>1, TextSizes
  <2> QED
    BY <1>3, <2>1, <2>2
<1>6. PlaceOf(rows, c) = p
  BY DEF PlaceOf
<1> HIDE DEF m
<1>7. p \in Nat /\ p \div VGA_COLS = m /\ p % VGA_COLS = c
  BY <1>2, OnRow, TextSizes
<1>8. Symbol(r2, p) = s
  <2>1. Symbol(r2, p) = r2[m + 1][c]
    BY <1>7 DEF Symbol
  <2>2. m + 1 \in 1 .. Len(rows)
    BY <1>2
  <2> QED
    BY <1>1, <1>2, <1>4, <2>1, <2>2
<1>9. ASSUME NEW n \in 0 .. p - 1
      PROVE  Symbol(r2, n) = Symbol(rows, n)
  <2> DEFINE q == n \div VGA_COLS
             d == n % VGA_COLS
  <2>1. q <= m /\ (q = m => d < c)
    <3>1. n \in Nat /\ n < m * VGA_COLS + c
      BY <1>7
    <3> QED
      BY <1>2, <3>1, RowsBefore, TextSizes
  <2>2. q \in Nat /\ d \in 0 .. VGA_COLS - 1
    BY <1>7, Divided, TextSizes
  <2> HIDE DEF q, d
  <2>3. q + 1 \in 1 .. Len(rows)
    BY <1>2, <2>1, <2>2
  <2>4. r2[q + 1][d] = rows[q + 1][d]
    <3>1. CASE q = m
      <4>1. d # c
        BY <2>1, <2>2, <3>1
      <4> QED
        BY <1>1, <1>2, <1>4, <2>2, <2>3, <3>1, <4>1
    <3>2. CASE q # m
      <4>1. q + 1 # Len(rows)
        BY <1>2, <2>2, <3>2
      <4> QED
        BY <1>1, <1>4, <2>3, <4>1
    <3> QED
      BY <3>1, <3>2
  <2> QED
    BY <2>4 DEF Symbol, q, d
<1> QED
  BY <1>5, <1>6, <1>7, <1>8, <1>9

LEMMA ErasePlaces ==
  ASSUME NEW rows \in Seq(Row), Len(rows) >= 1,
         NEW c \in 0 .. VGA_COLS - 1, c > 0, NEW r2, r2 = Marked(rows, c - 1, SPACE)
  PROVE  /\ PlaceOf(rows, c) \in Nat /\ PlaceOf(r2, c - 1) = PlaceOf(rows, c) - 1
         /\ \A n \in 0 .. PlaceOf(rows, c) - 2 : Symbol(r2, n) = Symbol(rows, n)
<1> DEFINE m == Len(rows) - 1
           b == c - 1
           p == m * VGA_COLS + b
<1>0. b \in 0 .. VGA_COLS - 1 /\ SPACE \in Symbols \cup {SPACE}
  BY TextSizes
<1>1. /\ r2 \in Seq(Row) /\ Len(r2) = Len(rows)
      /\ \A i \in 1 .. Len(rows) : i # Len(rows) => r2[i] = rows[i]
      /\ \A d \in 0 .. VGA_COLS - 1 : d # b => r2[Len(rows)][d] = rows[Len(rows)][d]
  BY <1>0, MarkedIs
<1>2. m \in Nat /\ Len(rows) = m + 1 /\ Len(rows) \in Nat /\ m * VGA_COLS \in Nat
  <2>1. m \in Nat /\ Len(rows) = m + 1 /\ Len(rows) \in Nat
    OBVIOUS
  <2> HIDE DEF m
  <2> QED
    BY <2>1, TextSizes
<1>3. PlaceOf(r2, c - 1) = p /\ PlaceOf(rows, c) = m * VGA_COLS + c
  BY <1>1 DEF PlaceOf
<1> HIDE DEF m
<1>4. p \in Nat /\ PlaceOf(rows, c) = p + 1
  BY <1>0, <1>2, <1>3, TextSizes
<1>5. ASSUME NEW n \in 0 .. p - 1
      PROVE  Symbol(r2, n) = Symbol(rows, n)
  <2> DEFINE q == n \div VGA_COLS
             d == n % VGA_COLS
  <2>1. q <= m /\ (q = m => d < b)
    <3>1. n \in Nat /\ n < m * VGA_COLS + b
      BY <1>4
    <3> QED
      BY <1>0, <1>2, <3>1, RowsBefore, TextSizes
  <2>2. q \in Nat /\ d \in 0 .. VGA_COLS - 1
    BY <1>4, Divided, TextSizes
  <2> HIDE DEF q, d
  <2>3. q + 1 \in 1 .. Len(rows)
    BY <1>2, <2>1, <2>2
  <2>4. r2[q + 1][d] = rows[q + 1][d]
    <3>1. CASE q = m
      <4>1. d # b
        BY <1>0, <2>1, <2>2, <3>1
      <4> QED
        BY <1>1, <1>2, <2>2, <3>1, <4>1
    <3>2. CASE q # m
      <4>1. q + 1 # Len(rows)
        BY <1>2, <2>2, <3>2
      <4> QED
        BY <1>1, <2>3, <4>1
    <3> QED
      BY <3>1, <3>2
  <2> QED
    BY <2>4 DEF Symbol, q, d
<1> HIDE DEF p
<1>6. PlaceOf(rows, c) - 2 = p - 1 /\ PlaceOf(rows, c) - 1 = p
  BY <1>4
<1> QED
  BY <1>3, <1>4, <1>5, <1>6

-----------------------------------------------------------------------------
(***************************************************************************)
(* The line before the cursor.                                             *)
(***************************************************************************)
\* The prompt and then l stand before the cursor.
Stands(t, l) ==
  LET p == PlaceOf(Written(t), t.cur_col)
  IN  /\ p >= Len(l) + 1 /\ Symbol(Written(t), p - Len(l) - 1) = ">"
      /\ \A i \in 1 .. Len(l) : Symbol(Written(t), p - Len(l) + i - 1) = l[i]

\* The prompt is still to be printed, after some lines.
ToPrompt(t) ==
  /\ Len(t.out) >= 1 /\ t.out[Len(t.out)] = ">" /\ t.shell_line = << >>
  /\ \A i \in 1 .. Len(t.out) : i # Len(t.out) => t.out[i] \in {"*", "^", "newline", "clear"}

\* The last character of the line, or its erasure, is still to be printed.
ToEcho(t) ==
  \E c \in LETTERS, l \in Seq(LETTERS) :
    \/ t.out = <<c>> /\ t.shell_line = Append(l, c) /\ (~t.slipped => Stands(t, l))
    \/ t.out = <<"backspace">> /\ t.shell_line = l /\ (~t.slipped => Stands(t, Append(l, c)))

TextInv(t) ==
  /\ Good(t)
  /\ \/ t.out = << >> /\ (~t.slipped => Stands(t, t.shell_line))
     \/ ToPrompt(t)
     \/ ToEcho(t)

LEMMA PlaceTyped ==
  ASSUME NEW t, Good(t)
  PROVE  /\ Written(t) \in Seq(Row) /\ Len(Written(t)) >= 1 /\ t.cur_col \in 0 .. VGA_COLS - 1
         /\ PlaceOf(Written(t), t.cur_col) \in Nat
<1>1. t.gone \in Seq(Row) /\ t.cur_row \in 0 .. scroll_bottom /\ t.cur_col \in 0 .. VGA_COLS - 1
  BY GoodTypes
<1>2. Written(t) \in Seq(Row) /\ Len(Written(t)) = Len(t.gone) + t.cur_row + 1
  BY WrittenIs
<1> DEFINE m == Len(Written(t)) - 1
<1>3. m \in Nat /\ Len(Written(t)) >= 1
  BY <1>1, <1>2, TextSizes
<1> HIDE DEF m
<1>4. m * VGA_COLS + t.cur_col \in Nat
  <2>1. m * VGA_COLS \in Nat
    BY <1>3, TextSizes
  <2> QED
    BY <1>1, <2>1, TextSizes
<1> QED
  BY <1>1, <1>2, <1>3, <1>4 DEF PlaceOf, m

\* One more symbol.
LEMMA PutStands ==
  ASSUME NEW t, Good(t), NEW s \in Symbols, NEW n,
         n = advance_cursor(hw_write_cell(t, t.cur_col, t.cur_row, s))
  PROVE  /\ s = ">" => Stands(n, << >>)
         /\ \A l \in Seq(LETTERS) : s \in LETTERS /\ Stands(t, l) => Stands(n, Append(l, s))
<1> DEFINE w  == Written(t)
           w2 == Written(n)
           p  == PlaceOf(w, t.cur_col)
           p2 == PlaceOf(w2, n.cur_col)
<1>1. /\ p \in Nat /\ p2 = p + 1 /\ Symbol(w2, p) = s
      /\ \A i \in 0 .. p - 1 : Symbol(w2, i) = Symbol(w, i)
  <2>1. RowsPut(w, t.cur_col, s, w2, n.cur_col)
    BY PutIs
  <2> QED
    BY <2>1, PlaceTyped, PutPlaces
<1> HIDE DEF w, w2, p, p2
<1>2. ASSUME s = ">" PROVE Stands(n, << >>)
  <2>1. Len(<< >>) = 0 /\ p2 - 0 - 1 = p /\ p2 >= 0 + 1
    BY <1>1
  <2> QED
    BY <1>1, <1>2, <2>1 DEF Stands, w2, p2
<1>3. ASSUME NEW l \in Seq(LETTERS), s \in LETTERS, Stands(t, l)
      PROVE  Stands(n, Append(l, s))
  <2> DEFINE k == Len(l)
             m == Append(l, s)
  <2>1. k \in Nat /\ Len(m) = k + 1 /\ m[k + 1] = s /\ \A i \in 1 .. k : m[i] = l[i]
    BY <1>3
  <2>2. /\ p >= k + 1 /\ Symbol(w, p - k - 1) = ">"
        /\ \A i \in 1 .. k : Symbol(w, p - k + i - 1) = l[i]
    BY <1>3 DEF Stands, w, p
  <2> HIDE DEF k, m
  <2>3. p2 >= (k + 1) + 1 /\ p2 - (k + 1) - 1 = p - k - 1 /\ p - k - 1 \in 0 .. p - 1
    BY <1>1, <2>1, <2>2
  <2>4. Symbol(w2, p2 - (k + 1) - 1) = ">"
    BY <1>1, <2>2, <2>3
  <2>5. ASSUME NEW i \in 1 .. k + 1
        PROVE  Symbol(w2, p2 - (k + 1) + i - 1) = m[i]
    <3>1. p2 - (k + 1) + i - 1 = p - k + i - 1
      BY <1>1, <2>1
    <3>2. CASE i = k + 1
      <4>1. p - k + i - 1 = p
        BY <1>1, <2>1, <3>2
      <4> QED
        BY <1>1, <2>1, <3>1, <3>2, <4>1
    <3>3. CASE i # k + 1
      <4>1. i \in 1 .. k /\ p - k + i - 1 \in 0 .. p - 1
        BY <1>1, <2>1, <2>2, <3>3
      <4> QED
        BY <1>1, <2>1, <2>2, <3>1, <4>1
    <3> QED
      BY <3>2, <3>3
  <2> QED
    BY <2>1, <2>3, <2>4, <2>5 DEF Stands, w2, p2, m
<1> QED
  BY <1>2, <1>3

\* One less.
LEMMA EraseStands ==
  ASSUME NEW t, Good(t), t.cur_col > 0, NEW n, n = Backspace(t),
         NEW l \in Seq(LETTERS), NEW c \in LETTERS, Stands(t, Append(l, c))
  PROVE  Stands(n, l)
<1> DEFINE w  == Written(t)
           w2 == Written(n)
           p  == PlaceOf(w, t.cur_col)
           p2 == PlaceOf(w2, n.cur_col)
           k  == Len(l)
           m  == Append(l, c)
<1>1. /\ p \in Nat /\ p2 = p - 1
      /\ \A i \in 0 .. p - 2 : Symbol(w2, i) = Symbol(w, i)
  <2>1. w2 = Marked(w, t.cur_col - 1, SPACE) /\ n.cur_col = t.cur_col - 1
    BY EraseIs
  <2> QED
    BY <2>1, PlaceTyped, ErasePlaces
<1>2. k \in Nat /\ Len(m) = k + 1 /\ \A i \in 1 .. k : m[i] = l[i] /\ i \in 1 .. k + 1
  OBVIOUS
<1>3. /\ p >= Len(m) + 1 /\ Symbol(w, p - Len(m) - 1) = ">"
      /\ \A i \in 1 .. Len(m) : Symbol(w, p - Len(m) + i - 1) = m[i]
  BY DEF Stands
<1> HIDE DEF w, w2, p, p2, k, m
<1>4. p2 >= k + 1 /\ p2 - k - 1 = p - (k + 1) - 1 /\ p - (k + 1) - 1 \in 0 .. p - 2
  BY <1>1, <1>2, <1>3
<1>5. Symbol(w2, p2 - k - 1) = ">"
  BY <1>1, <1>2, <1>3, <1>4
<1>6. ASSUME NEW i \in 1 .. k
      PROVE  Symbol(w2, p2 - k + i - 1) = l[i]
  <2>1. p2 - k + i - 1 = p - (k + 1) + i - 1 /\ p - (k + 1) + i - 1 \in 0 .. p - 2
    BY <1>1, <1>2, <1>3
  <2> QED
    BY <1>1, <1>2, <1>3, <2>1
<1> QED
  BY <1>4, <1>5, <1>6 DEF Stands, w2, p2, k

-----------------------------------------------------------------------------
(***************************************************************************)
(* The steps.                                                              *)
(***************************************************************************)
LEMMA SymbolsAre ==
  /\ {"*", "^", ">"} \subseteq Symbols /\ LETTERS \subseteq Symbols
  /\ "newline" \notin LETTERS /\ "backspace" \notin LETTERS /\ "clear" \notin LETTERS
  /\ "enter" \notin LETTERS /\ "bs" \notin LETTERS /\ "^C" \notin LETTERS
BY TextAssumption DEF Symbols

\* What a step of the text screen does to the roll.
OnPaper(t, n) ==
  LET r == Written(t)
      c == t.cur_col
      x == Written(n)
      d == n.cur_col
  IN  \/ x = r /\ d = c
      \/ x = Append(r, BlankRow) /\ d = 0
      \/ \E s \in Symbols : RowsPut(r, c, s, x, d)
      \/ c > 0 /\ x = Marked(r, c - 1, SPACE) /\ d = c - 1
      \/ x = << BlankRow >> /\ d = 0

\* The screen with one call less to make.
LEMMA NextCall ==
  ASSUME NEW t, Good(t), t.out # << >>
  PROVE  LET n == [t EXCEPT !.out = Tail(@)]
         IN  /\ Good(n) /\ n.out = Tail(t.out) /\ n.shell_line = t.shell_line
             /\ n.slipped = t.slipped /\ n.cur_col = t.cur_col /\ Written(n) = Written(t)
<1> DEFINE n == [t EXCEPT !.out = Tail(@)]
<1>1. t \in TextState /\ t.out \in Seq(Symbols \cup {"newline", "backspace", "clear"})
  BY GoodTypes DEF Good
<1>2. Tail(t.out) \in Seq(Symbols \cup {"newline", "backspace", "clear"})
  BY <1>1
<1>3. /\ n \in TextState /\ n.out = Tail(t.out) /\ n.shell_line = t.shell_line
      /\ n.slipped = t.slipped /\ n.cur_col = t.cur_col /\ n.cur_row = t.cur_row
      /\ n.cell = t.cell /\ n.gone = t.gone
  BY <1>1, <1>2 DEF TextState
<1> HIDE DEF n
<1>4. Good(n)
  BY <1>3 DEF Good
<1> QED
  BY <1>3, <1>4, SameWritten DEF n

LEMMA StandsElse ==
  ASSUME NEW t, NEW n, Written(n) = Written(t), n.cur_col = t.cur_col, NEW l, Stands(t, l)
  PROVE  Stands(n, l)
BY DEF Stands

\* One call, whatever it is.
LEMMA CallIs ==
  ASSUME NEW u, Good(u), NEW h \in Symbols \cup {"newline", "backspace", "clear"}, NEW n,
         n = IF h = "clear" THEN vga_clear(u) ELSE vga_putc(u, h)
  PROVE  Good(n) /\ SameLine(n, u) /\ OnPaper(u, n)
<1>1. CASE h = "clear"
  <2>1. /\ Good(n) /\ SameLine(n, u)
        /\ n.cur_col = 0 /\ Written(n) = << BlankRow >>
    BY <1>1, ScreenCleared
  <2> QED
    BY <2>1 DEF OnPaper
<1>2. CASE h = "newline"
  <2>1. n = NextRow(u)
    BY <1>2 DEF vga_putc
  <2>2. /\ Good(n) /\ SameLine(n, u)
        /\ n.cur_col = 0 /\ Written(n) = Append(Written(u), BlankRow)
    BY <2>1, NextRowIs
  <2> QED
    BY <2>2 DEF OnPaper
<1>3. CASE h = "backspace"
  <2>1. n = Backspace(u)
    BY <1>3 DEF vga_putc
  <2>2. CASE u.cur_col = 0
    <3>1. n = [u EXCEPT !.slipped = TRUE]
      BY <2>1, <2>2 DEF Backspace
    <3>2. /\ n \in TextState /\ n.cell = u.cell /\ n.gone = u.gone /\ n.cur_row = u.cur_row
          /\ SameLine(n, u) /\ n.cur_col = u.cur_col
      BY <3>1 DEF Good, TextState, SameLine
    <3>3. Good(n)
      BY <3>2 DEF Good
    <3>4. Written(n) = Written(u)
      BY <3>2, <3>3, SameWritten
    <3> QED
      BY <3>2, <3>3, <3>4 DEF OnPaper
  <2>3. CASE u.cur_col # 0
    <3>1. u.cur_col > 0
      BY <2>3, GoodTypes, TextSizes
    <3>2. /\ Good(n) /\ SameLine(n, u) /\ n.cur_col = u.cur_col - 1
          /\ Written(n) = Marked(Written(u), u.cur_col - 1, SPACE)
      BY <2>1, <3>1, EraseIs
    <3> QED
      BY <3>1, <3>2 DEF OnPaper
  <2> QED
    BY <2>2, <2>3
<1>4. CASE h \in Symbols /\ h \notin {"newline", "backspace", "clear"}
  <2>1. n = advance_cursor(hw_write_cell(u, u.cur_col, u.cur_row, h))
    BY <1>4 DEF vga_putc
  <2>2. /\ Good(n) /\ SameLine(n, u)
        /\ RowsPut(Written(u), u.cur_col, h, Written(n), n.cur_col)
    BY <1>4, <2>1, PutIs
  <2> QED
    BY <1>4, <2>2 DEF OnPaper
<1> QED
  BY <1>1, <1>2, <1>3, <1>4

LEMMA PrintStep ==
  ASSUME NEW t, TextInv(t), t.out # << >>, NEW n, n = Text_print(t)
  PROVE  TextInv(n) /\ OnPaper(t, n)
<1> DEFINE u == [t EXCEPT !.out = Tail(@)]
           h == Head(t.out)
<1>1. /\ Good(u) /\ u.out = Tail(t.out) /\ u.shell_line = t.shell_line
      /\ u.slipped = t.slipped /\ u.cur_col = t.cur_col /\ Written(u) = Written(t)
  BY NextCall DEF TextInv
<1>2. n = IF h = "clear" THEN vga_clear(u) ELSE vga_putc(u, h)
  BY DEF Text_print
<1>3. Good(t) /\ t.out \in Seq(Symbols \cup {"newline", "backspace", "clear"})
  BY GoodTypes DEF TextInv
<1>4. /\ Len(t.out) \in Nat /\ Len(t.out) >= 1 /\ h = t.out[1]
      /\ u.out \in Seq(Symbols \cup {"newline", "backspace", "clear"})
      /\ Len(u.out) = Len(t.out) - 1 /\ Len(u.out) \in Nat
      /\ \A i \in 1 .. Len(u.out) : u.out[i] = t.out[i + 1]
  BY <1>1, <1>3
<1>5. h \in Symbols \cup {"newline", "backspace", "clear"}
  BY <1>3, <1>4
<1> HIDE DEF u, h
<1>6. Good(n) /\ SameLine(n, u) /\ OnPaper(u, n)
  BY <1>1, <1>2, <1>5, CallIs
<1>7. OnPaper(t, n)
  BY <1>1, <1>6 DEF OnPaper
<1>8. n.out = u.out /\ n.shell_line = t.shell_line
  BY <1>1, <1>6 DEF SameLine
<1>9. ASSUME h \in Symbols
      PROVE  n = advance_cursor(hw_write_cell(u, u.cur_col, u.cur_row, h)) /\ n.slipped = t.slipped
  <2>1. h # "clear" /\ h # "newline" /\ h # "backspace"
    BY <1>9, TextAssumption DEF Symbols
  <2>2. n = advance_cursor(hw_write_cell(u, u.cur_col, u.cur_row, h))
    BY <1>2, <2>1 DEF vga_putc
  <2> QED
    BY <1>1, <1>9, <2>2, PutIs
<1>10. CASE ToPrompt(t)
  <2>1. CASE Len(t.out) = 1
    <3>1. h = ">" /\ n.out = << >> /\ n.shell_line = << >>
      BY <1>4, <1>8, <1>10, <2>1 DEF ToPrompt
    <3>2. Stands(n, << >>)
      BY <1>1, <1>9, <3>1, PutStands, SymbolsAre
    <3> QED
      BY <1>6, <1>7, <3>1, <3>2 DEF TextInv
  <2>2. CASE Len(t.out) # 1
    <3>1. Len(n.out) >= 1 /\ n.out[Len(n.out)] = t.out[Len(t.out)]
      <4>1. \A a, b \in Nat : a >= 1 /\ b = a - 1 /\ a # 1 => b >= 1 /\ b \in 1 .. b /\ b + 1 = a
        OBVIOUS
      <4>2. Len(u.out) >= 1 /\ Len(u.out) \in 1 .. Len(u.out) /\ Len(u.out) + 1 = Len(t.out)
        BY <1>4, <2>2, <4>1, Zenon
      <4> QED
        BY <1>4, <1>8, <4>2
    <3>2. ASSUME NEW i \in 1 .. Len(n.out), i # Len(n.out)
          PROVE  n.out[i] \in {"*", "^", "newline", "clear"}
      <4>1. i + 1 \in 1 .. Len(t.out) /\ i + 1 # Len(t.out) /\ n.out[i] = t.out[i + 1]
        BY <1>4, <1>8, <3>2
      <4> QED
        BY <1>10, <4>1 DEF ToPrompt
    <3> QED
      BY <1>6, <1>7, <1>8, <1>10, <3>1, <3>2 DEF TextInv, ToPrompt
  <2> QED
    BY <2>1, <2>2
<1>11. CASE ToEcho(t)
  <2>1. PICK c \in LETTERS, l \in Seq(LETTERS) :
          \/ t.out = <<c>> /\ t.shell_line = Append(l, c) /\ (~t.slipped => Stands(t, l))
          \/ t.out = <<"backspace">> /\ t.shell_line = l /\ (~t.slipped => Stands(t, Append(l, c)))
    BY <1>11 DEF ToEcho
  <2>2. n.out = << >>
    <3>1. Len(t.out) = 1
      <4>1. Len(<<c>>) = 1 /\ Len(<<"backspace">>) = 1
        OBVIOUS
      <4> QED
        BY <2>1, <4>1, Zenon
    <3>2. Len(u.out) = 0
      BY <1>4, <3>1
    <3> QED
      BY <1>4, <1>8, <3>2
  <2>3. CASE t.out = <<c>> /\ t.shell_line = Append(l, c) /\ (~t.slipped => Stands(t, l))
    <3>1. h = c /\ c \in Symbols
      BY <1>4, <2>3, SymbolsAre
    <3>2. ~t.slipped => Stands(u, l)
      BY <1>1, <2>3, StandsElse
    <3>3. ~t.slipped => Stands(n, Append(l, c))
      BY <1>1, <1>9, <3>1, <3>2, PutStands
    <3> QED
      BY <1>6, <1>7, <1>8, <1>9, <2>2, <2>3, <3>1, <3>3 DEF TextInv
  <2>4. CASE t.out = <<"backspace">> /\ t.shell_line = l /\ (~t.slipped => Stands(t, Append(l, c)))
    <3>1. h = "backspace"
      BY <1>4, <2>4
    <3>2. n = Backspace(u)
      BY <1>2, <3>1 DEF vga_putc
    <3>3. CASE u.cur_col = 0
      <4>1. n.slipped = TRUE
        BY <1>1, <3>2, <3>3 DEF Backspace, Good, TextState
      <4> QED
        BY <1>6, <1>7, <2>2, <4>1 DEF TextInv
    <3>4. CASE u.cur_col # 0
      <4>1. u.cur_col > 0
        BY <1>1, <3>4, GoodTypes, TextSizes
      <4>2. n.slipped = t.slipped
        BY <1>1, <3>2, <4>1, EraseIs
      <4>3. ~t.slipped => Stands(u, Append(l, c))
        BY <1>1, <2>4, StandsElse
      <4>4. ~t.slipped => Stands(n, l)
        BY <1>1, <3>2, <4>1, <4>3, EraseStands
      <4> QED
        BY <1>6, <1>7, <1>8, <2>2, <2>4, <4>2, <4>4 DEF TextInv
    <3> QED
      BY <3>3, <3>4
  <2> QED
    BY <2>1, <2>3, <2>4
<1> QED
  BY <1>10, <1>11 DEF TextInv

\* A key changes the line and what is to be printed, not the screen.
WithLine(t, l, o, b) == [t EXCEPT !.shell_line = l, !.out = o, !.slipped = b]

LEMMA LineTyped ==
  ASSUME NEW t, Good(t), NEW l \in Seq(LETTERS), NEW b \in BOOLEAN,
         NEW o \in Seq(Symbols \cup {"newline", "backspace", "clear"})
  PROVE  /\ Good(WithLine(t, l, o, b)) /\ WithLine(t, l, o, b).shell_line = l
         /\ WithLine(t, l, o, b).out = o /\ WithLine(t, l, o, b).slipped = b
         /\ OnPaper(t, WithLine(t, l, o, b))
         /\ \A m : Stands(t, m) => Stands(WithLine(t, l, o, b), m)
<1> DEFINE n == WithLine(t, l, o, b)
<1>1. /\ n \in TextState /\ n.cell = t.cell /\ n.gone = t.gone /\ n.cur_row = t.cur_row
      /\ n.cur_col = t.cur_col /\ n.shell_line = l /\ n.out = o /\ n.slipped = b
  BY DEF Good, TextState, WithLine
<1> HIDE DEF n
<1>2. Good(n)
  BY <1>1 DEF Good
<1>3. Written(n) = Written(t)
  BY <1>1, <1>2, SameWritten
<1>4. \A m : Stands(t, m) => Stands(n, m)
  BY <1>1, <1>3, StandsElse
<1> QED
  BY <1>1, <1>2, <1>3, <1>4 DEF OnPaper, n

\* What is printed before the prompt.
LEMMA PromptStep ==
  ASSUME NEW t, Good(t), NEW f \in Seq({"*", "^", "newline", "clear"})
  PROVE  TextInv(Prompted(t, f)) /\ OnPaper(t, Prompted(t, f))
<1> DEFINE o == f \o PROMPT
           e == << >>
           b == FALSE
           n == WithLine(t, e, o, b)
           S == Symbols \cup {"newline", "backspace", "clear"}
<1>1. Prompted(t, f) = n
  BY DEF Prompted, WithLine
<1>2. PROMPT \in Seq({">"}) /\ Len(PROMPT) = 1 /\ PROMPT[1] = ">"
  BY DEF PROMPT
<1>3. f \in Seq(S) /\ PROMPT \in Seq(S)
  <2>1. {"*", "^", "newline", "clear"} \subseteq S /\ {">"} \subseteq S
    BY SymbolsAre
  <2> HIDE DEF S
  <2>2. \A T \in SUBSET S : \A s \in Seq(T) : s \in Seq(S)
    OBVIOUS
  <2> QED
    BY <1>2, <2>1, <2>2
<1>4. /\ o \in Seq(S) /\ Len(o) = Len(f) + Len(PROMPT)
      /\ \A i \in 1 .. Len(f) + Len(PROMPT) :
           o[i] = IF i <= Len(f) THEN f[i] ELSE PROMPT[i - Len(f)]
  <2> HIDE DEF S
  <2> QED
    BY <1>3, ConcatProperties
<1>5. Len(f) \in Nat /\ \A i \in 1 .. Len(f) : f[i] \in {"*", "^", "newline", "clear"}
  OBVIOUS
<1> HIDE DEF o
<1>6. Len(o) = Len(f) + 1 /\ o[Len(o)] = ">"
  <2>1. Len(o) = Len(f) + 1 /\ ~(Len(o) <= Len(f)) /\ Len(o) - Len(f) = 1
        /\ Len(o) \in 1 .. Len(f) + Len(PROMPT)
    BY <1>2, <1>4, <1>5
  <2> QED
    BY <1>2, <1>4, <2>1
<1>7. ASSUME NEW i \in 1 .. Len(o), i # Len(o)
      PROVE  o[i] \in {"*", "^", "newline", "clear"}
  <2>1. i <= Len(f) /\ i \in 1 .. Len(f) /\ i \in 1 .. Len(f) + Len(PROMPT)
    BY <1>2, <1>4, <1>5, <1>7
  <2> QED
    BY <1>4, <1>5, <2>1
<1>8. e \in Seq(LETTERS) /\ b \in BOOLEAN
  OBVIOUS
<1> HIDE DEF e, b, S
<1>9. Good(n) /\ n.shell_line = e /\ n.out = o /\ OnPaper(t, n)
  <2>1. o \in Seq(Symbols \cup {"newline", "backspace", "clear"})
    BY <1>4 DEF S
  <2> QED
    BY <1>8, <2>1, LineTyped
<1> HIDE DEF n
<1>10. ToPrompt(n)
  BY <1>5, <1>6, <1>7, <1>9 DEF ToPrompt, e
<1> QED
  BY <1>1, <1>9, <1>10 DEF TextInv

LEMMA KeyStep ==
  ASSUME NEW t, TextInv(t), t.out = << >>, NEW k \in TextKeys, NEW n \in Text_key(t, k)
  PROVE  TextInv(n) /\ OnPaper(t, n)
<1> DEFINE l == t.shell_line
<1>1. Good(t) /\ t \in TextState /\ l \in Seq(LETTERS) /\ t.slipped \in BOOLEAN
  BY GoodTypes DEF TextInv, Good
<1>2. ~t.slipped => Stands(t, l)
  <2>1. ~ToPrompt(t) /\ ~ToEcho(t)
    BY DEF ToPrompt, ToEcho
  <2> QED
    BY <2>1 DEF TextInv
<1>3. CASE k = "^C"
  <2>1. n = Prompted(t, BREAK)
    BY <1>3, SymbolsAre DEF Text_key
  <2>2. BREAK \in Seq({"*", "^", "newline", "clear"})
    BY DEF BREAK
  <2> QED
    BY <1>1, <2>1, <2>2, PromptStep
<1>4. CASE k = "enter"
  <2>1. n \in shell_enter(t)
    BY <1>4, SymbolsAre DEF Text_key
  <2>2. \E f \in Seq({"*", "^", "newline", "clear"}) : n = Prompted(t, f)
    <3>1. /\ <<"newline">> \in Seq({"*", "^", "newline", "clear"})
          /\ <<"newline", "clear">> \in Seq({"*", "^", "newline", "clear"})
          /\ <<"newline">> \o OUTPUT \in Seq({"*", "^", "newline", "clear"})
      BY DEF OUTPUT
    <3> QED
      BY <2>1, <3>1 DEF shell_enter
  <2> QED
    BY <1>1, <2>2, PromptStep
<1>5. CASE k = "bs"
  <2>1. CASE l = << >>
    <3>1. n = t
      BY <1>5, <2>1, SymbolsAre DEF Text_key
    <3> QED
      BY <3>1 DEF OnPaper
  <2>2. CASE l # << >>
    <3> DEFINE f == Front(l)
               c == l[Len(l)]
               o == <<"backspace">>
    <3>1. f \in Seq(LETTERS) /\ c \in LETTERS /\ Append(f, c) = l
      BY <1>1, <2>2 DEF Front
    <3>2. n = WithLine(t, f, o, t.slipped)
      <4>1. n = [t EXCEPT !.shell_line = f, !.out = o]
        BY <1>5, <2>2, SymbolsAre DEF Text_key
      <4> QED
        BY <1>1, <4>1 DEF TextState, WithLine
    <3>3. o \in Seq(Symbols \cup {"newline", "backspace", "clear"})
      OBVIOUS
    <3> HIDE DEF f, c, o
    <3>4. /\ Good(n) /\ n.shell_line = f /\ n.out = o /\ n.slipped = t.slipped
          /\ OnPaper(t, n) /\ \A m : Stands(t, m) => Stands(n, m)
      <4> DEFINE x == WithLine(t, f, o, t.slipped)
      <4>1. /\ Good(x) /\ x.shell_line = f /\ x.out = o /\ x.slipped = t.slipped
            /\ OnPaper(t, x) /\ \A m : Stands(t, m) => Stands(x, m)
        BY <1>1, <3>1, <3>3, LineTyped
      <4> QED
        BY <3>2, <4>1
    <3>5. ~n.slipped => Stands(n, Append(f, c))
      BY <1>2, <3>1, <3>4
    <3>6. ToEcho(n)
      BY <3>1, <3>4, <3>5 DEF ToEcho, o
    <3> QED
      BY <3>4, <3>6 DEF TextInv
  <2> QED
    BY <2>1, <2>2
<1>6. CASE k \in LETTERS
  <2>1. n = shell_char(t, k)
    <3>1. k # "^C" /\ k # "enter" /\ k # "bs"
      BY <1>6, SymbolsAre
    <3> QED
      BY <1>6, <3>1 DEF Text_key
  <2>2. CASE Len(l) < SHELL_LINE_SIZE - 1
    <3> DEFINE f == Append(l, k)
               o == <<k>>
    <3>1. n = WithLine(t, f, o, t.slipped)
      <4>1. n = [t EXCEPT !.shell_line = f, !.out = o]
        BY <2>1, <2>2, <1>1 DEF shell_char, TextState
      <4> QED
        BY <1>1, <4>1 DEF TextState, WithLine
    <3>2. f \in Seq(LETTERS) /\ o \in Seq(Symbols \cup {"newline", "backspace", "clear"})
      BY <1>1, <1>6, SymbolsAre
    <3> HIDE DEF f, o
    <3>3. /\ Good(n) /\ n.shell_line = f /\ n.out = o /\ n.slipped = t.slipped
          /\ OnPaper(t, n) /\ \A m : Stands(t, m) => Stands(n, m)
      <4> DEFINE x == WithLine(t, f, o, t.slipped)
      <4>1. /\ Good(x) /\ x.shell_line = f /\ x.out = o /\ x.slipped = t.slipped
            /\ OnPaper(t, x) /\ \A m : Stands(t, m) => Stands(x, m)
        BY <1>1, <3>2, LineTyped
      <4> QED
        BY <3>1, <4>1
    <3>4. ToEcho(n)
      BY <1>1, <1>2, <1>6, <3>3 DEF ToEcho, f, o
    <3> QED
      BY <3>3, <3>4 DEF TextInv
  <2>3. CASE ~(Len(l) < SHELL_LINE_SIZE - 1)
    BY <2>1, <2>3 DEF shell_char, OnPaper
  <2> QED
    BY <2>2, <2>3
<1> QED
  BY <1>3, <1>4, <1>5, <1>6 DEF TextKeys

LEMMA BarStep ==
  ASSUME NEW t, TextInv(t), t.out = << >>, NEW n, n = render_status_bar(t)
  PROVE  TextInv(n) /\ OnPaper(t, n)
<1>1. ~t.slipped => Stands(t, t.shell_line)
  <2>1. ~ToPrompt(t) /\ ~ToEcho(t)
    BY DEF ToPrompt, ToEcho
  <2> QED
    BY <2>1 DEF TextInv
<1>2. /\ Good(n) /\ n.out = t.out /\ n.shell_line = t.shell_line /\ n.slipped = t.slipped
      /\ n.cur_col = t.cur_col /\ Written(n) = Written(t)
  BY BarIs DEF TextInv, SameLine
<1>3. ~n.slipped => Stands(n, n.shell_line)
  BY <1>1, <1>2, StandsElse
<1> QED
  BY <1>2, <1>3 DEF TextInv, OnPaper

LEMMA FirstScreen ==
  TextInv(TextStart) /\ Written(TextStart) = << BlankRow >> /\ TextStart.cur_col = 0
<1> DEFINE s == [cell |-> [r \in 0 .. VGA_ROWS - 1 |-> BlankRow], cur_row |-> 0, cur_col |-> 0,
                 shell_line |-> << >>, out |-> << >>, gone |-> << >>, slipped |-> FALSE]
           f == <<"clear">> \o BANNER
<1>1. f \in Seq({"*", "^", "newline", "clear"})
  BY DEF BANNER
<1>2. TextStart = Prompted(s, f)
  BY DEF TextStart, shell_init_screen
<1>3. s \in TextState
  <2>1. [r \in 0 .. VGA_ROWS - 1 |-> BlankRow] \in [0 .. VGA_ROWS - 1 -> Row]
    BY BlankIsRow
  <2>2. 0 \in 0 .. VGA_ROWS - 1 /\ 0 \in 0 .. VGA_COLS - 1
    BY TextSizes
  <2>3. << >> \in Seq(LETTERS) /\ << >> \in Seq(Row)
        /\ << >> \in Seq(Symbols \cup {"newline", "backspace", "clear"})
    OBVIOUS
  <2> QED
    BY <2>1, <2>2, <2>3 DEF TextState
<1>4. Good(s)
  <2>1. \A r \in 0 .. scroll_bottom : r \in 0 .. VGA_ROWS - 1
    BY TextSizes
  <2> QED
    BY <1>3, <2>1, TextSizes DEF Good
<1>5. Written(s) = << BlankRow >>
  <2> DEFINE n == vga_clear(s)
  <2>1. n.gone = s.gone /\ n.cell = s.cell /\ n.cur_row = s.cur_row
    BY DEF vga_clear
  <2>2. Good(n) /\ Written(n) = << BlankRow >>
    BY <1>4, ScreenCleared
  <2> HIDE DEF n, s
  <2> QED
    BY <1>4, <2>1, <2>2, SameWritten
<1>6. TextStart.cell = s.cell /\ TextStart.gone = s.gone /\ TextStart.cur_row = s.cur_row
      /\ TextStart.cur_col = 0
  BY <1>2 DEF Prompted
<1> HIDE DEF s, f
<1>7. TextInv(TextStart)
  BY <1>1, <1>2, <1>4, PromptStep
<1>8. Written(TextStart) = Written(s)
  BY <1>6 DEF Written
<1> QED
  BY <1>5, <1>6, <1>7, <1>8

-----------------------------------------------------------------------------
(***************************************************************************)
(* The theorems.                                                           *)
(***************************************************************************)
LEMMA TextStep ==
  ASSUME TextInv(text), [Next]_vars
  PROVE  TextInv(text') /\ OnPaper(text, text')
<1>1. CASE text' = text
  BY <1>1 DEF OnPaper
<1>2. CASE ShellKey
  <2>1. PICK k \in TextKeys : text' \in Text_key(text, k)
    BY <1>2 DEF ShellKey
  <2>2. text.out = << >>
    BY <1>2 DEF ShellKey
  <2> QED
    BY <2>1, <2>2, KeyStep
<1>3. CASE ShellPrint
  BY <1>3, PrintStep DEF ShellPrint
<1>4. CASE StatusBar
  BY <1>4, BarStep DEF StatusBar
<1>5. Launch \/ Input \/ Update => text' = text
  <2>1. "shell" \notin Progs
    BY DEF Progs
  <2> QED
    BY <2>1 DEF Launch, Input, Update, Running, Only
<1>6. ExitKey \/ NoInput \/ Finish => text' = text
  BY DEF ExitKey, NoInput, Finish, exit_active_program
<1>7. EngineClock \/ EngineDone \/ RemoteMenu \/ UNCHANGED vars => text' = text
  BY DEF EngineClock, EngineDone, RemoteMenu, vars
<1> QED
  BY <1>1, <1>2, <1>3, <1>4, <1>5, <1>6, <1>7 DEF Next

\* At every moment the screen is the end of the roll, what stands before the
\* cursor and what is still to be printed make up the prompt and the line, and
\* the cursor is above the status bar (vga_hal.c and the line editor of
\* main.c).
THEOREM TextSafe == Spec => []TextInv(text)
<1>1. Init => TextInv(text)
  BY FirstScreen DEF Init
<1>2. TextInv(text) /\ [Next]_vars => TextInv(text)'
  BY TextStep
<1> QED
  BY <1>1, <1>2, PTL DEF Spec

LEMMA LineFollows == TextInv(text) => LineShown
<1> SUFFICES ASSUME TextInv(text), text.out = << >>, ~text.slipped
             PROVE  LET shown == PROMPT \o text.shell_line
                        first == Upto(text) - Len(shown)
                    IN  /\ first >= 0
                        /\ \A i \in 1 .. Len(shown) : SymbolAt(text, first + i - 1) = shown[i]
  BY DEF LineShown
<1> DEFINE l     == text.shell_line
           k     == Len(l)
           w     == Written(text)
           p     == PlaceOf(w, text.cur_col)
           shown == PROMPT \o l
<1>1. Stands(text, l)
  <2>1. ~ToPrompt(text) /\ ~ToEcho(text)
    BY DEF ToPrompt, ToEcho
  <2> QED
    BY <2>1 DEF TextInv
<1>2. Good(text) /\ l \in Seq(LETTERS) /\ k \in Nat /\ p \in Nat
  BY GoodTypes, PlaceTyped DEF TextInv
<1>3. Upto(text) = p /\ \A n : SymbolAt(text, n) = Symbol(w, n)
  BY DEF Upto, SymbolAt, PlaceOf, Symbol
<1>4. /\ PROMPT \in Seq({">"} \cup LETTERS) /\ Len(PROMPT) = 1 /\ PROMPT[1] = ">"
      /\ l \in Seq({">"} \cup LETTERS)
  BY <1>2 DEF PROMPT
<1>5. /\ Len(shown) = 1 + k
      /\ \A i \in 1 .. 1 + k : shown[i] = IF i <= 1 THEN PROMPT[i] ELSE l[i - 1]
  <2>1. /\ Len(shown) = Len(PROMPT) + k
        /\ \A i \in 1 .. Len(PROMPT) + k :
             shown[i] = IF i <= Len(PROMPT) THEN PROMPT[i] ELSE l[i - Len(PROMPT)]
    BY <1>4, ConcatProperties
  <2> QED
    BY <1>4, <2>1
<1>6. /\ p >= k + 1 /\ Symbol(w, p - k - 1) = ">"
      /\ \A i \in 1 .. k : Symbol(w, p - k + i - 1) = l[i]
  BY <1>1 DEF Stands
<1> HIDE DEF l, k, w, p, shown
<1>7. p - (1 + k) >= 0
  BY <1>2, <1>6
<1>8. ASSUME NEW i \in 1 .. 1 + k
      PROVE  Symbol(w, p - (1 + k) + i - 1) = shown[i]
  <2>1. CASE i = 1
    <3>1. p - (1 + k) + i - 1 = p - k - 1
      BY <1>2, <2>1
    <3> QED
      BY <1>2, <1>4, <1>5, <1>6, <2>1, <3>1
  <2>2. CASE i # 1
    <3> DEFINE j == i - 1
    <3>1. j \in 1 .. k /\ p - (1 + k) + i - 1 = p - k + j - 1 /\ ~(i <= 1)
      BY <1>2, <2>2
    <3>2. shown[i] = l[j]
      BY <1>5, <3>1
    <3> HIDE DEF j
    <3> QED
      BY <1>6, <3>1, <3>2
  <2> QED
    BY <2>1, <2>2
<1> QED
  BY <1>3, <1>5, <1>7, <1>8 DEF l, shown

\* What Enter will run is what the screen shows, over wraps, scrolls and bars,
\* until an erase meets the left edge (vga_hal.c:325).
THEOREM LineSafe == Spec => []LineShown
BY TextSafe, LineFollows, PTL

\* Every step of the screen writes on the roll, erases the symbol before the
\* cursor, starts a row, clears the roll or leaves it alone.
THEOREM RefinesPaper == Spec => ImplementsPaper
<1>1. ThePaper!EmptyRow = BlankRow
  BY DEF ThePaper!EmptyRow, BlankRow
<1>2. Init => ThePaper!Init
  BY <1>1, FirstScreen DEF Init, ThePaper!Init
<1>3. TextInv(text) /\ [Next]_vars => [ThePaper!Next]_<<Written(text), text.cur_col>>
  <2> SUFFICES ASSUME TextInv(text), [Next]_vars
               PROVE  [ThePaper!Next]_<<Written(text), text.cur_col>>
    OBVIOUS
  <2> DEFINE r == Written(text)
             c == text.cur_col
             x == Written(text)'
             d == text.cur_col'
  <2>1. \/ x = r /\ d = c
        \/ x = Append(r, BlankRow) /\ d = 0
        \/ \E s \in Symbols : RowsPut(r, c, s, x, d)
        \/ c > 0 /\ x = Marked(r, c - 1, SPACE) /\ d = c - 1
        \/ x = << BlankRow >> /\ d = 0
    <3>1. OnPaper(text, text')
      BY TextStep
    <3>2. x = Written(text')
      BY DEF Written
    <3> QED
      BY <3>1, <3>2 DEF OnPaper
  <2>2. CASE x = r /\ d = c
    BY <2>2
  <2>3. CASE x = Append(r, BlankRow) /\ d = 0
    BY <1>1, <2>3 DEF ThePaper!Next, ThePaper!NewLine
  <2>4. CASE \E s \in Symbols : RowsPut(r, c, s, x, d)
    BY <1>1, <2>4 DEF ThePaper!Next, ThePaper!Write, RowsPut, Marked
  <2>5. CASE c > 0 /\ x = Marked(r, c - 1, SPACE) /\ d = c - 1
    BY <2>5 DEF ThePaper!Next, ThePaper!Erase, Marked
  <2>6. CASE x = << BlankRow >> /\ d = 0
    BY <1>1, <2>6 DEF ThePaper!Next, ThePaper!Clear
  <2> QED
    BY <2>1, <2>2, <2>3, <2>4, <2>5, <2>6
<1> QED
  BY <1>2, <1>3, TextSafe, PTL DEF Spec, ImplementsPaper, ThePaper!Spec

-----------------------------------------------------------------------------
(***************************************************************************)
(* demo.c and the channel register.                                        *)
(***************************************************************************)
TypedValues   == -1 .. 13
ChannelsOr(n) == {n, 0} \cup exp_entries

LEMMA Channels ==
  /\ -1 \in TypedValues /\ 0 .. 13 \subseteq TypedValues
  /\ 0 \in ChannelsOr(0) /\ 1 \in ChannelsOr(0) /\ -1 \in ChannelsOr(-1)
  /\ exp_entries \subseteq ChannelsOr(0) /\ ChannelsOr(0) \subseteq ChannelsOr(-1)
  /\ 0 .. 13 \ {6, 7} = ChannelsOr(0)
BY DEF exp_entries, TypedValues, ChannelsOr

LEMMA DemoStateIs ==
  DemoState = [active : BOOLEAN, running : BOOLEAN, dirty : BOOLEAN, typed_value : TypedValues,
               selected_channel : ChannelsOr(0), last_hw_channel : ChannelsOr(-1),
               last_draw_page : ChannelsOr(-1), channel : ChannelsOr(0), chain : {0, PROG_PS2}]
BY DEF DemoState, TypedValues, ChannelsOr

LEMMA NextChannel ==
  ASSUME NEW S \in SUBSET exp_entries, S # {}
  PROVE  Min(S) \in exp_entries /\ Max(S) \in exp_entries
<1>1. PICK z \in S : TRUE
  OBVIOUS
<1>2. S \subseteq 1 .. 13
  BY DEF exp_entries
<1> DEFINE lower(n) == \A y \in S : n <= y
           upper(n) == \A y \in S : 14 - n >= y
<1>3. \E x \in S : lower(x)
  <2> SUFFICES ASSUME \A x \in S : ~lower(x) PROVE FALSE
    OBVIOUS
  <2>1. lower(1)
    BY <1>2
  <2>2. ASSUME NEW n \in 1 .. 13, lower(n) PROVE lower(n+1)
    BY <1>2, <2>2
  <2> HIDE DEF lower
  <2>3. lower(14)
    BY <2>1, <2>2
  <2> QED
    BY <1>1, <1>2, <2>3 DEF lower
<1>4. \E x \in S : upper(14 - x)
  <2> SUFFICES ASSUME \A x \in S : ~upper(14 - x) PROVE FALSE
    OBVIOUS
  <2>1. upper(1)
    BY <1>2
  <2>2. ASSUME NEW n \in 1 .. 13, upper(n) PROVE upper(n+1)
    BY <1>2, <2>2
  <2> HIDE DEF upper
  <2>3. upper(14)
    BY <2>1, <2>2
  <2> QED
    BY <1>1, <1>2, <2>3 DEF upper
<1>5. Min(S) \in S
  BY <1>3 DEF Min
<1>6. Max(S) \in S
  <2>1. PICK x \in S : \A y \in S : 14 - (14 - x) >= y
    BY <1>4
  <2>2. 14 - (14 - x) = x
    BY <1>2
  <2> QED
    BY <2>1, <2>2 DEF Max
<1> QED
  BY <1>5, <1>6

\* The register after a write.
LEMMA Written_channel ==
  ASSUME NEW d \in DemoState, NEW ch \in ChannelsOr(0)
  PROVE  write_channel(d, ch) = [d EXCEPT !.channel = ch] /\ write_channel(d, ch) \in DemoState
BY Channels, DemoStateIs DEF write_channel

\* What a call of demo.c leaves: the register is 0, or the program is active and
\* runs an experiment.
Sound(d) == d \in DemoState /\ (d.channel # 0 => d.active /\ d.running)

LEMMA EnterMenu ==
  ASSUME NEW d \in DemoState
  PROVE  /\ Sound(enter_menu(d)) /\ enter_menu(d).channel = 0
         /\ enter_menu(d).active = d.active
<1>1. /\ enter_menu(d) \in DemoState /\ enter_menu(d).channel = 0
      /\ enter_menu(d).active = d.active
  <2>1. write_channel(d, 0) = [d EXCEPT !.channel = 0]
    BY Channels, Written_channel
  <2> QED
    BY <2>1, Channels, DemoStateIs DEF enter_menu
<1> QED
  BY <1>1 DEF Sound

LEMMA ExitDemo ==
  ASSUME NEW d \in DemoState
  PROVE  Sound(exit_demo(d))
BY EnterMenu, DemoStateIs DEF exit_demo, Sound

LEMMA StartChannel ==
  ASSUME NEW d, Sound(d), d.active, NEW ch \in ChannelsOr(0)
  PROVE  Sound(start_channel(d, ch))
<1> DEFINE s == [d EXCEPT !.selected_channel = ch, !.typed_value = -1]
<1>1. s \in DemoState /\ s.active
  <2>1. d \in DemoState
    BY DEF Sound
  <2>2. s \in DemoState
    BY <2>1, Channels, DemoStateIs
  <2>3. s.active = d.active
    BY <2>1, DemoStateIs
  <2> QED
    BY <2>2, <2>3
<1> HIDE DEF s
<1>2. CASE ch = 0
  <2>1. start_channel(d, ch) = enter_menu(s)
    BY <1>2 DEF start_channel, s
  <2> QED
    BY <1>1, <2>1, EnterMenu
<1>3. CASE ch = 8
  <2>1. start_channel(d, ch) = [write_channel(s, 0) EXCEPT !.chain = PROG_PS2, !.active = FALSE]
    BY <1>3 DEF start_channel, s
  <2>2. write_channel(s, 0) = [s EXCEPT !.channel = 0]
    BY <1>1, Channels, Written_channel
  <2>3. SUFFICES ASSUME NEW e, e = start_channel(d, ch) PROVE Sound(e)
    OBVIOUS
  <2>4. e = [[s EXCEPT !.channel = 0] EXCEPT !.chain = PROG_PS2, !.active = FALSE]
    BY <2>1, <2>2, <2>3
  <2> QED
    BY <1>1, <2>4, Channels, DemoStateIs DEF Sound
<1>4. CASE ch # 0 /\ ch # 8
  <2>1. start_channel(d, ch) =
          [write_channel(s, ch) EXCEPT !.running = TRUE, !.last_hw_channel = -1, !.dirty = TRUE]
    BY <1>4 DEF start_channel, s
  <2>2. write_channel(s, ch) = [s EXCEPT !.channel = ch]
    BY <1>1, Written_channel
  <2>3. SUFFICES ASSUME NEW e, e = start_channel(d, ch) PROVE Sound(e)
    OBVIOUS
  <2>4. e = [[s EXCEPT !.channel = ch] EXCEPT !.running = TRUE, !.last_hw_channel = -1,
                                              !.dirty = TRUE]
    BY <2>1, <2>2, <2>3
  <2> QED
    BY <1>1, <2>4, Channels, DemoStateIs DEF Sound
<1> QED
  BY <1>2, <1>3, <1>4

LEMMA DemoInit ==
  ASSUME NEW d \in DemoState
  PROVE  Sound(Demo_init(d)) /\ Demo_init(d).active
<1>1. write_channel(d, 0) = [d EXCEPT !.channel = 0]
  BY Channels, Written_channel
<1> QED
  BY <1>1, Channels, DemoStateIs DEF Demo_init, redraw, Sound

LEMMA DemoUpdate ==
  ASSUME NEW d, Sound(d)
  PROVE  Sound(Demo_update(d))
BY Channels, DemoStateIs DEF Demo_update, redraw, Sound

LEMMA DemoDigit ==
  ASSUME NEW d, Sound(d), NEW digit \in 0 .. 9
  PROVE  Sound(accept_digit(d, digit))
<1> DEFINE v == IF d.typed_value < 0 \/ d.typed_value * 10 + digit > 13
                THEN digit ELSE d.typed_value * 10 + digit
<1>1. v \in TypedValues
  BY DemoStateIs DEF Sound, TypedValues
<1>2. accept_digit(d, digit) = [d EXCEPT !.typed_value = v, !.dirty = TRUE]
  BY DEF accept_digit, Sound, DemoState
<1> HIDE DEF v
<1> QED
  BY <1>1, <1>2, DemoStateIs DEF Sound

LEMMA DemoInput ==
  ASSUME NEW d, Sound(d), d.active, NEW k \in DemoKeys
  PROVE  Sound(Demo_input(d, k))
<1>1. d \in DemoState
  BY DEF Sound
<1>2. CASE k = "q"
  <2>1. Demo_input(d, k) = IF d.running THEN enter_menu(d) ELSE exit_demo(d)
    BY <1>2 DEF Demo_input
  <2> QED
    BY <1>1, <2>1, EnterMenu, ExitDemo
<1>3. CASE k = "bs"
  <2> DEFINE v == IF d.typed_value >= 10 THEN d.typed_value \div 10 ELSE -1
  <2>1. Demo_input(d, k) = [d EXCEPT !.typed_value = v, !.dirty = TRUE]
    BY <1>1, <1>3 DEF Demo_input, DemoState
  <2>2. v \in TypedValues
    BY <1>1, DemoStateIs DEF TypedValues
  <2> HIDE DEF v
  <2> QED
    BY <2>1, <2>2, DemoStateIs DEF Sound
<1>4. CASE k \in {"+", "-"}
  <2>1. PICK ch : Demo_input(d, k) =
          [d EXCEPT !.selected_channel = ch, !.typed_value = -1, !.dirty = TRUE] /\ ch \in exp_entries
    <3>1. next_channel(d.selected_channel) \in exp_entries
      <4>1. exp_entries \subseteq exp_entries /\ exp_entries # {}
        BY DEF exp_entries
      <4> QED
        BY <4>1, NextChannel DEF next_channel
    <3>2. prev_channel(d.selected_channel) \in exp_entries
      <4>1. exp_entries \subseteq exp_entries /\ exp_entries # {}
        BY DEF exp_entries
      <4> QED
        BY <4>1, NextChannel DEF prev_channel
    <3> QED
      BY <1>4, <3>1, <3>2 DEF Demo_input
  <2> QED
    BY <2>1, Channels, DemoStateIs DEF Sound
<1>5. CASE k = "enter"
  <2> DEFINE ch == IF d.typed_value >= 0 THEN d.typed_value ELSE d.selected_channel
  <2>1. Demo_input(d, k) = IF valid_channel(ch) THEN start_channel(d, ch) ELSE [d EXCEPT !.dirty = TRUE]
    BY <1>5 DEF Demo_input, accept_enter
  <2>2. CASE valid_channel(ch)
    BY <2>1, <2>2, StartChannel DEF valid_channel, ChannelsOr
  <2>3. CASE ~valid_channel(ch)
    BY <2>1, <2>3 DEF Sound, DemoState
  <2> QED
    BY <2>2, <2>3
<1> QED
  BY <1>2, <1>3, <1>4, <1>5 DEF DemoKeys

\* The program is active whenever it may read a key, and the register goes back
\* to 0 before it is not.
DemoInv ==
  /\ Sound(demo)
  /\ active_prog = "expdemo" /\ pc = "input" => demo.active
  /\ demo.channel # 0 => active_prog = "expdemo"

LEMMA DemoInvElse ==
  ASSUME DemoInv, UNCHANGED <<demo, active_prog>>, active_prog # "expdemo" \/ pc' # "input"
  PROVE  DemoInv'
BY DEF DemoInv, Sound

LEMMA DemoInvExit ==
  ASSUME DemoInv, exit_active_program
  PROVE  DemoInv'
BY DEF DemoInv, exit_active_program, Exit_resets_channel, Sound, DemoState

LEMMA DemoInvStep == DemoInv /\ [Next]_vars => DemoInv'
<1> SUFFICES ASSUME DemoInv, [Next]_vars PROVE DemoInv'
  OBVIOUS
<1>0. Sound(demo) /\ demo \in DemoState
  BY DEF DemoInv, Sound
<1>1. CASE Launch
  <2>1. active_prog = "shell" /\ active_prog' = left.prog /\ pc' = "input"
    BY <1>1 DEF Launch
  <2>2. CASE left.prog = "expdemo"
    <3>1. demo' = Demo_init(demo)
      BY <1>1, <2>2 DEF Launch
    <3> QED
      BY <1>0, <2>1, <2>2, <3>1, DemoInit DEF DemoInv
  <2>3. CASE left.prog # "expdemo"
    <3>1. demo' = demo
      BY <1>1, <2>3 DEF Launch, Only
    <3> QED
      BY <1>0, <2>1, <2>3, <3>1 DEF DemoInv
  <2> QED
    BY <2>2, <2>3
<1>2. CASE ExitKey
  BY <1>2, DemoInvExit DEF ExitKey
<1>3. CASE Input
  <2>1. active_prog' = active_prog /\ pc' = "update" /\ pc = "input"
    BY <1>3 DEF Input
  <2>2. CASE active_prog = "expdemo"
    <3>1. demo.active
      BY <2>1, <2>2 DEF DemoInv
    <3>2. Sound(demo')
      <4>1. \/ \E k \in DEMO_KEYS : demo' = Demo_input(demo, k)
            \/ \E digit \in DEMO_DIGITS : demo' = accept_digit(demo, digit)
        BY <1>3, <2>2 DEF Input
      <4> QED
        BY <1>0, <3>1, <4>1, DemoInput, DemoDigit, DemoAssumption
    <3> QED
      BY <2>1, <2>2, <3>2 DEF DemoInv
  <2>3. CASE active_prog # "expdemo"
    <3>1. demo' = demo
      BY <1>3, <2>3 DEF Input, Only
    <3> QED
      BY <2>1, <2>3, <3>1, DemoInvElse
  <2> QED
    BY <2>2, <2>3
<1>4. CASE NoInput
  BY <1>4, DemoInvElse DEF NoInput
<1>5. CASE Update
  <2>1. active_prog' = active_prog /\ pc' = "finish"
    BY <1>5 DEF Update
  <2>2. CASE active_prog = "expdemo"
    <3>1. demo' = Demo_update(demo)
      BY <1>5, <2>2 DEF Update
    <3> QED
      BY <1>0, <2>1, <2>2, <3>1, DemoUpdate DEF DemoInv
  <2>3. CASE active_prog # "expdemo"
    <3>1. demo' = demo
      BY <1>5, <2>3 DEF Update, Only
    <3> QED
      BY <2>1, <2>3, <3>1, DemoInvElse
  <2> QED
    BY <2>2, <2>3
<1>6. CASE Finish
  <2>1. CASE finished
    BY <1>6, <2>1, DemoInvExit DEF Finish
  <2>2. CASE ~finished
    <3>1. active_prog = "expdemo" => demo.active
      BY <2>2 DEF finished, Demo_finish
    <3>2. UNCHANGED <<active_prog, demo>>
      BY <1>6, <2>2 DEF Finish
    <3> QED
      BY <3>1, <3>2 DEF DemoInv, Sound
  <2> QED
    BY <2>1, <2>2
<1>7. CASE RemoteMenu
  <2>1. demo' = Force_shell(demo) /\ UNCHANGED <<active_prog, pc>>
    BY <1>7 DEF RemoteMenu
  <2>2. Sound(demo') /\ demo'.active = demo.active /\ (demo'.channel # 0 => demo.channel # 0)
    BY <1>0, <2>1 DEF Force_shell, Sound, DemoState
  <2> QED
    BY <2>1, <2>2 DEF DemoInv
<1>8. CASE EngineClock \/ EngineDone \/ ShellKey \/ ShellPrint \/ StatusBar \/ UNCHANGED vars
  <2>1. UNCHANGED <<active_prog, pc, demo>>
    BY <1>8 DEF EngineClock, EngineDone, ShellKey, ShellPrint, StatusBar, vars
  <2> QED
    BY <2>1 DEF DemoInv, Sound
<1> QED
  BY <1>1, <1>2, <1>3, <1>4, <1>5, <1>6, <1>7, <1>8 DEF Next

\* The board belongs to an experiment only while expdemo runs it, whatever keys
\* are pressed, whichever way the program is left, and whenever the remote
\* control ends experiment 10 (demo.c, main.c:1148-1151): every path to the shell
\* writes channel 0 first.
THEOREM MuxSafe == Spec => []MuxFollowsDemo
<1>1. Init => DemoInv
  BY DEF Init, DemoInv, DemoStatics, Sound, DemoState, exp_entries
<1>2. DemoInv => MuxFollowsDemo
  BY DEF DemoInv, Sound, MuxFollowsDemo
<1> QED
  BY <1>1, <1>2, DemoInvStep, PTL DEF Spec

-----------------------------------------------------------------------------
(***************************************************************************)
(* Arithmetic of the torus: cells and their numbers, and neighbours by     *)
(* steps, as the engine finds them, or by distance, as module Life does.   *)
(***************************************************************************)
LEMMA Division ==
  ASSUME NEW i \in Nat, NEW C \in Nat \ {0}
  PROVE  i \div C \in Nat /\ i % C \in 0 .. C - 1 /\ (i \div C) * C + (i % C) = i
<1>1. i % C \in 0 .. C - 1
  OBVIOUS
<1>2. i \div C \in Int /\ i \div C >= 0
  OBVIOUS
<1>3. (i \div C) * C + (i % C) = i
  OBVIOUS
<1> QED
  BY <1>1, <1>2, <1>3

LEMMA Times ==
  ASSUME NEW C \in Nat \ {0}, NEW x \in Int, x >= 1 PROVE x * C >= C
<1>1. x - 1 \in Nat /\ x * C = (x - 1) * C + C /\ (x-1) * C \in Nat
  OBVIOUS
<1> QED BY <1>1

LEMMA UniqueDivision ==
  ASSUME NEW C \in Nat \ {0}, NEW p \in Int, NEW q \in Int, NEW r \in 0 .. C - 1,
         NEW s \in 0 .. C - 1, p * C + r = q * C + s
  PROVE  p = q /\ r = s
<1>1. (p - q) * C = s - r /\ (q - p) * C = r - s
  OBVIOUS
<1>2. CASE p - q >= 1
  BY <1>1, <1>2, Times
<1>3. CASE q - p >= 1
  BY <1>1, <1>3, Times
<1> QED
  BY <1>2, <1>3

LEMMA Wrap ==
  ASSUME NEW C \in Nat, C >= 3, NEW x \in 0 .. C - 1, NEW d \in -1 .. 1
  PROVE  /\ (x + d + C) % C \in 0 .. C - 1
         /\ (x + d + C) % C = IF x + d = -1 THEN C - 1 ELSE IF x + d = C THEN 0 ELSE x + d
<1>1. (x + d + C) % C \in 0 .. C - 1
  OBVIOUS
<1>2. PICK q \in Int : x + d + C = q * C + ((x + d + C) % C)
  <2> DEFINE i == x + d + C
  <2>1. i \in Nat /\ C \in Nat \ {0}
    OBVIOUS
  <2> HIDE DEF i
  <2>2. i \div C \in Nat /\ (i \div C) * C + (i % C) = i
    BY <2>1, Division
  <2>3. \E q \in Int : i = q * C + (i % C)
    <3>1. i \div C \in Int
      BY <2>2
    <3>2. WITNESS i \div C \in Int
    <3> QED
      BY <2>2
  <2> QED
    BY <2>3 DEF i
<1> DEFINE e == IF x + d = -1 THEN C - 1 ELSE IF x + d = C THEN 0 ELSE x + d
           k == IF x + d = -1 THEN 0 ELSE IF x + d = C THEN 2 ELSE 1
<1>3. e \in 0 .. C - 1 /\ k \in Int /\ x + d + C = k * C + e
  OBVIOUS
<1> HIDE DEF e, k
<1> QED
 BY <1>1, <1>2, <1>3, UniqueDivision DEF e

CellIndex(c) == c[2] * COLS + c[1]

LEMMA CellOfIndex ==
  ASSUME NEW i \in 0 .. GRID_SIZE - 1
  PROVE CellAt(i) \in Cells /\ CellIndex(CellAt(i)) = i
<1> DEFINE x == i % COLS
           y == i \div COLS
<1>1. COLS \in Nat \ {0} /\ ROWS \in Nat /\ i \in Nat /\ i < ROWS * COLS
  BY ConwayAssumption DEF GRID_SIZE
<1>2. x \in 0 .. COLS - 1 /\ y \in Nat /\ y * COLS + x = i
  BY <1>1, Division
<1>3. CellAt(i) = <<x, y>>
  BY DEF CellAt
<1> HIDE DEF x, y
<1>4. y < ROWS
  <2> SUFFICES ASSUME y >= ROWS PROVE FALSE
    BY <1>1, <1>2
  <2>1. y * COLS = (y - ROWS) * COLS + ROWS * COLS /\ (y - ROWS) * COLS \in Nat
    BY <1>1, <1>2
  <2> QED
   BY <1>1, <1>2, <2>1
<1> QED
  BY <1>1, <1>2, <1>3, <1>4 DEF CellIndex, Cells

LEMMA IndexOfCell ==
  ASSUME NEW c \in Cells
  PROVE CellIndex(c) \in 0 .. GRID_SIZE - 1 /\ CellAt(CellIndex(c)) = c
<1> DEFINE x == c[1]
           y == c[2]
           i == CellIndex(c)
<1>1. COLS \in Nat \ {0} /\ ROWS \in Nat /\ x \in 0 .. COLS - 1 /\ y \in 0 .. ROWS - 1 /\ c = <<x, y>>
      /\ i = y * COLS + x
  BY ConwayAssumption DEF Cells, CellIndex
<1> HIDE DEF x, y, i
<1>2. i \in Nat /\ i <= GRID_SIZE - 1
  <2>1. ROWS * COLS = (ROWS - 1 - y) * COLS + y * COLS + COLS /\ (ROWS - 1 - y) * COLS \in Nat
        /\ y * COLS \in Nat /\ COLS * ROWS = ROWS * COLS
    BY <1>1
  <2> QED BY <1>1, <2>1 DEF GRID_SIZE
<1>3. i % COLS \in 0 .. COLS - 1 /\ i \div COLS \in Nat /\ (i \div COLS) * COLS + (i % COLS) = i
  BY <1>1, <1>2, Division
<1>4. i % COLS = x /\ i \div COLS = y
  <2> DEFINE r == i % COLS
             q == i \div COLS
  <2>1. r \in 0 .. COLS - 1 /\ q \in Int /\ q * COLS + r = y * COLS + x
    BY <1>1, <1>3
  <2> HIDE DEF r, q
  <2>2. r = x /\ q = y
    BY <1>1, <2>1, UniqueDivision
  <2> QED BY <2>2 DEF r, q
<1>5. i \in 0 .. GRID_SIZE - 1
  <2>1. GRID_SIZE \in Int
    BY <1>1 DEF GRID_SIZE
  <2> QED BY <1>2, <2>1
<1> QED BY <1>1, <1>4, <1>5 DEF CellAt, i

Shift(x, d, C) == (x + d + C) % C

LEMMA ShiftOnce ==
  ASSUME NEW C \in Nat, C >= 3, NEW x \in 0 .. C - 1, NEW d \in -1 .. 1, NEW e \in -1 .. 1,
         Shift(x, d, C) = Shift(x, e, C)
  PROVE  d = e
<1> DEFINE v(n) == IF x + n = -1 THEN C - 1 ELSE IF x + n = C THEN 0 ELSE x + n
<1>1. v(d) = v(e)
  BY Wrap DEF Shift
<1> QED
  BY <1>1

LEMMA ShiftNear ==
  ASSUME NEW C \in Nat, C >= 3, NEW x \in 0 .. C - 1, NEW y \in 0 .. C - 1
  PROVE  (x - y) % C \in {0, 1, C - 1} <=> \E d \in -1 .. 1 : y = Shift(x, d, C)
<1> DEFINE z == x - y
           r == z % C
<1>1. r = IF z >= 0 THEN z ELSE z + C
  <2> DEFINE e == IF z >= 0 THEN z ELSE z + C
             k == IF z >= 0 THEN 0 ELSE -1
  <2>1. z \in Int /\ C > 0 /\ e \in Int /\ k \in Int /\ z = k * C + e /\ 0 <= e /\ e < C
    OBVIOUS
  <2> HIDE DEF z, e, k
  <2>2. e = z % C
    BY <2>1
  <2> QED
    BY <2>2 DEF e
<1>2. z \in -(C - 1) .. C - 1
  OBVIOUS
<1> HIDE DEF r
<1>3. r \in {0, 1, C - 1} <=> z \in {0, 1, -1, C - 1, -(C - 1)}
  <2> HIDE DEF z
  <2> QED
    BY <1>1, <1>2
<1>4. \A d \in -1 .. 1 : Shift(x, d, C) = IF x + d = -1 THEN C - 1 ELSE IF x + d = C THEN 0 ELSE x + d
  BY Wrap DEF Shift
<1>5. ASSUME NEW d \in -1 .. 1, y = Shift(x, d, C) PROVE z \in {0, 1, -1, C - 1, -(C - 1)}
  BY <1>4, <1>5
<1>6. ASSUME z \in {0, 1, -1, C - 1, -(C - 1)} PROVE \E d \in -1 .. 1 : y = Shift(x, d, C)
  <2> DEFINE d == IF z = 0 THEN 0 ELSE IF z = 1 \/ z = -(C - 1) THEN -1 ELSE 1
  <2>1. d \in -1 .. 1
    BY <1>6
  <2>2. y = IF x + d = -1 THEN C - 1 ELSE IF x + d = C THEN 0 ELSE x + d
    BY <1>6
  <2> HIDE DEF d
  <2> QED
    BY <1>4, <2>1, <2>2
<1> QED
  BY <1>3, <1>5, <1>6 DEF r

LEMMA SameCardinality == \A S : TheLife!Cardinality(S) = Cardinality(S)
  BY Zenon DEF TheLife!Cardinality, Cardinality

LEMMA LifeRule ==
  ASSUME NEW grid \in SUBSET Cells, NEW c \in Cells
  PROVE  next_alive(grid, c) <=> c \in TheLife!NextGeneration(grid)
<1> DEFINE At(d) == <<Shift(c[1], d[1], COLS), Shift(c[2], d[2], ROWS)>>
           Steps == ((-1..1) \X (-1..1)) \ {<<0, 0>>}
           D == {d \in Steps : At(d) \in grid}
           N == TheLife!Neighbours(c) \cap grid
           f == [d \in D |-> At(d)]
<1>1. /\ COLS \in Nat /\ COLS >= 3 /\ ROWS \in Nat /\ ROWS >= 3
      /\ c[1] \in 0 .. COLS - 1 /\ c[2] \in 0 .. ROWS - 1
  BY ConwayAssumption DEF Cells
<1>2. ASSUME NEW d \in (-1..1) \X (-1..1), NEW e \in (-1..1) \X (-1..1), At(d) = At(e) PROVE d = e
  <2>1. d[1] = e[1]
    BY <1>1, <1>2, ShiftOnce
  <2>2. d[2] = e[2]
    BY <1>1, <1>2, ShiftOnce
  <2> QED
    BY <2>1, <2>2
<1>3. At(<<0, 0>>) = c
  <2>1. ASSUME NEW C \in Nat, C >= 3, NEW x \in 0 .. C - 1 PROVE Shift(x, 0, C) = x
    <3>1. 0 \in -1 .. 1 /\ x + 0 = x /\ x # -1 /\ x # C
      BY <2>1
    <3> QED
      BY <2>1, <3>1, Wrap DEF Shift
  <2>2. Shift(c[1], 0, COLS) = c[1]
    BY <1>1, <2>1
  <2>3. Shift(c[2], 0, ROWS) = c[2]
    BY <1>1, <2>1
  <2> QED
    BY <1>1, <2>2, <2>3 DEF Cells
<1>4. ASSUME NEW d \in D PROVE At(d) \in N
  <2>1. d \in Steps /\ At(d) \in grid /\ At(d) \in Cells
    OBVIOUS
  <2>2. At(d) # c
    <3>1. d # <<0, 0>> /\ d \in (-1..1) \X (-1..1) /\ <<0, 0>> \in (-1..1) \X (-1..1)
      BY <2>1
    <3> HIDE DEF At
    <3> QED
      BY <1>2, <1>3, <3>1
  <2>3. (c[1] - At(d)[1]) % COLS \in {0, 1, COLS - 1} /\ (c[2] - At(d)[2]) % ROWS \in {0, 1, ROWS - 1}
    <3>1. d[1] \in -1..1 /\ d[2] \in -1..1
      BY <2>1
    <3>2. At(d)[1] \in 0..COLS-1 /\ At(d)[2] \in 0..ROWS-1
      BY <2>1 DEF Cells
    <3>3. At(d)[1] = Shift(c[1], d[1], COLS) /\ At(d)[2] = Shift(c[2], d[2], ROWS)
      OBVIOUS
    <3> DEFINE m == At(d)[1]
               n == At(d)[2]
    <3> HIDE DEF m, n, At
    <3>4. (c[1] - m) % COLS \in {0, 1, COLS - 1}
      BY <1>1, <3>1, <3>2, <3>3, ShiftNear DEF m
    <3>5. (c[2] - n) % ROWS \in {0, 1, ROWS - 1}
      BY <1>1, <3>1, <3>2, <3>3, ShiftNear DEF n
    <3> QED
      BY <3>4, <3>5 DEF m, n
  <2> QED
    BY <2>1, <2>2, <2>3 DEF TheLife!Neighbours, TheLife!Near, TheLife!Cells, Cells
<1>5. ASSUME NEW n \in N PROVE \E d \in D : At(d) = n
  <2>1. /\ n \in Cells /\ n # c /\ n \in grid
        /\ (c[1] - n[1]) % COLS \in {0, 1, COLS - 1} /\ (c[2] - n[2]) % ROWS \in {0, 1, ROWS - 1}
    BY DEF TheLife!Neighbours, TheLife!Near, TheLife!Cells, Cells
  <2>2. n[1] \in 0 .. COLS - 1 /\ n[2] \in 0 .. ROWS - 1 /\ n = <<n[1], n[2]>>
    BY <2>1 DEF Cells
  <2>3. PICK dx \in -1 .. 1 : n[1] = Shift(c[1], dx, COLS)
    BY <1>1, <2>1, <2>2, ShiftNear
  <2>4. PICK dy \in -1 .. 1 : n[2] = Shift(c[2], dy, ROWS)
    BY <1>1, <2>1, <2>2, ShiftNear
  <2>5. At(<<dx, dy>>) = n
    BY <2>2, <2>3, <2>4
  <2>6. <<dx, dy>> # <<0, 0>>
    BY <1>3, <2>1, <2>5
  <2>7. <<dx, dy>> \in D
    BY <2>1, <2>5, <2>6
  <2> QED
    BY <2>5, <2>7
<1>6. IsFiniteSet(D)
  <2>1. IsFiniteSet(-1..1)
    <3>1. -1 \in Int /\ 1 \in Int
      OBVIOUS
    <3> QED
      BY <3>1, FS_Interval
  <2>2. IsFiniteSet((-1..1) \X (-1..1))
    BY <2>1, FS_Product
  <2> QED
    BY <2>2, FS_Subset
<1>7. ExistsBijection(D, N)
  <2> HIDE DEF D, N, At
  <2>1. f \in [D -> N]
    BY <1>4
  <2>2. \A d, e \in D : f[d] = f[e] => d = e
    BY <1>2 DEF D
  <2>3. \A n \in N : \E d \in D : f[d] = n
    BY <1>5
  <2> QED
    BY <2>1, <2>2, <2>3 DEF ExistsBijection, Bijection, Injection, Surjection, IsInjective
<1>8. Cardinality(N) = Cardinality(D)
  BY <1>6, <1>7, FS_Bijection
<1>9. next_alive(grid, c) = IF c \in grid THEN Cardinality(D) \in {2, 3} ELSE Cardinality(D) = 3
  BY DEF next_alive, Shift
<1>10. c \in TheLife!NextGeneration(grid) <=> Cardinality(N) = 3 \/ (Cardinality(N) = 2 /\ c \in grid)
  BY SameCardinality DEF TheLife!NextGeneration, TheLife!Cells, Cells
<1> HIDE DEF D, N
<1> QED
  BY <1>8, <1>9, <1>10

-----------------------------------------------------------------------------
(***************************************************************************)
(* The engine: one clock at a time.                                        *)
(***************************************************************************)
Grids   == SUBSET Cells
Places  == 0 .. GRID_SIZE - 1
Counts  == 0 .. GRID_SIZE
Gens    == 0 .. 2^16 - 1
Modes   == {"IDLE", "RAND", "COMPUTE", "FLIP", "POP"}
Screens == [Cells -> {"", ".", "#", "+", "O"}]
Waits   == {"", "init", "toggle", "grid", "step"}
Bits    == {0, 1}

\* ConwayState, but for the population, which a grid of any size bounds.
Typed ==
  [a : Grids, b : Grids, sel : Bits, mode : Modes, idx : Places, busy : Bits,
   generation : Gens, pop : Counts, target : Grids,
   initialized : BOOLEAN, help_open : BOOLEAN, edit_mode : BOOLEAN, cursor : Cells,
   prev : Grids, screen : Screens, hud : Gens \X Counts, then : Waits, edited : BOOLEAN]

\* The grid that is not visible, which the engine computes.
Hidden(w) == IF w.sel = 0 THEN w.b ELSE w.a

\* The cells before idx are done.
Computed(w, i) == \A c \in Cells : CellIndex(c) < i => (c \in Hidden(w) <=> next_alive(Visible(w), c))

\* The live cells that the count has passed.
Before(grid, i) == {c \in grid : CellIndex(c) < i}

\* How far each of the engine's passes over the grid has come.
EngineInv(w) ==
  /\ w \in Typed
  /\ w.busy = 0 => w.mode = "IDLE"
  /\ w.mode = "RAND" => w.edited
  /\ w.mode = "COMPUTE" => Computed(w, w.idx)
  /\ w.mode = "FLIP" => Computed(w, GRID_SIZE)
  /\ w.mode = "POP" => w.pop = Cardinality(Before(Visible(w), w.idx)) /\ w.pop <= w.idx
  /\ w.mode = "IDLE" /\ ~w.edited => w.pop = Cardinality(Visible(w))

LEMMA Sizes ==
  /\ GRID_SIZE \in Nat /\ GRID_SIZE > 0 /\ 0 \in Places /\ 0 \in Counts /\ 0 \in Gens
  /\ Places \subseteq Nat /\ Counts \subseteq Nat
  /\ \A n \in Gens : (n + 1) % (2^16) \in Gens
<1>1. GRID_SIZE \in Nat /\ GRID_SIZE > 0
  <2>1. COLS * ROWS = (COLS - 1) * ROWS + ROWS /\ (COLS - 1) * ROWS \in Nat
    BY ConwayAssumption
  <2> QED
    BY <2>1, ConwayAssumption DEF GRID_SIZE
<1>2. \A n \in Gens : (n + 1) % (2^16) \in Gens
  BY DEF Gens
<1>3. 0 \in Gens
  BY DEF Gens
<1>4. 0 \in Places /\ 0 \in Counts /\ Places \subseteq Nat /\ Counts \subseteq Nat
  BY <1>1 DEF Places, Counts
<1> QED
  BY <1>1, <1>2, <1>3, <1>4

LEMMA Grid ==
  ASSUME NEW w \in Typed
  PROVE  /\ Visible(w) \in Grids /\ Hidden(w) \in Grids
BY DEF Typed, Visible, Hidden

\* The registers of the engine, and what the program keeps.
SameEngine(v, w) ==
  /\ v.a = w.a /\ v.b = w.b /\ v.sel = w.sel /\ v.mode = w.mode /\ v.idx = w.idx /\ v.busy = w.busy
  /\ v.generation = w.generation /\ v.pop = w.pop /\ v.target = w.target /\ v.edited = w.edited

SameProgram(v, w) ==
  /\ v.initialized = w.initialized /\ v.help_open = w.help_open /\ v.edit_mode = w.edit_mode
  /\ v.cursor = w.cursor /\ v.prev = w.prev /\ v.screen = w.screen /\ v.hud = w.hud
  
LEMMA SetVisibleIs ==
  ASSUME NEW w \in Typed, NEW c \in Cells, NEW alive \in BOOLEAN
  PROVE  LET v == SetVisible(w, c, alive)
         IN  /\ v \in Typed /\ Visible(v) = Put(Visible(w), c, alive) /\ Hidden(v) = Hidden(w)
             /\ SameProgram(v, w) /\ v.then = w.then /\ v.sel = w.sel /\ v.mode = w.mode /\ v.idx = w.idx
             /\ v.busy = w.busy /\ v.generation = w.generation /\ v.pop = w.pop /\ v.target = w.target
             /\ v.edited = w.edited
<1> SUFFICES ASSUME NEW v, v = SetVisible(w, c, alive)
  PROVE      /\ v \in Typed /\ Visible(v) = Put(Visible(w), c, alive) /\ Hidden(v) = Hidden(w)
             /\ SameProgram(v, w) /\ v.then = w.then /\ v.sel = w.sel /\ v.mode = w.mode /\ v.idx = w.idx
             /\ v.busy = w.busy /\ v.generation = w.generation /\ v.pop = w.pop /\ v.target = w.target
             /\ v.edited = w.edited
  OBVIOUS
<1>1. ASSUME NEW g \in Grids PROVE Put(g, c, alive) \in Grids
  BY <1>1 DEF Put, Grids
<1>2. CASE w.sel = 0
  <2>1. v = [w EXCEPT !.a = Put(w.a, c, alive)]
    BY <1>2 DEF SetVisible
  <2>2. v \in Typed
    BY <1>1, <2>1 DEF Typed
  <2> QED
    BY <1>2, <2>1, <2>2 DEF Typed, Visible, Hidden, SameProgram
<1>3. CASE w.sel # 0
  <2>1. v = [w EXCEPT !.b = Put(w.b, c, alive)]
    BY <1>3 DEF SetVisible
  <2>2. v \in Typed
    BY <1>1, <2>1 DEF Typed
  <2> QED
    BY <1>3, <2>1, <2>2 DEF Typed, Visible, Hidden, SameProgram
<1> QED
  BY <1>2, <1>3

LEMMA SetHiddenIs ==
  ASSUME NEW w \in Typed, NEW c \in Cells, NEW alive \in BOOLEAN
  PROVE  LET v == SetHidden(w, c, alive)
         IN  /\ v \in Typed /\ Hidden(v) = Put(Hidden(w), c, alive) /\ Visible(v) = Visible(w)
             /\ SameProgram(v, w) /\ v.then = w.then /\ v.sel = w.sel /\ v.mode = w.mode /\ v.idx = w.idx
             /\ v.busy = w.busy /\ v.generation = w.generation /\ v.pop = w.pop /\ v.target = w.target
             /\ v.edited = w.edited
<1> SUFFICES ASSUME NEW v, v = SetHidden(w, c, alive)
  PROVE      /\ v \in Typed /\ Hidden(v) = Put(Hidden(w), c, alive) /\ Visible(v) = Visible(w)
             /\ SameProgram(v, w) /\ v.then = w.then /\ v.sel = w.sel /\ v.mode = w.mode /\ v.idx = w.idx
             /\ v.busy = w.busy /\ v.generation = w.generation /\ v.pop = w.pop /\ v.target = w.target
             /\ v.edited = w.edited
  OBVIOUS
<1>1. ASSUME NEW g \in Grids PROVE Put(g, c, alive) \in Grids
  BY <1>1 DEF Put, Grids
<1>2. CASE w.sel = 0
  <2>1. v = [w EXCEPT !.b = Put(w.b, c, alive)]
    BY <1>2 DEF SetHidden
  <2>2. v \in Typed
    BY <1>1, <2>1 DEF Typed
  <2> QED
    BY <1>2, <2>1, <2>2 DEF Typed, Visible, Hidden, SameProgram
<1>3. CASE w.sel # 0
  <2>1. v = [w EXCEPT !.a = Put(w.a, c, alive)]
    BY <1>3 DEF SetHidden
  <2>2. v \in Typed
    BY <1>1, <2>1 DEF Typed
  <2> QED
    BY <1>3, <2>1, <2>2 DEF Typed, Visible, Hidden, SameProgram
<1> QED
  BY <1>2, <1>3

LEMMA AdvanceIs ==
  ASSUME NEW w \in Typed, NEW m \in Modes
  PROVE  LET v == Advance(w, m)
         IN  /\ v \in Typed /\ SameProgram(v, w) /\ v.then = w.then
             /\ v.a = w.a /\ v.b = w.b /\ v.sel = w.sel /\ v.busy = w.busy /\ v.generation = w.generation
             /\ v.pop = w.pop /\ v.target = w.target /\ v.edited = w.edited
             /\ \/ w.idx = GRID_SIZE - 1 /\ v.mode = m
                \/ w.idx + 1 \in Places /\ v.idx = w.idx + 1 /\ v.mode = w.mode
<1> SUFFICES ASSUME NEW v, v = Advance(w, m)
  PROVE      /\ v \in Typed /\ SameProgram(v, w) /\ v.then = w.then
             /\ v.a = w.a /\ v.b = w.b /\ v.sel = w.sel /\ v.busy = w.busy /\ v.generation = w.generation
             /\ v.pop = w.pop /\ v.target = w.target /\ v.edited = w.edited
             /\ \/ w.idx = GRID_SIZE - 1 /\ v.mode = m
                \/ w.idx + 1 \in Places /\ v.idx = w.idx + 1 /\ v.mode = w.mode
  OBVIOUS
<1>1. CASE w.idx = GRID_SIZE - 1
  <2>1. v = [w EXCEPT !.mode = m]
    BY <1>1 DEF Advance
  <2> QED
    BY <1>1, <2>1 DEF Typed, SameProgram
<1>2. CASE w.idx # GRID_SIZE - 1
  <2>1. v = [w EXCEPT !.idx = w.idx + 1]
    BY <1>2 DEF Advance
  <2>2. w.idx + 1 \in Places
    <3>1. w.idx \in Places
      BY DEF Typed
    <3> QED
      BY <1>2, <3>1, Sizes DEF Places
  <2> QED
    BY <2>1, <2>2 DEF Typed, SameProgram
<1> QED
  BY <1>1, <1>2

\* What a clock of the engine is for the game: nothing, one cell, or a generation.
LifeStep(w, v) ==
  \/ Visible(v) = Visible(w) /\ v.generation = w.generation
  \/ Visible(v) = {} /\ v.generation = 0
  \/ \E c \in Cells : /\ Visible(v) \in {Visible(w) \cup {c}, Visible(w) \ {c}}
                      /\ v.generation = w.generation
  \/ /\ Visible(v) = TheLife!NextGeneration(Visible(w))
     /\ v.generation = (w.generation + 1) % 2^16

\* A step of the engine, of which the program sees nothing.
EngineGood(w, v) == EngineInv(v) /\ LifeStep(w, v) /\ SameProgram(v, w) /\ v.then = w.then

LEMMA Puts ==
  ASSUME NEW g \in Grids, NEW c \in Cells, NEW alive \in BOOLEAN
  PROVE  /\ Put(g, c, alive) \in {g \cup {c}, g \ {c}}
         /\ c \in Put(g, c, alive) <=> alive
         /\ \A d \in Cells : d # c => (d \in Put(g, c, alive) <=> d \in g)
BY DEF Put, Grids

LEMMA RandStep ==
  ASSUME NEW w, EngineInv(w), w.mode = "RAND"
  PROVE  EngineGood(w, Clock(w))
<1> DEFINE c == CellAt(w.idx)
           alive == c \in w.target
           u == SetVisible(w, c, alive)
<1>1. w \in Typed /\ w.idx \in Places /\ w.target \in Grids /\ w.busy # 0 /\ w.edited
  BY DEF EngineInv, Typed
<1>2. c \in Cells /\ alive \in BOOLEAN
  BY <1>1, CellOfIndex DEF Places
<1>3. Clock(w) = Advance(u, "IDLE")
  BY DEF Clock, Rand
<1> HIDE DEF c, alive
<1>4. /\ u \in Typed /\ Visible(u) = Put(Visible(w), c, alive)
      /\ SameProgram(u, w) /\ u.then = w.then /\ u.mode = w.mode /\ u.busy = w.busy
      /\ u.generation = w.generation /\ u.edited = w.edited
  BY <1>1, <1>2, SetVisibleIs
<1> HIDE DEF u
<1> SUFFICES ASSUME NEW v, v = Advance(u, "IDLE") PROVE EngineGood(w, v)
  BY <1>3
<1>5. /\ v \in Typed /\ SameProgram(v, u) /\ v.then = u.then
      /\ v.a = u.a /\ v.b = u.b /\ v.sel = u.sel /\ v.busy = u.busy /\ v.generation = u.generation
      /\ v.edited = u.edited
      /\ v.mode = "IDLE" \/ v.mode = u.mode
  BY <1>4, AdvanceIs DEF Modes
<1>6. Visible(v) = Visible(u)
  BY <1>5 DEF Visible
<1>7. LifeStep(w, v)
  <2>1. Visible(w) \in Grids
    BY <1>1, Grid
  <2>2. Visible(v) \in {Visible(w) \cup {c}, Visible(w) \ {c}}
    BY <1>2, <1>4, <1>6, <2>1, Puts
  <2> QED
    BY <1>2, <1>4, <1>5, <2>2 DEF LifeStep
<1>8. EngineInv(v)
  BY <1>1, <1>4, <1>5 DEF EngineInv
<1> QED
  BY <1>4, <1>5, <1>7, <1>8 DEF EngineGood, SameProgram

LEMMA ComputeStep ==
  ASSUME NEW w, EngineInv(w), w.mode = "COMPUTE"
  PROVE  EngineGood(w, Clock(w))
<1> DEFINE c == CellAt(w.idx)
           alive == next_alive(Visible(w), c)
           u == SetHidden(w, c, alive)
<1>1. w \in Typed /\ w.idx \in Places /\ w.busy # 0 /\ Computed(w, w.idx)
  BY DEF EngineInv, Typed
<1>2. c \in Cells /\ CellIndex(c) = w.idx
  BY <1>1, CellOfIndex DEF Places
<1>3. alive \in BOOLEAN
  <2> DEFINE n == Cardinality({d \in ((-1..1) \X (-1..1)) \ {<<0, 0>>} :
                    <<(c[1] + d[1] + COLS) % COLS, (c[2] + d[2] + ROWS) % ROWS>> \in Visible(w)})
  <2>1. alive = IF c \in Visible(w) THEN n \in {2, 3} ELSE n = 3
    BY DEF next_alive
  <2>2. (n \in {2, 3}) \in BOOLEAN /\ (n = 3) \in BOOLEAN
    OBVIOUS
  <2> HIDE DEF n, alive
  <2>3. CASE c \in Visible(w)
    <3>1. alive = (n \in {2, 3})
      BY <2>1, <2>3
    <3> QED
      BY <2>2, <3>1
  <2>4. CASE c \notin Visible(w)
    <3>1. alive = (n = 3)
      BY <2>1, <2>4
    <3> QED
      BY <2>2, <3>1
  <2> QED
    BY <2>3, <2>4
<1>4. Clock(w) = Advance(u, "FLIP")
  BY DEF Clock, Compute
<1>5. ASSUME NEW d \in Cells, CellIndex(d) <= w.idx PROVE d = c \/ CellIndex(d) < w.idx
  BY <1>1, <1>2, <1>5, IndexOfCell DEF Places
<1> HIDE DEF c
<1>6. /\ u \in Typed /\ Hidden(u) = Put(Hidden(w), c, alive) /\ Visible(u) = Visible(w)
      /\ SameProgram(u, w) /\ u.then = w.then /\ u.mode = w.mode /\ u.busy = w.busy /\ u.idx = w.idx
      /\ u.generation = w.generation
  <2> HIDE DEF alive
  <2> QED
    BY <1>1, <1>2, <1>3, SetHiddenIs
<1> HIDE DEF u
<1>7. ASSUME NEW d \in Cells, CellIndex(d) <= w.idx
      PROVE  d \in Hidden(u) <=> next_alive(Visible(u), d)
  <2>1. Hidden(w) \in Grids
    BY <1>1, Grid
  <2>2. CASE d = c
    <3>1. c \in Hidden(u) <=> alive
      <4> HIDE DEF alive
      <4> QED
        BY <1>2, <1>3, <1>6, <2>1, Puts
    <3> QED
      BY <1>6, <2>2, <3>1
  <2>3. CASE d # c
    <3>1. d \in Hidden(u) <=> d \in Hidden(w)
      <4> HIDE DEF alive
      <4> QED
        BY <1>2, <1>3, <1>6, <2>1, <2>3, Puts
    <3>2. d \in Hidden(w) <=> next_alive(Visible(w), d)
      BY <1>1, <1>5, <1>7, <2>3 DEF Computed
    <3> QED
      BY <1>6, <3>1, <3>2
  <2> QED
    BY <2>2, <2>3
<1> HIDE DEF alive
<1> SUFFICES ASSUME NEW v, v = Advance(u, "FLIP") PROVE EngineGood(w, v)
  BY <1>4
<1>8. /\ v \in Typed /\ SameProgram(v, u) /\ v.then = u.then
      /\ v.a = u.a /\ v.b = u.b /\ v.sel = u.sel /\ v.busy = u.busy /\ v.generation = u.generation
      /\ \/ u.idx = GRID_SIZE - 1 /\ v.mode = "FLIP"
         \/ u.idx + 1 \in Places /\ v.idx = u.idx + 1 /\ v.mode = u.mode
  BY <1>6, AdvanceIs DEF Modes
<1>9. Visible(v) = Visible(u) /\ Hidden(v) = Hidden(u)
  BY <1>8 DEF Visible, Hidden
<1>10. LifeStep(w, v)
  BY <1>6, <1>8, <1>9 DEF LifeStep
<1>11. CASE u.idx = GRID_SIZE - 1 /\ v.mode = "FLIP"
  <2>1. Computed(v, GRID_SIZE)
    <3>1. \A d \in Cells : CellIndex(d) <= w.idx
      BY <1>6, <1>11, Sizes, IndexOfCell
    <3> QED
      BY <1>7, <1>9, <3>1 DEF Computed
  <2>2. EngineInv(v)
    BY <1>1, <1>6, <1>8, <1>11, <2>1 DEF EngineInv
  <2> QED
    BY <1>6, <1>8, <1>10, <2>2 DEF EngineGood, SameProgram
<1>12. CASE v.idx = u.idx + 1 /\ v.mode = u.mode
  <2>1. Computed(v, v.idx)
    <3>1. \A d \in Cells : CellIndex(d) < v.idx => CellIndex(d) <= w.idx
      BY <1>1, <1>6, <1>12, Sizes, IndexOfCell DEF Places
    <3> QED
      BY <1>7, <1>9, <3>1 DEF Computed
  <2>2. EngineInv(v)
    BY <1>1, <1>6, <1>8, <1>12, <2>1 DEF EngineInv
  <2> QED
    BY <1>6, <1>8, <1>10, <2>2 DEF EngineGood, SameProgram
<1> QED
  BY <1>8, <1>11, <1>12

LEMMA FlipStep ==
  ASSUME NEW w, EngineInv(w), w.mode = "FLIP"
  PROVE  EngineGood(w, Clock(w))
<1>1. w \in Typed /\ Computed(w, GRID_SIZE) /\ w.busy # 0 /\ w.sel \in Bits /\ w.generation \in Gens
  BY DEF EngineInv, Typed
<1> SUFFICES ASSUME NEW v, v = Clock(w) PROVE EngineGood(w, v)
  OBVIOUS
<1>2. v = [w EXCEPT !.sel = 1 - w.sel, !.generation = (w.generation + 1) % (2^16),
                    !.pop = 0, !.idx = 0, !.mode = "POP", !.edited = FALSE]
  BY DEF Clock, Flip
<1> DEFINE gen == (w.generation + 1) % (2^16)
           other == 1 - w.sel
<1>3. gen \in Gens /\ other \in Bits /\ (w.sel = 0 <=> other # 0)
  BY <1>1, Sizes DEF Bits
<1> HIDE DEF gen, other
<1>4. v \in Typed
  BY <1>1, <1>2, <1>3, Sizes DEF Typed, Modes, gen, other
<1>5. /\ v.sel = other /\ v.a = w.a /\ v.b = w.b /\ v.generation = gen /\ v.pop = 0 /\ v.idx = 0
      /\ v.mode = "POP" /\ v.edited = FALSE /\ v.busy = w.busy /\ v.then = w.then
  BY <1>1, <1>2 DEF Typed, gen, other
<1>6. SameProgram(v, w)
  BY <1>1, <1>2 DEF Typed, SameProgram
<1>7. Visible(v) = Hidden(w)
  BY <1>3, <1>5 DEF Visible, Hidden
<1>8. Hidden(w) = TheLife!NextGeneration(Visible(w))
  <2>1. Hidden(w) \subseteq Cells /\ Visible(w) \in SUBSET Cells
    BY <1>1, Grid DEF Grids
  <2>2. TheLife!NextGeneration(Visible(w)) \subseteq Cells
    BY DEF TheLife!NextGeneration, TheLife!Cells, Cells
  <2>3. ASSUME NEW c \in Cells PROVE c \in Hidden(w) <=> c \in TheLife!NextGeneration(Visible(w))
    <3>1. CellIndex(c) < GRID_SIZE
      BY Sizes, IndexOfCell
    <3> QED
      BY <1>1, <2>1, <3>1, LifeRule DEF Computed
  <2> QED
    BY <2>1, <2>2, <2>3
<1>9. LifeStep(w, v)
  BY <1>5, <1>7, <1>8 DEF LifeStep, gen
<1>10. Before(Visible(v), 0) = {}
  <2>1. \A c \in Cells : ~(CellIndex(c) < 0)
    BY IndexOfCell, Sizes
  <2>2. Visible(v) \subseteq Cells
    BY <1>4, Grid DEF Grids
  <2> QED
    BY <2>1, <2>2 DEF Before
<1>11. EngineInv(v)
  BY <1>1, <1>4, <1>5, <1>10, FS_EmptySet DEF EngineInv
<1> QED
  BY <1>5, <1>6, <1>9, <1>11 DEF EngineGood

LEMMA PopStep ==
  ASSUME NEW w, EngineInv(w), w.mode = "POP"
  PROVE  EngineGood(w, Clock(w))
<1> DEFINE c == CellAt(w.idx)
           n == IF c \in Visible(w) THEN w.pop + 1 ELSE w.pop
           u == [w EXCEPT !.pop = n]
           S == Before(Visible(w), w.idx)
           T == Before(Visible(w), w.idx + 1)
<1>1. /\ w \in Typed /\ w.idx \in Places /\ w.busy # 0 /\ w.pop \in Counts
      /\ w.pop = Cardinality(S) /\ w.pop <= w.idx
  BY DEF EngineInv, Typed
<1>2. c \in Cells /\ CellIndex(c) = w.idx
  BY <1>1, CellOfIndex DEF Places
<1>3. Clock(w) = Advance(u, "IDLE")
  BY DEF Clock, Pop
<1>4. n \in Counts /\ n <= w.idx + 1
  BY <1>1, Sizes DEF Counts, Places
<1>5. n = Cardinality(T)
  <2>1. IsFiniteSet(Cells)
    <3>1. COLS - 1 \in Int /\ ROWS - 1 \in Int /\ 0 \in Int
      BY ConwayAssumption
    <3>2. IsFiniteSet(0 .. COLS - 1) /\ IsFiniteSet(0 .. ROWS - 1)
      BY <3>1, FS_Interval
    <3> QED
      BY <3>2, FS_Product DEF Cells
  <2>2. Visible(w) \subseteq Cells
    BY <1>1, Grid DEF Grids
  <2>3. IsFiniteSet(S)
    BY <2>1, <2>2, FS_Subset DEF Before
  <2>4. ASSUME NEW d \in Cells PROVE CellIndex(d) < w.idx + 1 <=> d = c \/ CellIndex(d) < w.idx
    BY <1>1, <1>2, Sizes, IndexOfCell DEF Places
  <2>5. c \notin S
    BY <1>1, <1>2, Sizes DEF Before, Places
  <2> HIDE DEF c
  <2>6. CASE c \in Visible(w)
    <3>1. T = S \cup {c}
      BY <1>2, <2>2, <2>4, <2>6 DEF Before
    <3>2. Cardinality(S \cup {c}) = Cardinality(S) + 1
      BY <2>3, <2>5, FS_AddElement
    <3> QED
      BY <1>1, <2>6, <3>1, <3>2
  <2>7. CASE c \notin Visible(w)
    <3>1. T = S
      BY <1>2, <2>2, <2>4, <2>7 DEF Before
    <3> QED
      BY <1>1, <2>7, <3>1
  <2> QED
    BY <2>6, <2>7
<1> HIDE DEF n, c
<1>6. /\ u \in Typed /\ u.a = w.a /\ u.b = w.b /\ u.sel = w.sel /\ u.idx = w.idx /\ u.mode = w.mode
      /\ u.pop = n /\ u.busy = w.busy /\ u.generation = w.generation /\ u.then = w.then
      /\ SameProgram(u, w)
  BY <1>1, <1>4 DEF Typed, SameProgram
<1> HIDE DEF u, S, T
<1> SUFFICES ASSUME NEW v, v = Advance(u, "IDLE") PROVE EngineGood(w, v)
  BY <1>3
<1>7. /\ v \in Typed /\ SameProgram(v, u) /\ v.then = u.then
      /\ v.a = u.a /\ v.b = u.b /\ v.sel = u.sel /\ v.busy = u.busy /\ v.generation = u.generation
      /\ v.pop = u.pop
      /\ \/ u.idx = GRID_SIZE - 1 /\ v.mode = "IDLE"
         \/ u.idx + 1 \in Places /\ v.idx = u.idx + 1 /\ v.mode = u.mode
  BY <1>6, AdvanceIs DEF Modes
<1>8. Visible(v) = Visible(w)
  BY <1>6, <1>7 DEF Visible
<1>9. LifeStep(w, v)
  BY <1>6, <1>7, <1>8 DEF LifeStep
<1>10. CASE u.idx = GRID_SIZE - 1 /\ v.mode = "IDLE"
  <2>1. T = Visible(w)
    <3>1. \A d \in Cells : CellIndex(d) < w.idx + 1
      BY <1>6, <1>10, Sizes, IndexOfCell
    <3>2. Visible(w) \subseteq Cells
      BY <1>1, Grid DEF Grids
    <3> QED
      BY <3>1, <3>2 DEF T, Before
  <2>2. EngineInv(v)
    BY <1>1, <1>5, <1>6, <1>7, <1>8, <1>10, <2>1 DEF EngineInv
  <2> QED
    BY <1>6, <1>7, <1>9, <2>2 DEF EngineGood, SameProgram
<1>11. CASE v.idx = u.idx + 1 /\ v.mode = u.mode
  <2>1. v.pop = Cardinality(Before(Visible(v), v.idx)) /\ v.pop <= v.idx
    BY <1>4, <1>5, <1>6, <1>7, <1>8, <1>11 DEF T
  <2>2. EngineInv(v)
    BY <1>1, <1>6, <1>7, <1>11, <2>1 DEF EngineInv
  <2> QED
    BY <1>6, <1>7, <1>9, <2>2 DEF EngineGood, SameProgram
<1> QED
  BY <1>7, <1>10, <1>11

LEMMA IdleStep ==
  ASSUME NEW w, EngineInv(w), w.mode = "IDLE"
  PROVE  EngineGood(w, Clock(w))
<1> SUFFICES ASSUME NEW v, v = Clock(w) PROVE EngineGood(w, v)
  OBVIOUS
<1>1. w \in Typed
  BY DEF EngineInv
<1>2. v = [w EXCEPT !.busy = 0]
  BY DEF Clock
<1>3. v \in Typed /\ SameProgram(v, w) /\ v.then = w.then
  BY <1>1, <1>2 DEF Typed, SameProgram, Bits
<1>4. /\ v.a = w.a /\ v.b = w.b /\ v.sel = w.sel /\ v.mode = w.mode /\ v.pop = w.pop
      /\ v.generation = w.generation /\ v.edited = w.edited
  BY <1>1, <1>2 DEF Typed
<1>5. Visible(v) = Visible(w)
  BY <1>4 DEF Visible
<1>6. EngineInv(v)
  BY <1>3, <1>4, <1>5 DEF EngineInv
<1> QED
  BY <1>3, <1>4, <1>5, <1>6 DEF EngineGood, LifeStep

LEMMA ClockStep ==
  ASSUME NEW w, EngineInv(w)
  PROVE  EngineGood(w, Clock(w))
BY RandStep, ComputeStep, FlipStep, PopStep, IdleStep DEF EngineInv, Typed, Modes

\* The commands, which find the engine idle.
LEMMA ClearIs ==
  ASSUME NEW w, EngineInv(w), w.mode = "IDLE"
  PROVE  /\ EngineGood(w, clear(w)) /\ clear(w).busy = 0
<1> SUFFICES ASSUME NEW v, v = clear(w) PROVE EngineGood(w, v) /\ v.busy = 0
  OBVIOUS
<1>1. w \in Typed
  BY DEF EngineInv
<1>2. v = [w EXCEPT !.busy = 0, !.generation = 0, !.pop = 0, !.sel = 0,
                    !.a = {}, !.b = {}, !.edited = FALSE]
  BY DEF clear
<1>3. v \in Typed
  BY <1>1, <1>2, Sizes DEF Typed, Bits, Grids
<1>4. SameProgram(v, w) /\ v.then = w.then
  BY <1>1, <1>2 DEF Typed, SameProgram
<1>5. v.a = {} /\ v.sel = 0 /\ v.mode = w.mode /\ v.pop = 0 /\ v.generation = 0 /\ v.busy = 0
  BY <1>1, <1>2 DEF Typed
<1>6. Visible(v) = {}
  BY <1>5 DEF Visible
<1>7. EngineInv(v)
  BY <1>3, <1>5, <1>6, FS_EmptySet DEF EngineInv
<1> QED
  BY <1>4, <1>5, <1>6, <1>7 DEF EngineGood, LifeStep

LEMMA ToggleIs ==
  ASSUME NEW w, EngineInv(w), w.mode = "IDLE"
  PROVE  /\ EngineGood(w, toggle(w)) /\ toggle(w).busy = 0
         /\ \A d \in Cells : d # w.cursor => (d \in Visible(toggle(w)) <=> d \in Visible(w))
<1> DEFINE c == w.cursor
           alive == c \notin Visible(w)
           u == SetVisible(w, c, alive)
<1>1. w \in Typed /\ c \in Cells /\ alive \in BOOLEAN
  BY DEF EngineInv, Typed
<1>2. toggle(w) = [u EXCEPT !.busy = 0, !.edited = TRUE]
  BY DEF toggle
<1> HIDE DEF c, alive
<1>3. /\ u \in Typed /\ Visible(u) = Put(Visible(w), c, alive)
      /\ SameProgram(u, w) /\ u.then = w.then /\ u.mode = w.mode
      /\ u.generation = w.generation
  BY <1>1, SetVisibleIs
<1> HIDE DEF u
<1> SUFFICES ASSUME NEW v, v = toggle(w)
    PROVE  /\ EngineGood(w, v) /\ v.busy = 0
           /\ \A d \in Cells : d # w.cursor => (d \in Visible(v) <=> d \in Visible(w))
  OBVIOUS
<1>4. v \in Typed
  BY <1>2, <1>3 DEF Typed, Bits
<1>5. /\ SameProgram(v, u) /\ v.then = u.then /\ v.mode = u.mode /\ v.a = u.a /\ v.b = u.b
      /\ v.sel = u.sel /\ v.generation = u.generation /\ v.busy = 0 /\ v.edited
  BY <1>2, <1>3 DEF Typed, SameProgram
<1>6. Visible(v) = Put(Visible(w), c, alive)
  BY <1>3, <1>5 DEF Visible
<1>7. /\ Visible(v) \in {Visible(w) \cup {c}, Visible(w) \ {c}}
      /\ \A d \in Cells : d # c => (d \in Visible(v) <=> d \in Visible(w))
  BY <1>1, <1>6, Grid, Puts
<1>8. EngineInv(v)
  BY <1>3, <1>4, <1>5 DEF EngineInv
<1> QED
  BY <1>1, <1>3, <1>5, <1>7, <1>8 DEF EngineGood, LifeStep, SameProgram, c

LEMMA StartIs ==
  ASSUME NEW w, EngineInv(w), w.mode = "IDLE"
  PROVE  EngineGood(w, start(w, "COMPUTE"))
<1> SUFFICES ASSUME NEW v, v = start(w, "COMPUTE") PROVE EngineGood(w, v)
  OBVIOUS
<1>1. w \in Typed
  BY DEF EngineInv
<1>2. v = [w EXCEPT !.busy = 1, !.idx = 0, !.mode = "COMPUTE"]
  BY DEF start
<1>3. v \in Typed
  BY <1>1, <1>2, Sizes DEF Typed, Bits, Modes
<1>4. SameProgram(v, w) /\ v.then = w.then
  BY <1>1, <1>2 DEF Typed, SameProgram
<1>5. /\ v.a = w.a /\ v.b = w.b /\ v.sel = w.sel /\ v.idx = 0 /\ v.mode = "COMPUTE" /\ v.busy = 1
      /\ v.generation = w.generation
  BY <1>1, <1>2 DEF Typed
<1>6. Visible(v) = Visible(w)
  BY <1>5 DEF Visible
<1>7. Computed(v, 0)
  BY Sizes, IndexOfCell DEF Computed, Places
<1>8. EngineInv(v)
  BY <1>3, <1>5, <1>7 DEF EngineInv
<1> QED
  BY <1>4, <1>5, <1>6, <1>8 DEF EngineGood, LifeStep

LEMMA RandomIs ==
  ASSUME NEW w, EngineInv(w), w.mode = "IDLE", NEW g \in Grids
  PROVE  LET v == [start(w, "RAND") EXCEPT !.target = g, !.edited = TRUE, !.then = "grid"]
         IN  EngineInv(v) /\ LifeStep(w, v) /\ SameProgram(v, w) /\ v.then = "grid"
<1> SUFFICES ASSUME NEW v, v = [start(w, "RAND") EXCEPT !.target = g, !.edited = TRUE, !.then = "grid"]
             PROVE  EngineInv(v) /\ LifeStep(w, v) /\ SameProgram(v, w) /\ v.then = "grid"
  OBVIOUS
<1>1. w \in Typed
  BY DEF EngineInv
<1>2. PICK u : u = [w EXCEPT !.busy = 1, !.idx = 0, !.mode = "RAND"]
  OBVIOUS
<1>3. /\ u \in Typed /\ SameProgram(u, w)
      /\ u.a = w.a /\ u.b = w.b /\ u.sel = w.sel /\ u.mode = "RAND" /\ u.busy = 1
      /\ u.generation = w.generation
  <2>1. 0 \in Places
    BY Sizes
  <2>2. u \in Typed
    BY <1>1, <1>2, <2>1 DEF Typed, Bits, Modes
  <2>3. /\ u.a = w.a /\ u.b = w.b /\ u.sel = w.sel /\ u.mode = "RAND" /\ u.busy = 1
        /\ u.generation = w.generation
    BY <1>1, <1>2 DEF Typed
  <2> QED
    BY <1>1, <1>2, <2>2, <2>3 DEF Typed, SameProgram
<1>4. v = [u EXCEPT !.target = g, !.edited = TRUE, !.then = "grid"]
  BY <1>2 DEF start
<1>5. /\ v \in Typed /\ SameProgram(v, w) /\ v.then = "grid"
      /\ v.a = w.a /\ v.b = w.b /\ v.sel = w.sel /\ v.mode = "RAND" /\ v.busy = 1 /\ v.edited
      /\ v.generation = w.generation
  <2>1. v \in Typed
    BY <1>3, <1>4 DEF Typed, Waits
  <2>2. /\ v.then = "grid" /\ v.edited
        /\ v.a = u.a /\ v.b = u.b /\ v.sel = u.sel /\ v.mode = u.mode /\ v.busy = u.busy
        /\ v.generation = u.generation
    BY <1>3, <1>4 DEF Typed
  <2>3. SameProgram(v, w)
    BY <1>3, <1>4 DEF Typed, SameProgram
  <2> QED
    BY <1>3, <2>1, <2>2, <2>3
<1>6. Visible(v) = Visible(w)
  BY <1>5 DEF Visible
<1>7. EngineInv(v)
  BY <1>5 DEF EngineInv
<1> QED
  BY <1>5, <1>6, <1>7 DEF LifeStep

-----------------------------------------------------------------------------
(***************************************************************************)
(* What the program draws.                                                 *)
(***************************************************************************)
\* All that drawing leaves alone.
SameRest(v, w) ==
  /\ v.initialized = w.initialized /\ v.help_open = w.help_open /\ v.edit_mode = w.edit_mode
  /\ v.then = w.then

Stale(w, c, force) == force \/ (c \in Visible(w)) # (c \in w.prev)

\* The state when the first m rows are drawn.
DrawnTo(w, force, m) ==
  [w EXCEPT !.screen = [c \in Cells |-> IF c[2] < m /\ Stale(w, c, force)
                                        THEN Char(c \in Visible(w)) ELSE w.screen[c]],
            !.prev = {c \in Cells : IF c[2] < m THEN c \in Visible(w) ELSE c \in w.prev}]

LEMMA RefreshRow ==
  ASSUME NEW w \in Typed, NEW y \in 0 .. ROWS - 1, NEW force \in BOOLEAN
  PROVE  LET v == refresh_row(w, y, force)
         IN  /\ v \in Typed /\ SameEngine(v, w) /\ SameRest(v, w) /\ v.cursor = w.cursor /\ v.hud = w.hud
             /\ \A c \in Cells : /\ c \in v.prev <=> IF c[2] = y THEN c \in Visible(w) ELSE c \in w.prev
                                 /\ v.screen[c] = IF c[2] = y /\ Stale(w, c, force)
                                                  THEN Char(c \in Visible(w)) ELSE w.screen[c]
<1> DEFINE row == {c \in Cells : c[2] = y}
           changed == {c \in row : force \/ (c \in Visible(w)) # (c \in w.prev)}
           S == [c \in Cells |-> IF c \in changed THEN Char(c \in Visible(w)) ELSE w.screen[c]]
           P == (w.prev \ row) \cup (Visible(w) \cap row)
<1> SUFFICES ASSUME NEW v, v = refresh_row(w, y, force)
    PROVE  /\ v \in Typed /\ SameEngine(v, w) /\ SameRest(v, w) /\ v.cursor = w.cursor /\ v.hud = w.hud
           /\ \A c \in Cells : /\ c \in v.prev <=> IF c[2] = y THEN c \in Visible(w) ELSE c \in w.prev
                               /\ v.screen[c] = IF c[2] = y /\ Stale(w, c, force)
                                                THEN Char(c \in Visible(w)) ELSE w.screen[c]
  OBVIOUS
<1>1. v = [w EXCEPT !.screen = S, !.prev = P]
  BY DEF refresh_row
<1>2. w.screen \in Screens /\ w.prev \in Grids /\ Visible(w) \in Grids
  BY Grid DEF Typed
<1>3. S \in Screens
  BY <1>2 DEF Screens, Char
<1>4. P \in Grids
  BY <1>2 DEF Grids
<1>5. ASSUME NEW c \in Cells
      PROVE  /\ c \in P <=> IF c[2] = y THEN c \in Visible(w) ELSE c \in w.prev
             /\ S[c] = IF c[2] = y /\ Stale(w, c, force) THEN Char(c \in Visible(w)) ELSE w.screen[c]
  BY DEF Stale
<1> HIDE DEF S, P
<1>6. v \in Typed /\ v.screen = S /\ v.prev = P /\ v.cursor = w.cursor /\ v.hud = w.hud
  BY <1>1, <1>3, <1>4 DEF Typed
<1>7. SameEngine(v, w)
  BY <1>1 DEF Typed, SameEngine
<1>8. SameRest(v, w)
  BY <1>1 DEF Typed, SameRest
<1> QED
  BY <1>5, <1>6, <1>7, <1>8

LEMMA DrawRowsIs ==
  ASSUME NEW w \in Typed, NEW force \in BOOLEAN
  PROVE  draw_rows(w, force) = DrawnTo(w, force, ROWS)
<1> DEFINE rows == CHOOSE f : f = [y \in 0 .. ROWS |-> IF y = 0 THEN w ELSE refresh_row(f[y-1], y - 1, force)]
           g == [y \in 0 .. ROWS |-> DrawnTo(w, force, y)]
<1>1. draw_rows(w, force) = rows[ROWS]
  BY DEF draw_rows
<1>2. ROWS \in Nat
  BY ConwayAssumption
<1>3. DrawnTo(w, force, 0) = w
  <2> DEFINE S == [c \in Cells |-> IF c[2] < 0 /\ Stale(w, c, force)
                                  THEN Char(c \in Visible(w)) ELSE w.screen[c]]
             P == {c \in Cells : IF c[2] < 0 THEN c \in Visible(w) ELSE c \in w.prev}
  <2>1. w.screen \in Screens /\ w.prev \in Grids
    BY DEF Typed
  <2>2. \A c \in Cells : ~(c[2] < 0)
    BY ConwayAssumption DEF Cells
  <2>3. S = w.screen
    BY <2>1, <2>2 DEF Screens
  <2>4. P = w.prev
    BY <2>1, <2>2 DEF Grids
  <2>5. DrawnTo(w, force, 0) = [w EXCEPT !.screen = S, !.prev = P]
    BY DEF DrawnTo
  <2> HIDE DEF S, P
  <2> QED
    BY <2>3, <2>4, <2>5 DEF Typed
<1>4. ASSUME NEW m \in 0 .. ROWS - 1
      PROVE  refresh_row(DrawnTo(w, force, m), m, force) = DrawnTo(w, force, m + 1)
  <2> DEFINE S(n) == [c \in Cells |-> IF c[2] < n /\ Stale(w, c, force)
                                      THEN Char(c \in Visible(w)) ELSE w.screen[c]]
             P(n) == {c \in Cells : IF c[2] < n THEN c \in Visible(w) ELSE c \in w.prev}
             u == DrawnTo(w, force, m)
             row == {c \in Cells : c[2] = m}
             changed == {c \in row : force \/ (c \in Visible(u)) # (c \in u.prev)}
             S2 == [c \in Cells |-> IF c \in changed THEN Char(c \in Visible(u)) ELSE u.screen[c]]
             P2 == (u.prev \ row) \cup (Visible(u) \cap row)
  <2>1. u = [w EXCEPT !.screen = S(m), !.prev = P(m)]
    BY DEF DrawnTo
  <2>2. DrawnTo(w, force, m + 1) = [w EXCEPT !.screen = S(m+1), !.prev = P(m+1)]
    BY DEF DrawnTo
  <2>3. refresh_row(u, m, force) = [u EXCEPT !.screen = S2, !.prev = P2]
    BY DEF refresh_row
  <2>4. ASSUME NEW c \in Cells PROVE c[2] < m + 1 <=> c[2] < m \/ c[2] = m
    BY <1>2, ConwayAssumption DEF Cells
  <2>5. w.screen \in Screens /\ w.prev \in Grids /\ Visible(w) \in Grids
    BY Grid DEF Typed
  <2>6. Visible(u) = Visible(w) /\ u.screen = S(m) /\ u.prev = P(m)
    <3> HIDE DEF S, P, u
    <3> QED
      BY <2>1 DEF Typed, Visible
  <2> HIDE DEF u
  <2>7. \A c \in Cells : c[2] = m => (c \in P(m) <=> c \in w.prev) /\ S(m)[c] = w.screen[c]
    BY <1>2, ConwayAssumption DEF Cells
  <2>8. S2 = S(m+1)
    BY <2>4, <2>6, <2>7 DEF Stale
  <2>9. P2 = P(m+1)
    BY <2>4, <2>5, <2>6, <2>7 DEF Grids
  <2> HIDE DEF S, P, S2, P2
  <2> QED
    BY <2>1, <2>2, <2>3, <2>8, <2>9 DEF Typed, u
<1> HIDE DEF rows
<1>5. rows = [y \in 0 .. ROWS |-> IF y = 0 THEN w ELSE refresh_row(rows[y-1], y - 1, force)]
  <2>1. g = [y \in 0 .. ROWS |-> IF y = 0 THEN w ELSE refresh_row(g[y-1], y - 1, force)]
    <3>1. ASSUME NEW y \in 0 .. ROWS PROVE g[y] = IF y = 0 THEN w ELSE refresh_row(g[y-1], y - 1, force)
      <4>1. CASE y = 0
        BY <1>2, <1>3, <4>1
      <4>2. CASE y # 0
        <5>1. y - 1 \in 0 .. ROWS - 1 /\ (y - 1) + 1 = y /\ y - 1 \in 0 .. ROWS
          BY <1>2, <4>2
        <5>2. g[y-1] = DrawnTo(w, force, y - 1) /\ g[y] = DrawnTo(w, force, y)
          BY <5>1
        <5> HIDE DEF g
        <5> QED
          BY <1>4, <4>2, <5>1, <5>2
      <4> QED
        BY <4>1, <4>2
    <3> QED
      BY <3>1
  <2> HIDE DEF g
  <2>2. \E f : f = [y \in 0 .. ROWS |-> IF y = 0 THEN w ELSE refresh_row(f[y-1], y - 1, force)]
    BY <2>1
  <2> QED
    BY <2>2 DEF rows
<1> DEFINE T == {n \in Nat : n <= ROWS => rows[n] = DrawnTo(w, force, n)}
<1>6. 0 \in T
  BY <1>2, <1>3, <1>5
<1>7. ASSUME NEW n \in Nat, n \in T PROVE n + 1 \in T
  <2>1. SUFFICES ASSUME n + 1 <= ROWS PROVE rows[n+1] = DrawnTo(w, force, n + 1)
    OBVIOUS
  <2>2. rows[n] = DrawnTo(w, force, n) /\ n \in 0 .. ROWS - 1
    BY <1>2, <1>7, <2>1
  <2>3. rows[n+1] = refresh_row(rows[n], n, force)
    <3>1. n + 1 \in 0 .. ROWS /\ n + 1 # 0 /\ (n + 1) - 1 = n
      BY <1>2, <2>1
    <3> QED
      BY <1>5, <3>1
  <2> QED
    BY <1>4, <2>2, <2>3
<1>8. ROWS \in T
  <2> HIDE DEF T
  <2> QED
    BY <1>2, <1>6, <1>7, EachNat
<1> QED
  BY <1>1, <1>2, <1>8

Shown(w, grid) == \A c \in Cells : w.screen[c] \in {"#", "O"} <=> c \in grid

\* A call that only draws: the grid on the screen and in the shadow.
Redrawn(w, v) ==
  /\ v \in Typed /\ SameEngine(v, w) /\ SameRest(v, w) /\ Visible(v) = Visible(w)
  /\ v.prev = Visible(w) /\ Shown(v, Visible(w))

LEMMA SameGrids == ASSUME NEW v, NEW w, SameEngine(v, w)
  PROVE Visible(v) = Visible(w) /\ Hidden(v) = Hidden(w) /\ LifeStep(w, v)
BY DEF SameEngine, Visible, Hidden, LifeStep

LEMMA EngineKept ==
  ASSUME NEW w, EngineInv(w), NEW v \in Typed, SameEngine(v, w)
  PROVE  EngineInv(v)
<1>1. Visible(v) = Visible(w) /\ Hidden(v) = Hidden(w)
  BY SameGrids
<1>2. \A i : Computed(v, i) <=> Computed(w, i)
  BY <1>1 DEF Computed
<1> QED
  BY <1>1, <1>2 DEF EngineInv, SameEngine

LEMMA DrawRowsShows ==
  ASSUME NEW w \in Typed, NEW force \in BOOLEAN, force \/ Shown(w, w.prev)
  PROVE  Redrawn(w, draw_rows(w, force)) /\ draw_rows(w, force).cursor = w.cursor
<1> DEFINE S == [c \in Cells |-> IF c[2] < ROWS /\ Stale(w, c, force)
                                 THEN Char(c \in Visible(w)) ELSE w.screen[c]]
           P == {c \in Cells : IF c[2] < ROWS THEN c \in Visible(w) ELSE c \in w.prev}
<1> SUFFICES ASSUME NEW v, v = draw_rows(w, force) PROVE Redrawn(w, v) /\ v.cursor = w.cursor
  OBVIOUS
<1>1. v = [w EXCEPT !.screen = S, !.prev = P]
  BY DrawRowsIs DEF DrawnTo
<1>2. w.screen \in Screens /\ w.prev \in Grids /\ Visible(w) \in Grids
  BY Grid DEF Typed
<1>3. \A c \in Cells : c[2] < ROWS
  BY ConwayAssumption DEF Cells
<1>4. S \in Screens
  BY <1>2 DEF Screens, Char
<1>5. P = Visible(w)
  BY <1>2, <1>3 DEF Grids
<1>6. \A c \in Cells : S[c] \in {"#", "O"} <=> c \in Visible(w)
  BY <1>2, <1>3 DEF Shown, Stale, Char
<1> HIDE DEF S, P
<1>7. v \in Typed /\ v.screen = S /\ v.prev = P /\ v.cursor = w.cursor
  BY <1>1, <1>2, <1>4, <1>5 DEF Typed
<1>8. SameEngine(v, w)
  BY <1>1 DEF Typed, SameEngine
<1>9. SameRest(v, w)
  BY <1>1 DEF Typed, SameRest
<1> QED
  BY <1>5, <1>6, <1>7, <1>8, <1>9, SameGrids DEF Redrawn, Shown

LEMMA HudIs ==
  ASSUME NEW w \in Typed
  PROVE  LET v == draw_hud(w)
         IN  /\ v \in Typed /\ SameEngine(v, w) /\ SameRest(v, w) /\ Visible(v) = Visible(w)
             /\ v.prev = w.prev /\ v.screen = w.screen /\ v.cursor = w.cursor
<1> SUFFICES ASSUME NEW v, v = draw_hud(w)
    PROVE  /\ v \in Typed /\ SameEngine(v, w) /\ SameRest(v, w) /\ Visible(v) = Visible(w)
           /\ v.prev = w.prev /\ v.screen = w.screen /\ v.cursor = w.cursor
  OBVIOUS
<1>1. v = [w EXCEPT !.hud = <<w.generation, w.pop>>]
  BY DEF draw_hud
<1>2. v \in Typed
  BY <1>1 DEF Typed
<1>3. SameEngine(v, w)
  BY <1>1 DEF Typed, SameEngine
<1>4. SameRest(v, w) /\ v.prev = w.prev /\ v.screen = w.screen /\ v.cursor = w.cursor
  BY <1>1 DEF Typed, SameRest
<1> QED
  BY <1>2, <1>3, <1>4, SameGrids

LEMMA MoveIs ==
  ASSUME NEW w \in Typed, NEW dx \in -1 .. 1, NEW dy \in -1 .. 1
  PROVE  LET v == move_cursor(w, dx, dy)
         IN  /\ v \in Typed /\ SameEngine(v, w) /\ SameRest(v, w) /\ Visible(v) = Visible(w)
             /\ v.prev = w.prev
             /\ Shown(w, Visible(w)) => Shown(v, Visible(v))
<1> DEFINE old == w.cursor
           new == <<(old[1] + dx + COLS) % COLS, (old[2] + dy + ROWS) % ROWS>>
           at  == IF new \in Visible(w) THEN "O" ELSE "+"
           S   == [w.screen EXCEPT ![old] = Char(old \in Visible(w)), ![new] = at]
<1> SUFFICES ASSUME NEW v, v = move_cursor(w, dx, dy)
    PROVE  /\ v \in Typed /\ SameEngine(v, w) /\ SameRest(v, w) /\ Visible(v) = Visible(w)
           /\ v.prev = w.prev
           /\ Shown(w, Visible(w)) => Shown(v, Visible(v))
  OBVIOUS
<1>1. v = IF ~w.edit_mode THEN [w EXCEPT !.cursor = new] ELSE [w EXCEPT !.cursor = new, !.screen = S]
  BY DEF move_cursor
<1>2. w.screen \in Screens /\ old \in Cells
  BY DEF Typed
<1>3. new \in Cells
  <2>1. old[1] \in 0 .. COLS - 1 /\ old[2] \in 0 .. ROWS - 1
    BY <1>2 DEF Cells
  <2>2. (old[1] + dx + COLS) % COLS \in 0 .. COLS - 1 /\ (old[2] + dy + ROWS) % ROWS \in 0 .. ROWS - 1
    BY <2>1, ConwayAssumption, Wrap
  <2> QED
    BY <2>2 DEF Cells
<1>4. Char(old \in Visible(w)) \in {"#", "."}
  BY DEF Char
<1> HIDE DEF old, new
<1>5. S \in Screens
  BY <1>2, <1>3, <1>4 DEF Screens
<1>6. \A c \in Cells : S[c] = IF c = new THEN at ELSE IF c = old THEN Char(old \in Visible(w)) ELSE w.screen[c]
  BY <1>2, <1>3 DEF Screens
<1>7. Shown(w, Visible(w)) => \A c \in Cells : S[c] \in {"#", "O"} <=> c \in Visible(w)
  BY <1>6 DEF Shown, Char
<1> HIDE DEF S
<1>8. v \in Typed /\ v.prev = w.prev /\ v.screen \in {w.screen, S}
  <2>1. CASE ~w.edit_mode
    <3>1. v = [w EXCEPT !.cursor = new]
      BY <1>1, <2>1
    <3> QED
      BY <1>3, <3>1 DEF Typed
  <2>2. CASE w.edit_mode
    <3>1. v = [w EXCEPT !.cursor = new, !.screen = S]
      BY <1>1, <2>2
    <3> QED
      BY <1>3, <1>5, <3>1 DEF Typed
  <2> QED
    BY <2>1, <2>2
<1>9. SameEngine(v, w)
  BY <1>1 DEF Typed, SameEngine
<1>10. SameRest(v, w)
  BY <1>1 DEF Typed, SameRest
<1> QED
  BY <1>7, <1>8, <1>9, <1>10, SameGrids DEF Shown

\* What the program knows of the screen while the engine works, and when it is done.
ScreenInv(w) ==
  /\ w.then \in {"", "init", "toggle"} => w.busy = 0
  /\ w.then \notin {"", "init"} => w.initialized /\ ~w.help_open
  /\ w.initialized /\ ~w.help_open => Shown(w, w.prev)
  /\ w.initialized /\ w.then = "" => w.prev = Visible(w)
  /\ w.then = "toggle" => \A c \in Cells : c[2] # w.cursor[2] => (c \in w.prev <=> c \in Visible(w))

\* Holds between any two steps.
Settled(w) == EngineInv(w) /\ ScreenInv(w)

\* Nothing runs, and the screen shows the grid if the program has begun.
Rests(w) == /\ EngineInv(w) /\ w.then = "" /\ w.busy = 0
            /\ w.initialized => w.prev = Visible(w)
            /\ w.initialized /\ ~w.help_open => Shown(w, Visible(w))

LEMMA RestsSettled == ASSUME NEW w
  PROVE Rests(w) <=> Settled(w) /\ w.then = ""
BY DEF Rests, Settled, ScreenInv

LEMMA HudRests ==
  ASSUME NEW w, Rests(w)
  PROVE  Rests(draw_hud(w)) /\ SameEngine(draw_hud(w), w)
<1>1. w \in Typed
  BY DEF Rests, EngineInv
<1> SUFFICES ASSUME NEW v, v = draw_hud(w) PROVE Rests(v) /\ SameEngine(v, w)
  OBVIOUS
<1>2. /\ v \in Typed /\ SameEngine(v, w) /\ SameRest(v, w) /\ Visible(v) = Visible(w)
      /\ v.prev = w.prev /\ v.screen = w.screen
  BY <1>1, HudIs
<1> QED
  BY <1>2, EngineKept DEF Rests, SameRest, SameEngine, Shown

\* Drawing by rows and the counters: rest.
LEMMA RedrawRests ==
  ASSUME NEW w, EngineInv(w), w.then = "", w.busy = 0, NEW force \in BOOLEAN, force \/ Shown(w, w.prev)
  PROVE  LET v == draw_hud(draw_rows(w, force))
         IN  Rests(v) /\ SameEngine(v, w) /\ v.initialized = w.initialized
<1> DEFINE u == draw_rows(w, force)
           v == draw_hud(u)
<1>1. w \in Typed
  BY DEF EngineInv
<1>2. Redrawn(w, u)
  BY <1>1, DrawRowsShows
<1> HIDE DEF u
<1>3. Rests(u)
  BY <1>2, EngineKept DEF Redrawn, Rests, SameEngine, SameRest
<1>4. Rests(v) /\ SameEngine(v, u)
  BY <1>3, HudRests
<1>5. v.initialized = u.initialized
  BY <1>2, HudIs DEF Redrawn, SameRest
<1> QED
  BY <1>2, <1>4, <1>5 DEF Redrawn, SameEngine, SameRest, u

LEMMA DoneIs ==
  ASSUME NEW w, EngineInv(w)
  PROVE  LET v == [w EXCEPT !.then = ""]
         IN  EngineInv(v) /\ SameEngine(v, w) /\ SameProgram(v, w) /\ v.then = ""
<1> SUFFICES ASSUME NEW v, v = [w EXCEPT !.then = ""]
    PROVE  EngineInv(v) /\ SameEngine(v, w) /\ SameProgram(v, w) /\ v.then = ""
  OBVIOUS
<1>1. w \in Typed
  BY DEF EngineInv
<1>2. v \in Typed
  BY <1>1 DEF Typed, Waits
<1>3. SameEngine(v, w) /\ v.then = ""
  BY <1>1 DEF Typed, SameEngine
<1>4. SameProgram(v, w)
  BY <1>1 DEF Typed, SameProgram
<1> QED
  BY <1>2, <1>3, <1>4, EngineKept

LEMMA ContinueInit ==
  ASSUME NEW w, Settled(w), w.busy = 0, w.then = "init"
  PROVE  LET v == Conway_continue(w) IN Rests(v) /\ SameEngine(v, w)
<1> DEFINE done == [w EXCEPT !.then = ""]
           s == [done EXCEPT !.edit_mode = TRUE, !.cursor = <<COLS \div 2, ROWS \div 2>>,
                             !.prev = Cells, !.initialized = TRUE, !.screen = [c \in Cells |-> ""]]
           u == draw_hud(draw_rows(s, TRUE))
           v == move_cursor(u, 0, 0)
<1>1. Conway_continue(w) = v
  BY DEF Conway_continue, draw_grid
<1>2. EngineInv(done) /\ SameEngine(done, w) /\ done.then = "" /\ done.busy = 0
  BY DoneIs DEF Settled, SameEngine
<1> HIDE DEF done
<1>3. done \in Typed
  BY <1>2 DEF EngineInv
<1>4. <<COLS \div 2, ROWS \div 2>> \in Cells
  BY ConwayAssumption DEF Cells
<1>5. [c \in Cells |-> ""] \in Screens /\ Cells \in Grids
  BY DEF Screens, Grids
<1>6. s \in Typed
  <2> DEFINE m == <<COLS \div 2, ROWS \div 2>>
             e == [c \in Cells |-> ""]
  <2> HIDE DEF m, e
  <2>1. m \in Cells /\ e \in Screens
    BY <1>4, <1>5 DEF m, e
  <2>2. s = [done EXCEPT !.edit_mode = TRUE, !.cursor = m, !.prev = Cells, !.initialized = TRUE, !.screen = e]
    BY DEF m, e
  <2> HIDE DEF s
  <2> QED
    BY <1>3, <1>5, <2>1, <2>2 DEF Typed
<1>7. SameEngine(s, done) /\ s.then = ""
  BY <1>2, <1>3 DEF Typed, SameEngine
<1> HIDE DEF s
<1>8. EngineInv(s) /\ s.busy = 0
  BY <1>2, <1>6, <1>7, EngineKept DEF SameEngine
<1>9. Rests(u) /\ SameEngine(u, s)
  BY <1>7, <1>8, RedrawRests
<1> HIDE DEF u
<1>10. u \in Typed
  BY <1>9 DEF Rests, EngineInv
<1>11. /\ v \in Typed /\ SameEngine(v, u) /\ SameRest(v, u) /\ Visible(v) = Visible(u)
       /\ v.prev = u.prev
       /\ Shown(u, Visible(u)) => Shown(v, Visible(v))
  BY <1>10, MoveIs
<1> HIDE DEF v
<1>12. Rests(v)
  BY <1>9, <1>11, EngineKept DEF Rests, SameEngine, SameRest
<1>13. SameEngine(v, w)
  BY <1>2, <1>7, <1>9, <1>11 DEF SameEngine
<1> QED
  BY <1>1, <1>12, <1>13

LEMMA ContinueToggle ==
  ASSUME NEW w, Settled(w), w.busy = 0, w.then = "toggle"
  PROVE  LET v == Conway_continue(w) IN Rests(v) /\ SameEngine(v, w)
<1> DEFINE done == [w EXCEPT !.then = ""]
           y == w.cursor[2]
           no == FALSE
           u == refresh_row(done, y, no)
           v == draw_hud(u)
<1>1. Conway_continue(w) = v
  BY DEF Conway_continue
<1>2. EngineInv(done) /\ SameEngine(done, w) /\ SameProgram(done, w) /\ done.then = ""
  BY DoneIs DEF Settled
<1> HIDE DEF done
<1>3. done \in Typed /\ w \in Typed
  BY <1>2 DEF EngineInv, Settled
<1>4. y \in 0 .. ROWS - 1
  <2>1. w.cursor \in Cells
    BY <1>3 DEF Typed
  <2> QED
    BY <2>1 DEF Cells
<1>5. /\ w.initialized
      /\ ~w.help_open => Shown(w, w.prev)
      /\ \A c \in Cells : c[2] # y => (c \in w.prev <=> c \in Visible(w))
  BY DEF Settled, ScreenInv
<1> HIDE DEF y, no
<1>6. Visible(done) = Visible(w)
  BY <1>2, SameGrids
<1>7. /\ u \in Typed /\ SameEngine(u, done) /\ SameRest(u, done)
      /\ \A c \in Cells : /\ c \in u.prev <=> IF c[2] = y THEN c \in Visible(done) ELSE c \in done.prev
                          /\ u.screen[c] = IF c[2] = y /\ Stale(done, c, no)
                                           THEN Char(c \in Visible(done)) ELSE done.screen[c]
  <2>1. no \in BOOLEAN
    BY DEF no
  <2> QED
    BY <1>3, <1>4, <2>1, RefreshRow
<1> HIDE DEF u
<1>8. Visible(u) = Visible(w)
  BY <1>6, <1>7, SameGrids
<1>9. u.prev = Visible(u)
  <2>1. u.prev \in Grids /\ Visible(u) \in Grids
    BY <1>7, Grid DEF Typed
  <2>2. \A c \in Cells : c \in u.prev <=> c \in Visible(u)
    BY <1>2, <1>5, <1>6, <1>7, <1>8 DEF SameProgram
  <2> QED
    BY <2>1, <2>2 DEF Grids
<1>10. ~u.help_open => Shown(u, Visible(u))
  <2> SUFFICES ASSUME ~u.help_open, NEW c \in Cells PROVE u.screen[c] \in {"#", "O"} <=> c \in Visible(u)
    BY DEF Shown
  <2>1. w.screen[c] \in {"#", "O"} <=> c \in w.prev
    BY <1>2, <1>5, <1>7 DEF SameProgram, SameRest, Shown
  <2>2. done.screen[c] = w.screen[c] /\ done.prev = w.prev
    BY <1>2 DEF SameProgram
  <2> QED
    BY <1>5, <1>6, <1>7, <1>8, <2>1, <2>2 DEF Stale, Char, no
<1>11. Rests(u)
  BY <1>2, <1>7, <1>9, <1>10, EngineKept DEF Rests, SameEngine, SameRest, Settled
<1>12. Rests(v) /\ SameEngine(v, u)
  BY <1>11, HudRests
<1> QED
  BY <1>1, <1>2, <1>7, <1>12 DEF SameEngine

LEMMA ContinueRest ==
  ASSUME NEW w, Settled(w), w.busy = 0, w.then \in {"grid", "step"}
  PROVE  LET v == Conway_continue(w) IN Rests(v) /\ SameEngine(v, w)
<1> DEFINE done == [w EXCEPT !.then = ""]
           force == w.then = "grid"
           v == draw_hud(draw_rows(done, force))
<1>1. Conway_continue(w) = v
  BY DEF Conway_continue, draw_grid, draw_grid_partial
<1>2. EngineInv(done) /\ SameEngine(done, w) /\ SameProgram(done, w) /\ done.then = ""
  BY DoneIs DEF Settled
<1> HIDE DEF done, force
<1>3. done.busy = 0 /\ force \in BOOLEAN
  BY <1>2 DEF SameEngine, force
<1>4. Shown(done, done.prev)
  BY <1>2 DEF Settled, ScreenInv, SameProgram, Shown
<1>5. Rests(v) /\ SameEngine(v, done)
  BY <1>2, <1>3, <1>4, RedrawRests
<1>6. SameEngine(v, w)
  BY <1>2, <1>5 DEF SameEngine
<1> QED
  BY <1>1, <1>5, <1>6

LEMMA ContinueIs ==
  ASSUME NEW w, Settled(w), w.busy = 0, w.then # ""
  PROVE  Settled(Conway_continue(w)) /\ LifeStep(w, Conway_continue(w)) /\ Conway_continue(w).then = ""
<1>1. w.then \in {"init", "toggle", "grid", "step"}
  BY DEF Settled, EngineInv, Typed, Waits
<1>2. Rests(Conway_continue(w)) /\ SameEngine(Conway_continue(w), w)
  BY <1>1, ContinueInit, ContinueToggle, ContinueRest
<1> QED
  BY <1>2, RestsSettled, SameGrids

LEMMA ClockIs ==
  ASSUME NEW w, Settled(w), w.then # "", ~(w.busy = 0 /\ w.mode = "IDLE")
  PROVE  LET v == Clock(w) IN Settled(v) /\ LifeStep(w, v) /\ v.then = w.then
<1> SUFFICES ASSUME NEW v, v = Clock(w) PROVE Settled(v) /\ LifeStep(w, v) /\ v.then = w.then
  OBVIOUS
<1>1. EngineInv(w) /\ ScreenInv(w)
  BY DEF Settled
<1>2. EngineInv(v) /\ LifeStep(w, v) /\ SameProgram(v, w) /\ v.then = w.then
  BY <1>1, ClockStep DEF EngineGood
<1>3. w.then \notin {"", "init", "toggle"}
  <2>1. w.busy = 0 => w.mode = "IDLE"
    BY <1>1 DEF EngineInv
  <2>2. w.then \in {"", "init", "toggle"} => w.busy = 0
    BY <1>1 DEF ScreenInv
  <2> QED
    BY <2>1, <2>2
<1>4. ScreenInv(v)
  BY <1>1, <1>2, <1>3 DEF ScreenInv, SameProgram, Shown
<1> QED
  BY <1>2, <1>4 DEF Settled

\* A command is given and the program waits.
LEMMA Waiting ==
  ASSUME NEW w, Rests(w), NEW u, EngineGood(w, u), NEW t \in {"init", "toggle", "grid", "step"},
         t \in {"init", "toggle"} => u.busy = 0,
         t # "init" => w.initialized /\ ~w.help_open,
         t = "toggle" => \A c \in Cells : c[2] # w.cursor[2] => (c \in Visible(u) <=> c \in Visible(w))
  PROVE  LET v == [u EXCEPT !.then = t]
         IN  Settled(v) /\ LifeStep(w, v) /\ v.then = t
<1> SUFFICES ASSUME NEW v, v = [u EXCEPT !.then = t] PROVE Settled(v) /\ LifeStep(w, v) /\ v.then = t
  OBVIOUS
<1>1. u \in Typed /\ EngineInv(u) /\ LifeStep(w, u) /\ SameProgram(u, w)
  BY DEF EngineGood, EngineInv
<1>2. v \in Typed
  BY <1>1 DEF Typed, Waits
<1>3. SameEngine(v, u) /\ v.then = t
  BY <1>1 DEF Typed, SameEngine
<1>4. SameProgram(v, w)
  BY <1>1 DEF Typed, SameProgram
<1>5. EngineInv(v) /\ Visible(v) = Visible(u)
  BY <1>1, <1>2, <1>3, EngineKept, SameGrids
<1>6. LifeStep(w, v)
  BY <1>1, <1>3, <1>5 DEF LifeStep, SameEngine
<1>7. t \in {"init", "toggle"} => v.busy = 0
  BY <1>3 DEF SameEngine
<1>8. t # "init" => v.initialized /\ ~v.help_open
  BY <1>4 DEF SameProgram
<1>9. v.initialized /\ ~v.help_open => Shown(v, v.prev)
  BY <1>4 DEF Rests, SameProgram, Shown
<1>10. t = "toggle" => \A c \in Cells : c[2] # v.cursor[2] => (c \in v.prev <=> c \in Visible(v))
  BY <1>4, <1>5 DEF Rests, SameProgram
<1>11. ScreenInv(v)
  BY <1>3, <1>7, <1>8, <1>9, <1>10 DEF ScreenInv
<1> QED
  BY <1>3, <1>5, <1>6, <1>11 DEF Settled

LEMMA InitIs ==
  ASSUME NEW w, Rests(w)
  PROVE  LET v == Conway_init(w) IN Settled(v) /\ LifeStep(w, v)
<1>1. EngineInv(w) /\ w.mode = "IDLE"
  BY DEF Rests, EngineInv
<1>2. EngineGood(w, clear(w)) /\ clear(w).busy = 0
  BY <1>1, ClearIs
<1> DEFINE u == clear(w)
           t == "init"
<1>3. Conway_init(w) = [u EXCEPT !.then = t]
  BY DEF Conway_init
<1>4. t \in {"init", "toggle", "grid", "step"} /\ t = "init"
  OBVIOUS
<1> HIDE DEF u, t
<1>5. EngineGood(w, u) /\ u.busy = 0
  BY <1>2 DEF u
<1>6. LET v == [u EXCEPT !.then = t] IN Settled(v) /\ LifeStep(w, v)
  BY <1>4, <1>5, Waiting
<1> QED
  BY <1>3, <1>6

LEMMA UpdateIs ==
  ASSUME NEW w, Rests(w)
  PROVE  LET v == Conway_update(w) IN Settled(v) /\ LifeStep(w, v)
<1>1. EngineInv(w) /\ w.mode = "IDLE"
  BY DEF Rests, EngineInv
<1>2. CASE ~w.initialized \/ w.help_open \/ w.edit_mode
  <2>1. Conway_update(w) = w
    BY <1>2 DEF Conway_update
  <2> QED
    BY <2>1, RestsSettled DEF LifeStep
<1>3. CASE ~(~w.initialized \/ w.help_open \/ w.edit_mode)
  <2>1. Conway_update(w) = [start(w, "COMPUTE") EXCEPT !.then = "step"]
    BY <1>3 DEF Conway_update
  <2> DEFINE u == start(w, "COMPUTE")
             t == "step"
  <2>2. EngineGood(w, u)
    BY <1>1, StartIs
  <2>3. t \in {"init", "toggle", "grid", "step"} /\ t \notin {"init", "toggle"}
    OBVIOUS
  <2> HIDE DEF u, t
  <2>4. LET v == [u EXCEPT !.then = t] IN Settled(v) /\ LifeStep(w, v)
    BY <1>3, <2>2, <2>3, Waiting
  <2> QED
    BY <2>1, <2>4 DEF u, t
<1> QED
  BY <1>2, <1>3

\* A step of the program.
GoesOn(w, v) == Settled(v) /\ LifeStep(w, v)

LEMMA F1Is ==
  ASSUME NEW w, Rests(w), w.initialized
  PROVE  GoesOn(w, Conway_F1(w))
<1>1. w \in Typed /\ w.then = "" /\ w.busy = 0 /\ EngineInv(w)
  BY DEF Rests, EngineInv
<1>2. CASE w.help_open
  <2> DEFINE s == [w EXCEPT !.help_open = FALSE]
             yes == TRUE
             v == draw_hud(draw_rows(s, yes))
  <2>1. Conway_F1(w) = v
    BY <1>2 DEF Conway_F1, draw_grid
  <2>2. s \in Typed /\ s.then = ""
    BY <1>1 DEF Typed
  <2>3. SameEngine(s, w)
    BY <1>1 DEF Typed, SameEngine
  <2>4. yes \in BOOLEAN /\ yes
    OBVIOUS
  <2> HIDE DEF s, yes
  <2>5. EngineInv(s) /\ s.busy = 0
    BY <1>1, <2>2, <2>3, EngineKept DEF SameEngine
  <2>6. Rests(v) /\ SameEngine(v, s)
    BY <2>2, <2>4, <2>5, RedrawRests
  <2>7. SameEngine(v, w)
    BY <2>3, <2>6 DEF SameEngine
  <2> QED
    BY <2>1, <2>6, <2>7, RestsSettled, SameGrids DEF GoesOn
<1>3. CASE ~w.help_open
  <2> DEFINE S == [c \in Cells |-> IF c[2] >= 1 THEN "" ELSE w.screen[c]]
  <2> SUFFICES ASSUME NEW v, v = Conway_F1(w) PROVE GoesOn(w, v)
    OBVIOUS
  <2>1. v = [[w EXCEPT !.help_open = TRUE] EXCEPT !.screen = S]
    <3>1. [w EXCEPT !.help_open = TRUE].screen = w.screen
      BY <1>1 DEF Typed
    <3> QED
      BY <1>3, <3>1 DEF Conway_F1, draw_help
  <2>2. S \in Screens
    <3>1. w.screen \in Screens
      BY <1>1 DEF Typed
    <3> QED
      BY <3>1 DEF Screens
  <2> HIDE DEF S
  <2>3. /\ v \in Typed /\ v.then = w.then /\ v.help_open /\ v.prev = w.prev
        /\ v.initialized = w.initialized
    BY <1>1, <2>1, <2>2 DEF Typed
  <2>4. SameEngine(v, w)
    BY <1>1, <2>1 DEF Typed, SameEngine
  <2>5. EngineInv(v)
    BY <1>1, <2>3, <2>4, EngineKept
  <2>6. Rests(v)
    BY <1>1, <2>3, <2>4, <2>5, SameGrids DEF Rests, SameEngine
  <2> QED
    BY <2>4, <2>6, RestsSettled, SameGrids DEF GoesOn
<1> QED
  BY <1>2, <1>3

LEMMA EnterIs ==
  ASSUME NEW w, Rests(w)
  PROVE  GoesOn(w, draw_hud([w EXCEPT !.edit_mode = ~@]))
<1> DEFINE s == [w EXCEPT !.edit_mode = ~w.edit_mode]
           v == draw_hud(s)
<1>1. w \in Typed /\ EngineInv(w)
  BY DEF Rests, EngineInv
<1>2. s \in Typed
  BY <1>1 DEF Typed
<1>3. SameEngine(s, w)
  BY <1>1 DEF Typed, SameEngine
<1>4. /\ s.then = w.then /\ s.initialized = w.initialized /\ s.help_open = w.help_open
      /\ s.prev = w.prev /\ s.screen = w.screen
  BY <1>1 DEF Typed
<1> HIDE DEF s
<1>5. Rests(s)
  BY <1>1, <1>2, <1>3, <1>4, EngineKept, SameGrids DEF Rests, SameEngine, Shown
<1>6. Rests(v) /\ SameEngine(v, s)
  BY <1>5, HudRests
<1>7. SameEngine(v, w)
  BY <1>3, <1>6 DEF SameEngine
<1>8. GoesOn(w, v)
  BY <1>6, <1>7, RestsSettled, SameGrids DEF GoesOn
<1> QED
  BY <1>8 DEF s

LEMMA SpaceIs ==
  ASSUME NEW w, Rests(w), w.initialized, ~w.help_open
  PROVE  GoesOn(w, [toggle(w) EXCEPT !.then = "toggle"])
<1>1. EngineInv(w) /\ w.mode = "IDLE" /\ w.cursor \in Cells
  BY DEF Rests, EngineInv, Typed
<1> DEFINE u == toggle(w)
           t == "toggle"
<1>2. /\ EngineGood(w, u) /\ u.busy = 0
      /\ \A d \in Cells : d # w.cursor => (d \in Visible(u) <=> d \in Visible(w))
  BY <1>1, ToggleIs
<1>3. t \in {"init", "toggle", "grid", "step"}
  OBVIOUS
<1> HIDE DEF u, t
<1>4. \A c \in Cells : c[2] # w.cursor[2] => (c \in Visible(u) <=> c \in Visible(w))
  BY <1>2
<1>5. LET v == [u EXCEPT !.then = t] IN Settled(v) /\ LifeStep(w, v)
  BY <1>2, <1>3, <1>4, Waiting
<1> QED
  BY <1>5 DEF u, t, GoesOn

LEMMA ClearKeyIs ==
  ASSUME NEW w, Rests(w), w.initialized, ~w.help_open
  PROVE  GoesOn(w, [clear(w) EXCEPT !.then = "grid"])
<1>1. EngineInv(w) /\ w.mode = "IDLE"
  BY DEF Rests, EngineInv
<1> DEFINE u == clear(w)
           t == "grid"
<1>2. EngineGood(w, u)
  BY <1>1, ClearIs
<1>3. t \in {"init", "toggle", "grid", "step"} /\ t \notin {"init", "toggle"}
  OBVIOUS
<1> HIDE DEF u, t
<1>4. LET v == [u EXCEPT !.then = t] IN Settled(v) /\ LifeStep(w, v)
  BY <1>2, <1>3, Waiting
<1> QED
  BY <1>4 DEF u, t, GoesOn

LEMMA RandomKeyIs ==
  ASSUME NEW w, Rests(w), w.initialized, ~w.help_open, NEW g \in Grids
  PROVE  GoesOn(w, [start(w, "RAND") EXCEPT !.target = g, !.edited = TRUE, !.then = "grid"])
<1>1. EngineInv(w) /\ w.mode = "IDLE"
  BY DEF Rests, EngineInv
<1> SUFFICES ASSUME NEW v, v = [start(w, "RAND") EXCEPT !.target = g, !.edited = TRUE, !.then = "grid"]
             PROVE  GoesOn(w, v)
  OBVIOUS
<1>2. EngineInv(v) /\ LifeStep(w, v) /\ SameProgram(v, w) /\ v.then = "grid"
  BY <1>1, RandomIs
<1>3. ScreenInv(v)
  BY <1>2 DEF Rests, ScreenInv, SameProgram, Shown
<1> QED
  BY <1>2, <1>3 DEF GoesOn, Settled

LEMMA MoveKeyIs ==
  ASSUME NEW w, Rests(w), NEW k \in DOMAIN Moves
  PROVE  GoesOn(w, draw_hud(move_cursor(w, Moves[k][1], Moves[k][2])))
<1> DEFINE dx == Moves[k][1]
           dy == Moves[k][2]
           u == move_cursor(w, dx, dy)
           v == draw_hud(u)
<1>1. dx \in -1 .. 1 /\ dy \in -1 .. 1
  BY DEF Moves
<1> HIDE DEF dx, dy
<1>2. w \in Typed /\ EngineInv(w)
  BY DEF Rests, EngineInv
<1>3. /\ u \in Typed /\ SameEngine(u, w) /\ SameRest(u, w) /\ Visible(u) = Visible(w)
      /\ u.prev = w.prev
      /\ Shown(w, Visible(w)) => Shown(u, Visible(u))
  BY <1>1, <1>2, MoveIs
<1> HIDE DEF u
<1>4. Rests(u)
  BY <1>2, <1>3, EngineKept DEF Rests, SameEngine, SameRest
<1>5. Rests(v) /\ SameEngine(v, u)
  BY <1>4, HudRests
<1>6. SameEngine(v, w)
  BY <1>3, <1>5 DEF SameEngine
<1>7. GoesOn(w, v)
  BY <1>5, <1>6, RestsSettled, SameGrids DEF GoesOn
<1> QED
  BY <1>7 DEF u, dx, dy

LEMMA InputIs ==
  ASSUME NEW w, Rests(w), NEW k \in ConwayKeys, NEW v \in Conway_input(w, k)
  PROVE  GoesOn(w, v)
<1>1. GoesOn(w, w)
  BY RestsSettled DEF GoesOn, LifeStep
<1>2. GoesOn(w, draw_hud(w))
  BY HudRests, RestsSettled, SameGrids DEF GoesOn
<1>0. DOMAIN Moves = {"w", "s", "a", "d"}
  BY DEF Moves
<1>3. CASE ~w.initialized
  BY <1>1, <1>3 DEF Conway_input
<1>4. CASE w.initialized /\ k = "F1"
  <2>1. v = Conway_F1(w)
    BY <1>0, <1>4 DEF Conway_input, Conway_key
  <2> QED
    BY <1>4, <2>1, F1Is
<1>5. CASE w.initialized /\ k # "F1" /\ w.help_open
  <2>1. v = w
    BY <1>5 DEF Conway_input, Conway_key
  <2> QED
    BY <1>1, <2>1
<1>6. CASE w.initialized /\ ~w.help_open /\ k # "F1"
  <2>1. v \in Conway_key(w, k)
    BY <1>6 DEF Conway_input
  <2>2. CASE k = "enter"
    <3>1. v = draw_hud([w EXCEPT !.edit_mode = ~@])
      BY <1>0, <1>6, <2>1, <2>2 DEF Conway_key
    <3> QED
      BY <3>1, EnterIs
  <2>3. CASE k = "space"
    <3>1. v = [toggle(w) EXCEPT !.then = "toggle"] \/ v = draw_hud(w)
      BY <1>0, <1>6, <2>1, <2>3 DEF Conway_key
    <3> QED
      BY <1>2, <1>6, <3>1, SpaceIs
  <2>4. CASE k = "r"
    <3>1. PICK g \in RANDOM :
            v = [start(w, "RAND") EXCEPT !.target = g, !.edited = TRUE, !.then = "grid"]
      BY <1>0, <1>6, <2>1, <2>4 DEF Conway_key
    <3>2. g \in Grids
      BY ConwayAssumption DEF Grids
    <3> QED
      BY <1>6, <3>1, <3>2, RandomKeyIs
  <2>5. CASE k = "c"
    <3>1. v = [clear(w) EXCEPT !.then = "grid"]
      BY <1>0, <1>6, <2>1, <2>5 DEF Conway_key
    <3> QED
      BY <1>6, <3>1, ClearKeyIs
  <2>6. CASE k \in DOMAIN Moves
    <3>1. k \notin {"F1", "enter", "space", "r", "c"}
      BY <2>6 DEF Moves
    <3>2. v = draw_hud(move_cursor(w, Moves[k][1], Moves[k][2]))
      BY <1>6, <2>1, <2>6, <3>1 DEF Conway_key
    <3> QED
      BY <2>6, <3>2, MoveKeyIs
  <2> QED
    BY <1>6, <2>2, <2>3, <2>4, <2>5, <2>6 DEF ConwayKeys
<1> QED
  BY <1>3, <1>4, <1>5, <1>6

-----------------------------------------------------------------------------
\* The invariant of Conway: the program only waits while it runs.
ConwayInv ==
  /\ Settled(conway)
  /\ conway.then # "" => active_prog = "conway"

LEMMA OneIsNotZero == \A x : x = 1 => x # 0
OBVIOUS

LEMMA AtRest == ASSUME ConwayInv, ~InHandler PROVE Rests(conway)
BY RestsSettled DEF ConwayInv, InHandler, Conway_waiting

LEMMA ConwayInit == Init => ConwayInv
<1> SUFFICES ASSUME Init PROVE ConwayInv
  OBVIOUS
<1>1. conway = ConwayStatics
  BY DEF Init
<1>2. ConwayStatics \in Typed
  <2>1. /\ 0 \in Places /\ 0 \in Gens /\ 0 \in Counts /\ {} \in Grids
        /\ [c \in Cells |-> ""] \in Screens /\ <<0, 0>> \in Cells
    BY Sizes, ConwayAssumption DEF Grids, Screens, Cells
  <2> DEFINE e == [c \in Cells |-> ""]
             z == <<0, 0>>
  <2>2. z \in Cells /\ z \in Gens \X Counts /\ e \in Screens
    BY <2>1
  <2>3. ConwayStatics =
          [a |-> {}, b |-> {}, sel |-> 0, mode |-> "IDLE", idx |-> 0, busy |-> 0,
           generation |-> 0, pop |-> 0, target |-> {},
           initialized |-> FALSE, help_open |-> FALSE, edit_mode |-> FALSE, cursor |-> z,
           prev |-> {}, screen |-> e, hud |-> z, then |-> "", edited |-> FALSE]
    BY DEF ConwayStatics
  <2> HIDE DEF e, z
  <2> QED
    BY <2>1, <2>2, <2>3 DEF Typed, Bits, Modes, Waits
<1>3. EngineInv(ConwayStatics)
  <2>1. /\ ConwayStatics.busy = 0 /\ ConwayStatics.mode = "IDLE" /\ ConwayStatics.pop = 0
        /\ Visible(ConwayStatics) = {}
    BY DEF ConwayStatics, Visible
  <2> QED
    BY <1>2, <2>1, FS_EmptySet DEF EngineInv
<1>4. ScreenInv(ConwayStatics) /\ ConwayStatics.then = ""
  <2>1. ConwayStatics.busy = 0 /\ ConwayStatics.initialized = FALSE /\ ConwayStatics.then = ""
    BY DEF ConwayStatics
  <2> QED
    BY <2>1 DEF ScreenInv
<1> QED
  BY <1>1, <1>3, <1>4 DEF ConwayInv, Settled

LEMMA ConwayStep ==
  ConwayInv /\ [Next]_vars => ConwayInv' /\ (GoesOn(conway, conway') \/ UNCHANGED conway)
<1> SUFFICES ASSUME ConwayInv, [Next]_vars
             PROVE  ConwayInv' /\ (GoesOn(conway, conway') \/ UNCHANGED conway)
  OBVIOUS
<1>1. ASSUME UNCHANGED conway, conway.then # "" => active_prog' = "conway"
      PROVE  ConwayInv'
  BY <1>1 DEF ConwayInv
<1>2. ASSUME GoesOn(conway, conway'), conway'.then # "" => active_prog' = "conway"
      PROVE  ConwayInv'
  BY <1>2 DEF ConwayInv, GoesOn
<1>3. ASSUME UNCHANGED <<conway, active_prog>> PROVE ConwayInv'
  BY <1>1, <1>3 DEF ConwayInv
<1>4. CASE Launch
  <2>1. active_prog' = left.prog /\ active_prog = "shell"
    BY <1>4 DEF Launch
  <2>2. conway.then = ""
    BY <2>1 DEF ConwayInv
  <2>3. CASE left.prog = "conway"
    <3>1. conway' = Conway_init(conway)
      BY <1>4, <2>3 DEF Launch
    <3>2. GoesOn(conway, conway')
      BY <2>2, <3>1, AtRest, InitIs DEF GoesOn, InHandler, Conway_waiting
    <3> QED
      BY <1>2, <2>1, <2>3, <3>2
  <2>4. CASE left.prog # "conway"
    BY <1>1, <1>4, <2>2, <2>4 DEF Launch, Only
  <2> QED
    BY <2>3, <2>4
<1>5. CASE ExitKey
  BY <1>1, <1>5 DEF ExitKey, exit_active_program, Running, InHandler, Conway_waiting
<1>6. CASE Input
  <2>1. ~InHandler /\ active_prog' = active_prog /\ Rests(conway)
    BY <1>6, AtRest DEF Input, Running
  <2>2. CASE active_prog = "conway"
    <3>1. PICK k \in CONWAY_KEYS : conway' \in Conway_input(conway, k)
      BY <1>6, <2>2 DEF Input
    <3>2. k \in ConwayKeys
      BY ProgramsAssumption
    <3>3. GoesOn(conway, conway')
      BY <2>1, <3>1, <3>2, InputIs
    <3> QED
      BY <1>2, <2>1, <2>2, <3>3
  <2>3. CASE active_prog # "conway"
    BY <1>3, <1>6, <2>1, <2>3 DEF Input, Only
  <2> QED
    BY <2>2, <2>3
<1>7. CASE NoInput
  BY <1>3, <1>7 DEF NoInput
<1>8. CASE Update
  <2>1. ~InHandler /\ active_prog' = active_prog /\ Rests(conway)
    BY <1>8, AtRest DEF Update, Running
  <2>2. CASE active_prog = "conway"
    <3>1. conway' = conway \/ conway' = Conway_update(conway)
      BY <1>8, <2>2 DEF Update
    <3>2. GoesOn(conway, Conway_update(conway))
      BY <2>1, UpdateIs DEF GoesOn
    <3>3. CASE conway' = conway
      BY <1>3, <2>1, <3>3
    <3>4. CASE conway' = Conway_update(conway)
      BY <1>2, <2>1, <2>2, <3>2, <3>4
    <3> QED
      BY <3>1, <3>3, <3>4
  <2>3. CASE active_prog # "conway"
    BY <1>3, <1>8, <2>1, <2>3 DEF Update, Only
  <2> QED
    BY <2>2, <2>3
<1>9. CASE Finish
  BY <1>1, <1>9 DEF Finish, exit_active_program, Running, InHandler, Conway_waiting
<1>10. CASE EngineClock
  <2>1. /\ conway.then # "" /\ ~(conway.busy = 0 /\ conway.mode = "IDLE")
        /\ conway' = Clock(conway) /\ active_prog' = active_prog
    <3>1. conway.busy = 1 => conway.busy # 0
      BY OneIsNotZero, Zenon
    <3> QED
      BY <1>10, <3>1 DEF EngineClock, InHandler, Conway_waiting
  <2>2. GoesOn(conway, conway') /\ conway'.then = conway.then
    BY <2>1, ClockIs DEF ConwayInv, GoesOn
  <2> QED
    BY <1>2, <2>1, <2>2 DEF ConwayInv
<1>11. CASE EngineDone
  <2>1. /\ conway.then # "" /\ conway.busy = 0 /\ conway' = Conway_continue(conway)
    BY <1>11 DEF EngineDone, InHandler, Conway_waiting
  <2>2. GoesOn(conway, conway') /\ conway'.then = ""
    BY <2>1, ContinueIs DEF ConwayInv, GoesOn
  <2> QED
    BY <1>2, <2>2
<1>12. CASE RemoteMenu
  BY <1>3, <1>12 DEF RemoteMenu
<1>13. CASE ShellKey \/ ShellPrint \/ StatusBar
  BY <1>3, <1>13 DEF ShellKey, ShellPrint, StatusBar
<1>14. CASE UNCHANGED vars
  BY <1>3, <1>14 DEF vars
<1> QED
  BY <1>4, <1>5, <1>6, <1>7, <1>8, <1>9, <1>10, <1>11, <1>12, <1>13, <1>14 DEF Next

\* From here on, what the invariant says.
LEMMA ConwaySafe == Spec => []ConwayInv
BY ConwayInit, ConwayStep, PTL DEF Spec

\* An engine at rest whose grid nobody has edited since has counted its live
\* cells (conway_engine.vhd, FSM_POP), on a grid of any size and whatever keys are
\* pressed before, during and between the generations.
THEOREM PopulationSafe == Spec => []PopulationExact
<1>1. ConwayInv => PopulationExact
  BY DEF ConwayInv, Settled, EngineInv, PopulationExact
<1> QED
  BY <1>1, ConwaySafe, PTL

\* With the help closed and no call of the program pending the screen shows the
\* visible grid, although a generation and a toggled cell are drawn as the
\* difference from the shadow of the grid only (conway_hw.c:157-180).
THEOREM GridSafe == Spec => []GridShown
<1>1. ConwayInv => GridShown
  <2> SUFFICES ASSUME ConwayInv, conway.initialized, ~conway.help_open, ~Conway_waiting(conway),
                      NEW c \in Cells
               PROVE  (conway.screen[c] \in {"#", "O"}) = (c \in Visible(conway))
    BY DEF GridShown
  <2>1. conway.screen[c] \in {"#", "O"} <=> c \in Visible(conway)
    BY RestsSettled DEF ConwayInv, Rests, Conway_waiting, Shown
  <2> QED
    BY <2>1
<1> QED
  BY <1>1, ConwaySafe, PTL

\* The engine plays the game of module Life: whatever the program does, the visible
\* grid changes by whole generations, by single cells or by a clear, and never
\* shows a half computed generation (conway_hw.c:325-331), although the engine
\* computes one cell per clock.
THEOREM RefinesLife == Spec => ImplementsLife
<1>1. Init => TheLife!Init
  <2>1. Visible(ConwayStatics) = {} /\ ConwayStatics.generation = 0
    BY DEF ConwayStatics, Visible
  <2> QED
    BY <2>1 DEF Init, TheLife!Init
<1>2. ConwayInv /\ [Next]_vars => [TheLife!Next]_<<Visible(conway), conway.generation>>
  <2> SUFFICES ASSUME ConwayInv, [Next]_vars
               PROVE  [TheLife!Next]_<<Visible(conway), conway.generation>>
    OBVIOUS
  <2>1. CASE UNCHANGED conway
    BY <2>1 DEF Visible
  <2>2. CASE LifeStep(conway, conway')
    <3>1. Cells = TheLife!Cells
      BY DEF Cells, TheLife!Cells
    <3> QED
      BY <2>2, <3>1 DEF LifeStep, TheLife!Next, TheLife!Clear, TheLife!Edit, TheLife!Step, Visible
  <2> QED
    BY <2>1, <2>2, ConwayStep DEF GoesOn
<1> QED
  BY <1>1, <1>2, ConwaySafe, PTL DEF Spec, ImplementsLife, TheLife!Spec

-----------------------------------------------------------------------------
(***************************************************************************)
(* snake.c.  Until the tries of place_food run out (missed) a game keeps   *)
(* SnakeGood: the bodies are snakes, the food lies beside them, and the    *)
(* few cells that a step draws make the picture of the whole game.         *)
(***************************************************************************)
\* One step on a ring of C cells, and how far apart it leaves the two.
LEMMA RingStep ==
  ASSUME NEW C \in Nat \ {0}, NEW x \in 0 .. C - 1, NEW d \in -1 .. 1
  PROVE  LET y == (x + d + C) % C
         IN  /\ y \in 0 .. C - 1
             /\ d = 0 => (y - x + C) % C = 0
             /\ d # 0 => (y - x + C) % C \in {1, C - 1}
<1> DEFINE y == (x + d + C) % C
           z == y - x + C
<1>1. CASE C >= 3
  <2> HIDE DEF y
  <2>1. y \in 0 .. C - 1 /\ y = IF x + d = -1 THEN C - 1 ELSE IF x + d = C THEN 0 ELSE x + d
    <3>1. C \in Nat
      OBVIOUS
    <3> QED
      BY <1>1, <3>1, Wrap DEF y
  <2>2. /\ d = 0 => z = C
        /\ d = 1 => z \in {1, C + 1}
        /\ d = -1 => z \in {C - 1, C + (C - 1)}
    BY <1>1, <2>1
  <2> HIDE DEF z
  <2>3. C % C = 0 /\ 1 % C = 1 /\ (C + 1) % C = 1 /\ (C - 1) % C = C - 1 /\ (C + (C - 1)) % C = C - 1
    BY <1>1
  <2>4. d \in {-1, 0, 1}
    OBVIOUS
  <2> QED
    BY <2>1, <2>2, <2>3, <2>4 DEF z
<1>2. CASE C = 1
  <2>1. x = 0 /\ y = 0
    BY <1>2
  <2> QED
    BY <1>2, <2>1
<1>3. CASE C = 2
  <2>1. x \in {0, 1} /\ d \in {-1, 0, 1}
    BY <1>3
  <2> QED
    BY <1>3, <2>1
<1> QED
  BY <1>1, <1>2, <1>3

\* A snake turns and moves along one axis only.
Straight(p) == (p.dx = 0 /\ p.dy # 0) \/ (p.dx # 0 /\ p.dy = 0)

\* Two cells beside each other on the torus.
Beside(c, d) ==
  LET dx == (c[1] - d[1] + GRID_W) % GRID_W
      dy == (c[2] - d[2] + GRID_H) % GRID_H
  IN  \/ dx \in {1, GRID_W - 1} /\ dy = 0
      \/ dy \in {1, GRID_H - 1} /\ dx = 0

LEMMA IsSnakeIs ==
  ASSUME NEW p \in Snakes
  PROVE  IsSnake(p) <=>
           /\ Len(p.body) >= 3
           /\ \A i, j \in 1 .. Len(p.body) : i # j => p.body[i] # p.body[j]
           /\ \A i \in 1 .. Len(p.body) - 1 : Beside(p.body[i], p.body[i+1])
<1>1. p.body \in Seq(Cell)
  BY DEF Snakes
<1>2. DOMAIN p.body = 1 .. Len(p.body)
  BY <1>1, LenProperties
<1> QED
  BY <1>2 DEF IsSnake, Beside

\* The cell ahead is a cell of the torus beside the head.
LEMMA AheadIs ==
  ASSUME NEW p \in Snakes, Len(p.body) >= 1
  PROVE  /\ Ahead(p) \in Cell
         /\ Straight(p) => Beside(Ahead(p), p.body[1])
<1> DEFINE x == p.body[1][1]
           y == p.body[1][2]
           dx == p.dx
           dy == p.dy
           nx == (x + dx + GRID_W) % GRID_W
           ny == (y + dy + GRID_H) % GRID_H
<1>1. p.body[1] \in Cell
  <2>1. p.body \in Seq(Cell)
    BY DEF Snakes
  <2>2. 1 \in 1 .. Len(p.body)
    BY <2>1, LenProperties
  <2> QED
    BY <2>1, <2>2, ElementOfSeq
<1>2. x \in 0 .. GRID_W - 1 /\ y \in 0 .. GRID_H - 1 /\ dx \in -1 .. 1 /\ dy \in -1 .. 1
  BY <1>1 DEF Cell, Snakes
<1>3. Ahead(p) = <<nx, ny>>
  BY DEF Ahead
<1>4. GRID_W \in Nat \ {0} /\ GRID_H \in Nat \ {0}
  BY SnakeAssumption
<1>5. Beside(Ahead(p), p.body[1]) <=>
        \/ (nx - x + GRID_W) % GRID_W \in {1, GRID_W - 1} /\ (ny - y + GRID_H) % GRID_H = 0
        \/ (ny - y + GRID_H) % GRID_H \in {1, GRID_H - 1} /\ (nx - x + GRID_W) % GRID_W = 0
  BY <1>3 DEF Beside
<1>6. Straight(p) <=> (dx = 0 /\ dy # 0) \/ (dx # 0 /\ dy = 0)
  BY DEF Straight
<1> HIDE DEF x, y, dx, dy
<1>7. /\ nx \in 0 .. GRID_W - 1
      /\ dx = 0 => (nx - x + GRID_W) % GRID_W = 0
      /\ dx # 0 => (nx - x + GRID_W) % GRID_W \in {1, GRID_W - 1}
  BY <1>2, <1>4, RingStep
<1>8. /\ ny \in 0 .. GRID_H - 1
      /\ dy = 0 => (ny - y + GRID_H) % GRID_H = 0
      /\ dy # 0 => (ny - y + GRID_H) % GRID_H \in {1, GRID_H - 1}
  BY <1>2, <1>4, RingStep
<1> HIDE DEF nx, ny
<1> QED
  BY <1>3, <1>5, <1>6, <1>7, <1>8 DEF Cell

\* The two operators on sequences that Grown is built from.
LEMMA FrontIs ==
  ASSUME NEW S, NEW s \in Seq(S), Len(s) >= 1
  PROVE  /\ Front(s) \in Seq(S) /\ Len(Front(s)) = Len(s) - 1
         /\ \A i \in 1 .. Len(s) - 1 : Front(s)[i] = s[i]
<1> DEFINE n == Len(s)
<1>1. n \in Nat /\ n >= 1
  BY LenProperties
<1>2. \A i \in 1 .. n : s[i] \in S
  BY ElementOfSeq
<1> HIDE DEF n
<1>3. n - 1 \in Int /\ 1 \in Int /\ \A i \in 1 .. n - 1 : s[i] \in S
  BY <1>1, <1>2
<1>4. /\ SubSeq(s, 1, n-1) \in Seq(S)
      /\ Len(SubSeq(s, 1, n-1)) = IF 1 <= n-1 THEN (n-1)-1+1 ELSE 0
      /\ \A i \in 1 .. (n-1)-1+1 : SubSeq(s, 1, n-1)[i] = s[1+i-1]
  BY <1>3, SubSeqProperties
<1>5. (n-1)-1+1 = n-1 /\ (~(1 <= n-1) => n - 1 = 0) /\ \A i \in 1 .. n - 1 : 1+i-1 = i
  BY <1>1
<1> QED
  BY <1>4, <1>5 DEF Front, n

LEMMA PrependIs ==
  ASSUME NEW S, NEW a \in S, NEW t \in Seq(S)
  PROVE  LET b == <<a>> \o t
         IN  /\ b \in Seq(S) /\ Len(b) = Len(t) + 1 /\ b[1] = a
             /\ \A i \in 1 .. Len(t) : b[i+1] = t[i]
<1> DEFINE h == <<a>>
           b == h \o t
           n == Len(t)
<1>1. h \in Seq(S) /\ Len(h) = 1 /\ h[1] = a
  OBVIOUS
<1>2. n \in Nat
  BY LenProperties
<1> HIDE DEF h
<1>3. /\ b \in Seq(S) /\ Len(b) = 1 + n
      /\ \A i \in 1 .. 1 + n : b[i] = IF i <= 1 THEN h[i] ELSE t[i - 1]
  <2>1. /\ h \o t \in Seq(S) /\ Len(h \o t) = Len(h) + Len(t)
        /\ \A i \in 1 .. Len(h) + Len(t) : (h \o t)[i] = IF i <= Len(h) THEN h[i] ELSE t[i - Len(h)]
    BY <1>1, ConcatProperties
  <2> HIDE DEF n, b
  <2> QED
    BY <1>1, <2>1 DEF n, b
<1> HIDE DEF b, n
<1>4. b[1] = a
  BY <1>1, <1>2, <1>3
<1>5. ASSUME NEW i \in 1 .. n PROVE b[i+1] = t[i]
  <2>1. i + 1 \in 1 .. 1 + n /\ ~(i + 1 <= 1) /\ (i + 1) - 1 = i
    BY <1>2
  <2> QED
    BY <1>3, <2>1
<1> QED
  BY <1>2, <1>3, <1>4, <1>5 DEF b, h, n

\* The cells of a body.
LEMMA BodyCells ==
  ASSUME NEW p \in Snakes
  PROVE  /\ p.body \in Seq(Cell) /\ Len(p.body) \in Nat
         /\ \A c : c \in ToSet(p.body) <=> \E i \in 1 .. Len(p.body) : p.body[i] = c
         /\ \A i \in 1 .. Len(p.body) : p.body[i] \in Cell
<1>1. p.body \in Seq(Cell)
  BY DEF Snakes
<1>2. DOMAIN p.body = 1 .. Len(p.body) /\ Len(p.body) \in Nat
  BY <1>1, LenProperties
<1> QED
  BY <1>1, <1>2, ElementOfSeq DEF ToSet

\* A snake that moves on stays a snake: the head is new, and the tail leaves
\* unless it ate.
LEMMA GrownIs ==
  ASSUME NEW p \in Snakes, IsSnake(p), Straight(p), ~hits_body(p, Ahead(p)),
         NEW ate \in BOOLEAN, ate => Ahead(p) \notin ToSet(p.body)
  PROVE  LET q == Grown(p, ate)
         IN  /\ q \in Snakes /\ IsSnake(q) /\ Straight(q)
             /\ q.body[1] = Ahead(p) /\ q.body[2] = p.body[1]
             /\ \A c : c \in ToSet(q.body) <=> \/ c = Ahead(p)
                                               \/ c \in ToSet(p.body) /\ (ate \/ c # Last(p.body))
<1> DEFINE a == Ahead(p)
           s == p.body
           n == Len(s)
           t == IF ate THEN s ELSE Front(s)
           b == <<a>> \o t
           m == IF ate THEN n ELSE n - 1
<1>1. /\ s \in Seq(Cell) /\ n \in Nat
      /\ \A c : c \in ToSet(s) <=> \E i \in 1 .. n : s[i] = c
      /\ \A i \in 1 .. n : s[i] \in Cell
  BY BodyCells
<1>2. /\ n >= 3
      /\ \A i, j \in 1 .. n : i # j => s[i] # s[j]
      /\ \A i \in 1 .. n - 1 : Beside(s[i], s[i+1])
  BY IsSnakeIs
<1>3. \A i \in 1 .. n - 1 : s[i] # a
  BY DEF hits_body
<1>4. a \in Cell /\ Beside(a, s[1])
  BY <1>1, <1>2, AheadIs
<1>5. ate => a \notin ToSet(s)
  OBVIOUS
<1>6. Last(s) = s[n]
  BY DEF Last
<1> SUFFICES ASSUME NEW q, q = Grown(p, ate)
    PROVE  /\ q \in Snakes /\ IsSnake(q) /\ Straight(q)
           /\ q.body[1] = a /\ q.body[2] = s[1]
           /\ \A c : c \in ToSet(q.body) <=> c = a \/ (c \in ToSet(s) /\ (ate \/ c # Last(s)))
  OBVIOUS
<1>7. q = [p EXCEPT !.body = b]
  BY DEF Grown
<1> HIDE DEF a, s
<1>8. t \in Seq(Cell) /\ Len(t) = m /\ \A i \in 1 .. m : t[i] = s[i]
  <2>1. /\ Front(s) \in Seq(Cell) /\ Len(Front(s)) = Len(s) - 1
        /\ \A i \in 1 .. Len(s) - 1 : Front(s)[i] = s[i]
    BY <1>1, <1>2, FrontIs
  <2> QED
    BY <1>1, <2>1
<1> HIDE DEF t
<1>9. b \in Seq(Cell) /\ Len(b) = m + 1 /\ b[1] = a /\ \A i \in 1 .. m : b[i+1] = t[i]
  BY <1>4, <1>8, PrependIs
<1> HIDE DEF b
<1>10. m \in Nat /\ m >= 2 /\ m <= n
  BY <1>1, <1>2
<1>11. \A i \in 1 .. m : s[i] # a
  BY <1>1, <1>3, <1>5
<1>12. ASSUME NEW c PROVE (\E i \in 1 .. m : s[i] = c) <=> (c \in ToSet(s) /\ (ate \/ c # Last(s)))
  <2>1. CASE ate
    BY <1>1, <2>1
  <2>2. CASE ~ate
    <3>1. m = n - 1 /\ \A i \in 1 .. n : i \in 1 .. n - 1 \/ i = n
      BY <1>1, <2>2
    <3>2. \A i \in 1 .. n - 1 : s[i] # s[n]
      BY <1>1, <1>2
    <3>3. \A i \in 1 .. n - 1 : i \in 1 .. n
      BY <1>1
    <3> HIDE DEF m, n
    <3> QED
      BY <1>1, <1>6, <2>2, <3>1, <3>2, <3>3
  <2> QED
    BY <2>1, <2>2
<1> HIDE DEF m, n
<1>13. q \in Snakes /\ q.body = b /\ q.dx = p.dx /\ q.dy = p.dy
  BY <1>7, <1>9 DEF Snakes
<1>14. \A j \in 2 .. m + 1 : j - 1 \in 1 .. m /\ (j - 1) + 1 = j
  BY <1>10
<1>15. \A j \in 2 .. m + 1 : b[j] = s[j - 1]
  BY <1>8, <1>9, <1>14
<1>16. \A i \in 1 .. m + 1 : i = 1 \/ i \in 2 .. m + 1
  BY <1>10
<1>17. IsSnake(q)
  <2>1. Len(b) >= 3
    BY <1>9, <1>10
  <2>2. ASSUME NEW i \in 1 .. m + 1, NEW j \in 1 .. m + 1, i # j PROVE b[i] # b[j]
    <3>1. CASE i = 1
      BY <1>9, <1>11, <1>14, <1>15, <1>16, <2>2, <3>1
    <3>2. CASE j = 1
      BY <1>9, <1>11, <1>14, <1>15, <1>16, <2>2, <3>2
    <3>3. CASE i # 1 /\ j # 1
      <4>1. i \in 2 .. m + 1 /\ j \in 2 .. m + 1
        BY <1>16, <3>3
      <4>2. i - 1 \in 1 .. n /\ j - 1 \in 1 .. n /\ i - 1 # j - 1
        BY <1>1, <1>10, <2>2, <4>1
      <4> QED
        BY <1>2, <1>15, <4>1, <4>2
    <3> QED
      BY <3>1, <3>2, <3>3
  <2>3. ASSUME NEW i \in 1 .. m PROVE Beside(b[i], b[i+1])
    <3>1. CASE i = 1
      <4>1. b[i] = a /\ b[i+1] = s[1]
        BY <1>8, <1>9, <1>10, <3>1
      <4> QED
        BY <1>4, <4>1
    <3>2. CASE i # 1
      <4>1. i - 1 \in 1 .. n - 1 /\ i \in 2 .. m + 1 /\ i + 1 \in 2 .. m + 1 /\ (i + 1) - 1 = i /\ (i - 1) + 1 = i
        BY <1>1, <1>10, <3>2
      <4>2. b[i] = s[i - 1] /\ b[i+1] = s[i]
        BY <1>15, <4>1
      <4>3. Beside(s[i - 1], s[(i - 1) + 1])
        BY <1>2, <4>1
      <4> QED
        BY <4>1, <4>2, <4>3
    <3> QED
      BY <3>1, <3>2
  <2>4. (m + 1) - 1 = m
    BY <1>10
  <2> QED
    BY <1>9, <1>13, <2>1, <2>2, <2>3, <2>4, IsSnakeIs
<1>18. Straight(q)
  BY <1>13 DEF Straight
<1>19. q.body[2] = s[1]
  <2>1. 1 \in 1 .. m /\ 1 + 1 = 2
    BY <1>10
  <2> QED
    BY <1>8, <1>9, <1>13, <2>1
<1>20. ASSUME NEW c PROVE c \in ToSet(b) <=> c = a \/ \E i \in 1 .. m : s[i] = c
  <2>1. c \in ToSet(b) <=> \E j \in 1 .. m + 1 : b[j] = c
    BY <1>9, <1>13, BodyCells
  <2>2. 1 \in 1 .. m + 1
    BY <1>10
  <2>3. ASSUME NEW i \in 1 .. m PROVE i + 1 \in 1 .. m + 1 /\ b[i+1] = s[i]
    BY <1>8, <1>9, <1>10
  <2>4. (\E j \in 1 .. m + 1 : b[j] = c) => c = a \/ \E i \in 1 .. m : s[i] = c
    BY <1>9, <1>14, <1>15, <1>16
  <2>5. (c = a \/ \E i \in 1 .. m : s[i] = c) => \E j \in 1 .. m + 1 : b[j] = c
    BY <1>9, <2>2, <2>3
  <2> QED
    BY <2>1, <2>4, <2>5
<1> QED
  BY <1>9, <1>12, <1>13, <1>17, <1>18, <1>19, <1>20

\* The screen, as it is drawn.
Glyphs == {"blank", "food", "text", "O", "o", "#", "="}
Areas  == [Cell -> Glyphs]

LEMMA SnakeStateIs ==
  SnakeState = [p1 : Snakes, p2 : Snakes, two_player : BOOLEAN, initialized : BOOLEAN,
                game_over : BOOLEAN, help_open : BOOLEAN, choosing : 0..2, winner : 0..3,
                food : Cell, grid : Areas, crossed : BOOLEAN, missed : BOOLEAN]
BY DEF SnakeState, Areas, Glyphs

LEMMA PaintedIs ==
  ASSUME NEW g \in Areas, NEW cells, NEW what \in Glyphs
  PROVE  /\ Painted(g, cells, what) \in Areas
         /\ \A c \in Cell : Painted(g, cells, what)[c] = IF c \in cells THEN what ELSE g[c]
BY DEF Painted, Areas

LEMMA FilledIs ==
  ASSUME NEW what \in Glyphs
  PROVE  Filled(what) \in Areas /\ \A c \in Cell : Filled(what)[c] = what
BY DEF Filled, Areas

LEMMA GlyphsAre ==
  /\ "blank" \in Glyphs /\ "food" \in Glyphs /\ "text" \in Glyphs /\ "O" \in Glyphs /\ "o" \in Glyphs
  /\ "#" \in Glyphs /\ "=" \in Glyphs
BY DEF Glyphs

\* The picture, cell by cell.
LEMMA PictureIs ==
  ASSUME NEW s
  PROVE  /\ Picture(s) \in Areas
         /\ ~s.game_over => \A c \in Cell : Picture(s)[c] =
              IF c = s.food THEN "food"
              ELSE IF s.two_player /\ c = s.p2.body[1] THEN "#"
              ELSE IF s.two_player /\ c \in ToSet(s.p2.body) THEN "="
              ELSE IF c = s.p1.body[1] THEN "O"
              ELSE IF c \in ToSet(s.p1.body) THEN "o" ELSE "blank"
<1> DEFINE zero   == Filled("blank")
           first  == BodyDrawn(zero, s.p1, "O", "o")
           over   == BodyDrawn(first, s.p2, "#", "=")
           second == IF s.two_player THEN over ELSE first
           game   == Painted(second, {s.food}, "food")
           last   == Painted(game, MessageBox, "text")
<1>1. zero \in Areas /\ \A c \in Cell : zero[c] = "blank"
  BY FilledIs, GlyphsAre
<1>2. Picture(s) = IF s.game_over THEN last ELSE game
  BY DEF Picture
<1> HIDE DEF zero
<1>3. first \in Areas /\ \A c \in Cell : first[c] =
        IF c = s.p1.body[1] THEN "O" ELSE IF c \in ToSet(s.p1.body) THEN "o" ELSE zero[c]
  <2> DEFINE front == s.p1.body[1]
             cells == ToSet(s.p1.body)
  <2>1. BodyDrawn(zero, s.p1, "O", "o") = Painted(Painted(zero, cells, "o"), {front}, "O")
    BY DEF BodyDrawn
  <2> HIDE DEF front, cells
  <2>2. Painted(Painted(zero, cells, "o"), {front}, "O") =
          [c \in Cell |-> IF c = front THEN "O" ELSE IF c \in cells THEN "o" ELSE zero[c]]
    BY DEF Painted
  <2> QED
    BY <1>1, <2>1, <2>2, GlyphsAre DEF Areas, front, cells
<1> HIDE DEF first
<1>4. over \in Areas /\ \A c \in Cell : over[c] =
        IF c = s.p2.body[1] THEN "#" ELSE IF c \in ToSet(s.p2.body) THEN "=" ELSE first[c]
  <2> DEFINE front == s.p2.body[1]
             cells == ToSet(s.p2.body)
  <2>1. BodyDrawn(first, s.p2, "#", "=") = Painted(Painted(first, cells, "="), {front}, "#")
    BY DEF BodyDrawn
  <2> HIDE DEF front, cells
  <2>2. Painted(Painted(first, cells, "="), {front}, "#") =
          [c \in Cell |-> IF c = front THEN "#" ELSE IF c \in cells THEN "=" ELSE first[c]]
    BY DEF Painted
  <2> QED
    BY <1>3, <2>1, <2>2, GlyphsAre DEF Areas, front, cells
<1> HIDE DEF over
<1>5. second \in Areas
  BY <1>3, <1>4
<1>6. \A c \in Cell : second[c] = IF s.two_player THEN over[c] ELSE first[c]
  OBVIOUS
<1> HIDE DEF second
<1>7. game \in Areas /\ \A c \in Cell : game[c] = IF c \in {s.food} THEN "food" ELSE second[c]
  BY <1>5, PaintedIs, GlyphsAre
<1> HIDE DEF game
<1>8. last \in Areas
  BY <1>7, PaintedIs, GlyphsAre
<1> HIDE DEF last
<1>9. Picture(s) \in Areas
  BY <1>2, <1>7, <1>8
<1>10. ASSUME ~s.game_over, NEW c \in Cell
       PROVE  Picture(s)[c] =
                IF c = s.food THEN "food"
                ELSE IF s.two_player /\ c = s.p2.body[1] THEN "#"
                ELSE IF s.two_player /\ c \in ToSet(s.p2.body) THEN "="
                ELSE IF c = s.p1.body[1] THEN "O"
                ELSE IF c \in ToSet(s.p1.body) THEN "o" ELSE "blank"
  <2>1. Picture(s)[c] = game[c]
    BY <1>2, <1>10
  <2>2. game[c] = IF c = s.food THEN "food" ELSE second[c]
    BY <1>7
  <2>3. second[c] = IF s.two_player THEN over[c] ELSE first[c]
    BY <1>6
  <2> QED
    BY <1>1, <1>3, <1>4, <2>1, <2>2, <2>3
<1> QED
  BY <1>9, <1>10

-----------------------------------------------------------------------------
\* The invariant of a game.  Two snakes may share a cell once one eats while
\* the other moves onto its tail; the screen is exact until then.  Nothing is
\* said of a game in which food has lain under a body.
SnakeGood(s) ==
  /\ s \in SnakeState
  /\ s.initialized => s.choosing = 0
  /\ Playing(s) /\ ~s.missed =>
       /\ IsSnake(s.p1) /\ Straight(s.p1)
       /\ s.two_player => IsSnake(s.p2) /\ Straight(s.p2)
       /\ s.food \notin Bodies(s)
       /\ s.two_player /\ ~s.crossed => ToSet(s.p1.body) \cap ToSet(s.p2.body) = {}
       /\ ~s.help_open /\ ~s.game_over /\ ~s.crossed => s.grid = Picture(s)

\* What every game keeps: the types, and a body for each snake that plays.
SnakeTyped(s) ==
  /\ s \in SnakeState
  /\ s.initialized => s.choosing = 0
  /\ s.initialized => Len(s.p1.body) >= 1 /\ (s.two_player => Len(s.p2.body) >= 1)

LEMMA MissedGood == ASSUME NEW s, SnakeTyped(s), s.missed PROVE SnakeGood(s)
BY DEF SnakeTyped, SnakeGood

\* The same bodies and food: the same picture.
SameGame(t, s) ==
  /\ t.p1.body = s.p1.body /\ t.p2.body = s.p2.body /\ t.two_player = s.two_player
  /\ t.initialized = s.initialized /\ t.choosing = s.choosing /\ t.food = s.food
  /\ t.crossed = s.crossed /\ t.missed = s.missed

LEMMA SameGameIs == ASSUME NEW s, NEW t, SameGame(t, s)
  PROVE /\ Playing(t) <=> Playing(s)
        /\ Bodies(t) = Bodies(s)
        /\ t.game_over = s.game_over => Picture(t) = Picture(s)
BY DEF SameGame, Playing, Bodies, Picture, BodyDrawn

LEMMA SameTyped == ASSUME NEW s, SnakeTyped(s), NEW n \in SnakeState, SameGame(n, s)
  PROVE SnakeTyped(n)
BY DEF SnakeTyped, SameGame

\* place_food moves the food only, and notes it when it lies on a body.
LEMMA PlaceFood ==
  ASSUME NEW s \in SnakeState, NEW n \in place_food(s)
  PROVE  /\ n \in SnakeState /\ n.food \in FOOD /\ n.grid = s.grid
         /\ n.p1 = s.p1 /\ n.p2 = s.p2 /\ n.two_player = s.two_player
         /\ n.initialized = s.initialized /\ n.game_over = s.game_over
         /\ n.help_open = s.help_open /\ n.choosing = s.choosing
         /\ n.crossed = s.crossed /\ Bodies(n) = Bodies(s)
         /\ s.missed => n.missed
         /\ ~n.missed => n.food \notin Bodies(n)
<1>1. PICK m \in {[s EXCEPT !.food = f] : f \in FOOD} : n = [m EXCEPT !.missed = @ \/ food_on_any(m)]
  BY DEF place_food
<1>2. PICK f \in FOOD : m = [s EXCEPT !.food = f]
  BY <1>1
<1>3. f \in Cell
  BY SnakeAssumption
<1>4. /\ m \in SnakeState /\ m.food = f /\ m.grid = s.grid
      /\ m.p1 = s.p1 /\ m.p2 = s.p2 /\ m.two_player = s.two_player
      /\ m.initialized = s.initialized /\ m.game_over = s.game_over
      /\ m.help_open = s.help_open /\ m.choosing = s.choosing
      /\ m.crossed = s.crossed /\ m.missed = s.missed
  BY <1>2, <1>3, SnakeStateIs
<1>5. PICK t : t = (m.missed \/ food_on_any(m))
  OBVIOUS
<1>6. t \in BOOLEAN /\ (t <=> s.missed \/ f \in Bodies(m))
  BY <1>4, <1>5 DEF food_on_any
<1>7. n = [m EXCEPT !.missed = t]
  BY <1>1, <1>5
<1>8. /\ n \in SnakeState /\ n.food = f /\ n.grid = s.grid
      /\ n.p1 = s.p1 /\ n.p2 = s.p2 /\ n.two_player = s.two_player
      /\ n.initialized = s.initialized /\ n.game_over = s.game_over
      /\ n.help_open = s.help_open /\ n.choosing = s.choosing
      /\ n.crossed = s.crossed /\ n.missed = t
  BY <1>4, <1>6, <1>7, SnakeStateIs
<1>9. Bodies(n) = Bodies(s) /\ Bodies(m) = Bodies(s)
  BY <1>4, <1>8 DEF Bodies
<1> QED
  BY <1>6, <1>8, <1>9

\* init_snake gives three cells in a row.
LEMMA InitSnakeIs ==
  ASSUME NEW sx \in Int, NEW sy \in 0 .. GRID_H - 1, NEW dx \in {-1, 1},
         \A i \in 1 .. 3 : sx - (i - 1) * dx \in 0 .. GRID_W - 1
  PROVE  LET p == init_snake(sx, sy, dx)
         IN  /\ p \in Snakes /\ IsSnake(p) /\ Straight(p)
             /\ \A c : c \in ToSet(p.body) <=> c \in {<<sx, sy>>, <<sx - dx, sy>>, <<sx - 2 * dx, sy>>}
<1> DEFINE p == init_snake(sx, sy, dx)
           b == [i \in 1 .. 3 |-> <<sx - (i - 1) * dx, sy>>]
<1>1. p = [body |-> b, dx |-> dx, dy |-> 0]
  BY DEF init_snake
<1>2. b \in Seq(Cell) /\ Len(b) = 3
  <2>1. b \in [1 .. 3 -> Cell]
    BY DEF Cell
  <2>2. DOMAIN b = 1 .. 3
    OBVIOUS
  <2> HIDE DEF b
  <2>3. b \in Seq(Cell)
    <3>1. 3 \in Nat
      OBVIOUS
    <3>2. [1 .. 3 -> Cell] \in {[1 .. n -> Cell] : n \in Nat}
      BY <3>1
    <3> QED
      BY <2>1, <3>2, SeqDef, Zenon
  <2>4. Len(b) \in Nat /\ DOMAIN b = 1 .. Len(b)
    BY <2>3, LenProperties
  <2>5. Len(b) = 3
    <3> DEFINE n == Len(b)
    <3>1. n \in Nat /\ 1 .. n = 1 .. 3
      BY <2>2, <2>4
    <3> HIDE DEF n
    <3>2. 3 \in 1 .. n
      <4>1. 3 \in 1 .. 3
        OBVIOUS
      <4> QED
        BY <3>1, <4>1, Zenon
    <3>3. n \in 1 .. n
      BY <3>1, <3>2
    <3>4. n \in 1 .. 3
      BY <3>1, <3>3
    <3>5. n = 3
      BY <3>1, <3>2, <3>4
    <3> QED
      BY <3>5 DEF n
  <2> QED
    BY <2>3, <2>5
<1>3. b[1] = <<sx, sy>> /\ b[2] = <<sx - dx, sy>> /\ b[3] = <<sx - 2 * dx, sy>>
  <2>1. sx - (1 - 1) * dx = sx /\ sx - (2 - 1) * dx = sx - dx /\ sx - (3 - 1) * dx = sx - 2 * dx
    OBVIOUS
  <2> QED
    BY <2>1
<1> HIDE DEF b
<1>4. p \in Snakes /\ p.body = b /\ Straight(p)
  BY <1>1, <1>2 DEF Snakes, Straight
<1> HIDE DEF p
<1>5. IsSnake(p)
  <2>1. \A i, j \in 1 .. 3 : i # j => b[i] # b[j]
    BY <1>3
  <2>2. \A i \in 1 .. 2 : Beside(b[i], b[i+1])
    <3>1. /\ sx - (sx - dx) + GRID_W = dx + GRID_W
          /\ (sx - dx) - (sx - 2 * dx) + GRID_W = dx + GRID_W
          /\ sy - sy + GRID_H = GRID_H
      BY SnakeAssumption
    <3>2. (dx + GRID_W) % GRID_W \in {1, GRID_W - 1} /\ GRID_H % GRID_H = 0
      <4>1. CASE dx = 1
        BY <4>1, SnakeAssumption
      <4>2. CASE dx = -1
        BY <4>2, SnakeAssumption
      <4> QED
        BY <4>1, <4>2
    <3>3. Beside(b[1], b[2])
      BY <1>3, <3>1, <3>2 DEF Beside
    <3>4. Beside(b[2], b[3])
      BY <1>3, <3>1, <3>2 DEF Beside
    <3> QED
      BY <3>3, <3>4
  <2>3. Len(p.body) = 3 /\ Len(p.body) - 1 = 2 /\ Len(p.body) >= 3
    <3>1. Len(p.body) = 3
      BY <1>2, <1>4
    <3> QED
      BY <3>1
  <2>4. /\ \A i, j \in 1 .. Len(p.body) : i # j => p.body[i] # p.body[j]
        /\ \A i \in 1 .. Len(p.body) - 1 : Beside(p.body[i], p.body[i+1])
    BY <1>4, <2>1, <2>2, <2>3
  <2> QED
    BY <1>4, <2>3, <2>4, IsSnakeIs
<1>6. \A c : c \in ToSet(b) <=> c \in {b[1], b[2], b[3]}
  <2>1. \A c : c \in ToSet(p.body) <=> \E i \in 1 .. Len(p.body) : p.body[i] = c
    BY <1>4, BodyCells
  <2>2. \A c : c \in ToSet(b) <=> \E i \in 1 .. 3 : b[i] = c
    BY <1>2, <1>4, <2>1
  <2> QED
    BY <2>2
<1> QED
  BY <1>3, <1>4, <1>5, <1>6 DEF p

LEMMA BodiesAre ==
  ASSUME NEW s \in SnakeState
  PROVE  \A c : c \in Bodies(s) <=> c \in ToSet(s.p1.body) \/ (s.two_player /\ c \in ToSet(s.p2.body))
BY DEF Bodies

\* start_game, from any state: F1, a mode and a level, or r at the end of a game.
LEMMA StartGame ==
  ASSUME NEW s \in SnakeState, NEW n \in start_game(s)
  PROVE  SnakeTyped(n) /\ SnakeGood(n)
<1> DEFINE x1  == GRID_W \div 4
           x2  == (GRID_W * 3) \div 4
           y   == GRID_H \div 2
           q1  == init_snake(x1, y, 1)
           i2  == init_snake(x2, y, -1)
           q2  == IF s.two_player THEN i2 ELSE s.p2
           new == [s EXCEPT !.choosing = 0, !.winner = 0, !.game_over = FALSE,
                            !.initialized = TRUE, !.crossed = FALSE, !.missed = FALSE,
                            !.p1 = q1, !.p2 = q2]
<1>1. /\ x1 \in Int /\ x2 \in Int /\ y \in 0 .. GRID_H - 1
      /\ \A i \in 1 .. 3 : x1 - (i - 1) * 1 \in 0 .. GRID_W - 1
      /\ \A i \in 1 .. 3 : x2 - (i - 1) * (-1) \in 0 .. GRID_W - 1
      /\ x1 < x2
  BY SnakeAssumption
<1>2. PICK m \in place_food(new) : n = [m EXCEPT !.grid = Picture(m)]
  BY DEF start_game
<1> HIDE DEF x1, x2, y
<1>3. /\ q1 \in Snakes /\ IsSnake(q1) /\ Straight(q1)
      /\ \A c : c \in ToSet(q1.body) <=> c \in {<<x1, y>>, <<x1 - 1, y>>, <<x1 - 2 * 1, y>>}
  BY <1>1, InitSnakeIs
<1>4. /\ i2 \in Snakes /\ IsSnake(i2) /\ Straight(i2)
      /\ \A c : c \in ToSet(i2.body) <=> c \in {<<x2, y>>, <<x2 - (-1), y>>, <<x2 - 2 * (-1), y>>}
  BY <1>1, InitSnakeIs
<1> HIDE DEF q1, i2
<1>5. ToSet(q1.body) \cap ToSet(i2.body) = {}
  BY <1>1, <1>3, <1>4
<1>6. q2 \in Snakes /\ (s.two_player => q2 = i2)
  BY <1>4, SnakeStateIs
<1> HIDE DEF q2
<1>7. /\ new \in SnakeState /\ new.p1 = q1 /\ new.p2 = q2 /\ new.two_player = s.two_player
      /\ new.choosing = 0 /\ new.initialized = TRUE /\ new.game_over = FALSE /\ new.crossed = FALSE
  <2> DEFINE mid == [s EXCEPT !.choosing = 0, !.winner = 0, !.game_over = FALSE, !.initialized = TRUE,
                              !.crossed = FALSE, !.missed = FALSE]
  <2>1. new = [mid EXCEPT !.p1 = q1, !.p2 = q2]
    BY SnakeStateIs
  <2>2. /\ mid \in SnakeState /\ mid.two_player = s.two_player
        /\ mid.choosing = 0 /\ mid.initialized = TRUE /\ mid.game_over = FALSE /\ mid.crossed = FALSE
    <3>1. 0 \in 0 .. 2 /\ 0 \in 0 .. 3 /\ TRUE \in BOOLEAN /\ FALSE \in BOOLEAN
      OBVIOUS
    <3>2. mid \in SnakeState
      BY <3>1, SnakeStateIs, Zenon
    <3>3. mid.two_player = s.two_player
      BY SnakeStateIs
    <3>4. mid.choosing = 0
      BY SnakeStateIs
    <3>5. mid.initialized = TRUE
      BY SnakeStateIs
    <3>6. mid.game_over = FALSE
      BY SnakeStateIs
    <3>7. mid.crossed = FALSE
      BY SnakeStateIs
    <3> QED
      BY <3>2, <3>3, <3>4, <3>5, <3>6, <3>7
  <2> HIDE DEF mid, new
  <2> QED
    BY <1>3, <1>6, <2>1, <2>2, SnakeStateIs
<1> HIDE DEF new
<1>8. /\ m \in SnakeState /\ m.p1 = q1 /\ m.p2 = q2 /\ m.two_player = s.two_player
      /\ m.choosing = 0 /\ m.initialized = TRUE /\ m.game_over = FALSE /\ m.crossed = FALSE
      /\ ~m.missed => m.food \notin Bodies(m)
  <2>1. /\ m \in SnakeState
        /\ m.p1 = new.p1 /\ m.p2 = new.p2 /\ m.two_player = new.two_player
        /\ m.initialized = new.initialized /\ m.game_over = new.game_over
        /\ m.choosing = new.choosing /\ m.crossed = new.crossed
        /\ ~m.missed => m.food \notin Bodies(m)
    BY <1>7, PlaceFood
  <2> QED
    BY <1>7, <2>1
<1>9. Picture(m) \in Areas
  BY PictureIs
<1> DEFINE pic == Picture(m)
<1>10. /\ n \in SnakeState /\ n.grid = pic /\ SameGame(n, m) /\ n.game_over = m.game_over
       /\ n.p1 = m.p1 /\ n.p2 = m.p2 /\ n.food = m.food
  <2>1. pic \in Areas /\ n = [m EXCEPT !.grid = pic]
    BY <1>2, <1>9
  <2> HIDE DEF pic
  <2>2. /\ n \in SnakeState /\ n.grid = pic /\ n.game_over = m.game_over
        /\ n.p1 = m.p1 /\ n.p2 = m.p2 /\ n.food = m.food /\ n.two_player = m.two_player
        /\ n.initialized = m.initialized /\ n.choosing = m.choosing /\ n.crossed = m.crossed
        /\ n.missed = m.missed
    BY <1>8, <2>1, SnakeStateIs
  <2> QED
    BY <2>2 DEF SameGame
<1>11. Bodies(n) = Bodies(m) /\ Picture(n) = pic /\ Playing(n)
  BY <1>8, <1>10, SameGameIs DEF Playing
<1> HIDE DEF pic
<1>12. ~n.missed => n.food \notin Bodies(n)
  BY <1>8, <1>10, <1>11 DEF SameGame
<1>13. n.p1 = q1 /\ n.p2 = q2 /\ n.two_player = s.two_player /\ n.choosing = 0
  BY <1>8, <1>10 DEF SameGame
<1>14. SnakeGood(n)
  BY <1>3, <1>4, <1>5, <1>6, <1>10, <1>11, <1>12, <1>13 DEF SnakeGood
<1>15. Len(q1.body) >= 1 /\ Len(i2.body) >= 1
  <2>1. Len(q1.body) >= 3 /\ Len(i2.body) >= 3
    BY <1>3, <1>4 DEF IsSnake
  <2> DEFINE l1 == Len(q1.body)
             l2 == Len(i2.body)
  <2>2. l1 \in Nat /\ l2 \in Nat
    BY <1>3, <1>4, BodyCells
  <2> HIDE DEF l1, l2
  <2>3. (l1 >= 3 => l1 >= 1) /\ (l2 >= 3 => l2 >= 1)
    BY <2>2
  <2> QED
    BY <2>1, <2>3 DEF l1, l2
<1> QED
  BY <1>6, <1>10, <1>13, <1>14, <1>15 DEF SnakeTyped

\* The end of a game keeps the bodies.
Ended(s, w) == [s EXCEPT !.game_over = TRUE, !.winner = w, !.grid = Painted(s.grid, MessageBox, "text")]

LEMMA OverIs ==
  ASSUME NEW s \in SnakeState, NEW w \in 0 .. 3,
         NEW n, n = Ended(s, w)
  PROVE  n \in SnakeState /\ SameGame(n, s) /\ (SnakeGood(s) => SnakeGood(n))
<1> DEFINE g == Painted(s.grid, MessageBox, "text")
<1>1. s \in SnakeState /\ s.grid \in Areas
  BY SnakeStateIs
<1>2. g \in Areas
  BY <1>1, PaintedIs, GlyphsAre
<1>3. n = [s EXCEPT !.game_over = TRUE, !.winner = w, !.grid = g]
  BY DEF Ended
<1> HIDE DEF g
<1>4. /\ n \in SnakeState /\ n.game_over = TRUE /\ n.p1 = s.p1 /\ n.p2 = s.p2 /\ n.food = s.food
      /\ n.two_player = s.two_player /\ n.initialized = s.initialized /\ n.choosing = s.choosing
      /\ n.crossed = s.crossed /\ n.missed = s.missed
  BY <1>1, <1>2, <1>3, SnakeStateIs
<1>5. SameGame(n, s)
  BY <1>4 DEF SameGame
<1>6. Bodies(n) = Bodies(s) /\ (Playing(n) <=> Playing(s))
  BY <1>5, SameGameIs
<1> QED
  BY <1>4, <1>5, <1>6 DEF SnakeGood

\* The help comes and goes; the picture is drawn again.
LEMMA ToggleHelpIs ==
  ASSUME NEW s \in SnakeState
  PROVE  LET n == toggle_help(s)
         IN  n \in SnakeState /\ SameGame(n, s) /\ (SnakeGood(s) => SnakeGood(n))
<1>1. s \in SnakeState /\ s.grid \in Areas
  BY SnakeStateIs
<1>2. CASE s.choosing # 0 \/ ~s.initialized
  BY <1>2 DEF toggle_help, SameGame
<1>3. CASE ~(s.choosing # 0 \/ ~s.initialized) /\ s.help_open
  <2> DEFINE g == Picture(s)
  <2>1. g \in Areas
    BY PictureIs
  <2> SUFFICES ASSUME NEW n, n = [s EXCEPT !.help_open = FALSE, !.grid = g]
             PROVE  n \in SnakeState /\ SameGame(n, s) /\ (SnakeGood(s) => SnakeGood(n))
    BY <1>3 DEF toggle_help
  <2> HIDE DEF g
  <2>2. /\ n \in SnakeState /\ n.game_over = s.game_over /\ n.p1 = s.p1 /\ n.p2 = s.p2 /\ n.food = s.food
        /\ n.two_player = s.two_player /\ n.initialized = s.initialized /\ n.choosing = s.choosing
        /\ n.crossed = s.crossed /\ n.missed = s.missed /\ n.grid = g
    BY <1>1, <2>1, SnakeStateIs
  <2>3. Bodies(n) = Bodies(s) /\ (Playing(n) <=> Playing(s)) /\ Picture(n) = g
    BY <2>2, SameGameIs DEF SameGame, g
  <2> QED
    BY <2>2, <2>3 DEF SnakeGood, SameGame
<1>4. CASE ~(s.choosing # 0 \/ ~s.initialized) /\ ~s.help_open
  <2> DEFINE g == Painted(s.grid, HelpBox, "text")
  <2>1. g \in Areas
    BY <1>1, PaintedIs, GlyphsAre
  <2> SUFFICES ASSUME NEW n, n = [s EXCEPT !.help_open = TRUE, !.grid = g]
             PROVE  n \in SnakeState /\ SameGame(n, s) /\ (SnakeGood(s) => SnakeGood(n))
    BY <1>4 DEF toggle_help
  <2> HIDE DEF g
  <2>2. /\ n \in SnakeState /\ n.p1 = s.p1 /\ n.p2 = s.p2 /\ n.food = s.food /\ n.help_open = TRUE
        /\ n.two_player = s.two_player /\ n.initialized = s.initialized /\ n.choosing = s.choosing
        /\ n.crossed = s.crossed /\ n.missed = s.missed
    BY <1>1, <2>1, SnakeStateIs
  <2>3. SameGame(n, s)
    BY <2>2 DEF SameGame
  <2>4. Bodies(n) = Bodies(s) /\ (Playing(n) <=> Playing(s))
    BY <2>3, SameGameIs
  <2> QED
    BY <2>2, <2>3, <2>4 DEF SnakeGood
<1> QED
  BY <1>2, <1>3, <1>4

\* A turn keeps the body, and a snake moves along one axis.
LEMMA TurnIs ==
  ASSUME NEW p \in Snakes, NEW k, NEW keys, keys \in {Wasd, Arrows}
  PROVE  LET q == Turn(p, keys, k)
         IN  /\ q \in Snakes /\ q.body = p.body
             /\ Straight(p) => Straight(q)
             /\ IsSnake(p) => IsSnake(q)
<1>1. \A j \in DOMAIN keys : keys[j] \in {<<0, -1>>, <<0, 1>>, <<-1, 0>>, <<1, 0>>}
  <2>1. \A j \in DOMAIN Wasd : Wasd[j] \in {<<0, -1>>, <<0, 1>>, <<-1, 0>>, <<1, 0>>}
    BY DEF Wasd
  <2>2. \A j \in DOMAIN Arrows : Arrows[j] \in {<<0, -1>>, <<0, 1>>, <<-1, 0>>, <<1, 0>>}
    BY DEF Arrows
  <2> QED
    BY <2>1, <2>2
<1> SUFFICES ASSUME NEW q, q = Turn(p, keys, k)
    PROVE  q \in Snakes /\ q.body = p.body /\ (Straight(p) => Straight(q)) /\ (IsSnake(p) => IsSnake(q))
  OBVIOUS
<1>2. CASE q = p
  BY <1>2
<1>3. CASE q # p
  <2>1. k \in DOMAIN keys /\ q = [p EXCEPT !.dx = keys[k][1], !.dy = keys[k][2]]
    BY <1>3 DEF Turn
  <2> DEFINE u == keys[k][1]
             v == keys[k][2]
  <2>2. u \in -1 .. 1 /\ v \in -1 .. 1 /\ ((u = 0 /\ v # 0) \/ (u # 0 /\ v = 0))
    BY <1>1, <2>1
  <2>3. q = [p EXCEPT !.dx = u, !.dy = v]
    BY <2>1
  <2> HIDE DEF u, v
  <2>4. q \in Snakes /\ q.body = p.body /\ q.dx = u /\ q.dy = v
    BY <2>2, <2>3 DEF Snakes
  <2> QED
    BY <2>2, <2>4 DEF Straight, IsSnake
<1> QED
  BY <1>2, <1>3

\* What a game in play keeps.
LEMMA FoodOff ==
  ASSUME NEW s, SnakeGood(s), Playing(s), ~s.missed
  PROVE  /\ s \in SnakeState /\ IsSnake(s.p1) /\ Straight(s.p1)
         /\ s.two_player => IsSnake(s.p2) /\ Straight(s.p2)
         /\ s.food \notin ToSet(s.p1.body) /\ (s.two_player => s.food \notin ToSet(s.p2.body))
         /\ s.two_player /\ ~s.crossed => ToSet(s.p1.body) \cap ToSet(s.p2.body) = {}
BY BodiesAre DEF SnakeGood

\* One cell of the game area after a step: what a step draws over the picture of
\* the game before is the picture of the game after.
LEMMA CellDrawn ==
  ASSUME NEW two \in BOOLEAN, NEW ate1 \in BOOLEAN, NEW ate2 \in BOOLEAN,
         NEW B1, NEW B2, NEW Q1, NEW Q2, NEW food, NEW a1, NEW a2, NEW h1, NEW h2, NEW l1, NEW l2,
         \A c : c \in Q1 <=> c = a1 \/ (c \in B1 /\ (ate1 \/ c # l1)),
         two => \A c : c \in Q2 <=> c = a2 \/ (c \in B2 /\ (ate2 \/ c # l2)),
         h1 \in Q1, two => h2 \in Q2, l1 \in B1, two => l2 \in B2,
         two => B1 \cap B2 = {}, two => Q1 \cap Q2 = {},
         food \notin B1, two => food \notin B2,
         ate1 => a1 = food, ~ate1 => a1 # food, two /\ ate2 => a2 = food, two /\ ~ate2 => a2 # food,
         NEW c, NEW old, NEW new,
         old = IF c = food THEN "food" ELSE IF two /\ c = h2 THEN "#" ELSE IF two /\ c \in B2 THEN "="
               ELSE IF c = h1 THEN "O" ELSE IF c \in B1 THEN "o" ELSE "blank",
         new = IF two /\ c = a2 THEN "#" ELSE IF two /\ c = h2 THEN "="
               ELSE IF c = a1 THEN "O" ELSE IF c = h1 THEN "o"
               ELSE IF (~ate1 /\ c = l1) \/ (two /\ ~ate2 /\ c = l2) THEN "blank" ELSE old
  PROVE  new = IF two /\ c = a2 THEN "#" ELSE IF two /\ c \in Q2 THEN "="
               ELSE IF c = a1 THEN "O" ELSE IF c \in Q1 THEN "o"
               ELSE IF c = food THEN "food" ELSE "blank"
<1>1. CASE two
  <2>1. CASE c = a2 \/ c = h2
    BY <1>1, <2>1
  <2>2. CASE ~(c = a2 \/ c = h2) /\ (c = a1 \/ c = h1)
    BY <1>1, <2>2
  <2>3. CASE ~(c = a2 \/ c = h2) /\ ~(c = a1 \/ c = h1)
    BY <1>1, <2>3
  <2> QED
    BY <2>1, <2>2, <2>3
<1>2. CASE ~two
  BY <1>2
<1> QED
  BY <1>1, <1>2

\* The last part of a body is one of its cells.
LEMMA TailIs ==
  ASSUME NEW p \in Snakes, IsSnake(p)
  PROVE  /\ Last(p.body) \in ToSet(p.body) /\ p.body[1] \in ToSet(p.body)
         /\ Len(p.body) >= 3
<1>1. Len(p.body) \in Nat /\ Len(p.body) >= 3
  BY BodyCells, IsSnakeIs
<1>2. Len(p.body) \in 1 .. Len(p.body) /\ 1 \in 1 .. Len(p.body)
  BY <1>1
<1> QED
  BY <1>1, <1>2, BodyCells DEF Last

\* Every key, in every state of the program.
LEMMA InputSnake ==
  ASSUME NEW s, SnakeTyped(s), NEW k \in SnakeKeys, NEW n \in Snake_input(s, k)
  PROVE  SnakeTyped(n) /\ (SnakeGood(s) => SnakeGood(n))
<1>1. s \in SnakeState /\ s.grid \in Areas
  BY SnakeStateIs DEF SnakeTyped
<1>2. CASE k = "F1"
  <2>1. n = toggle_help(s)
    BY <1>2 DEF Snake_input
  <2> QED
    BY <1>1, <2>1, ToggleHelpIs, SameTyped
<1>3. CASE k # "F1" /\ s.help_open
  <2>1. n = s
    BY <1>3 DEF Snake_input
  <2> QED
    BY <2>1
<1>4. CASE k # "F1" /\ ~s.help_open /\ s.choosing = 1
  <2>1. CASE k \in {"1", "2"}
    <3> DEFINE two == k = "2"
               g   == Filled("text")
    <3>1. n = [s EXCEPT !.two_player = two, !.choosing = 2, !.grid = g]
      BY <1>4, <2>1 DEF Snake_input
    <3>2. two \in BOOLEAN /\ g \in Areas
      BY FilledIs, GlyphsAre
    <3> HIDE DEF two, g
    <3>3. n \in SnakeState /\ n.choosing = 2
      <4> DEFINE t == 2
      <4>1. t \in 0 .. 2
        OBVIOUS
      <4> HIDE DEF t
      <4>2. n = [s EXCEPT !.two_player = two, !.choosing = t, !.grid = g]
        BY <3>1 DEF t
      <4>3. n \in SnakeState /\ n.choosing = t
        BY <1>1, <3>2, <4>1, <4>2, SnakeStateIs
      <4> QED
        BY <4>3 DEF t
    <3>4. ~Playing(n)
      BY <3>3 DEF Playing
    <3>5. ~n.initialized
      <4>1. ~s.initialized
        BY <1>4 DEF SnakeTyped
      <4> QED
        BY <1>1, <3>1, <4>1, SnakeStateIs
    <3> QED
      BY <3>3, <3>4, <3>5 DEF SnakeGood, SnakeTyped
  <2>2. CASE k \notin {"1", "2"}
    <3>1. n = s
      BY <1>4, <2>2 DEF Snake_input
    <3> QED
      BY <3>1
  <2> QED
    BY <2>1, <2>2
<1>5. CASE k # "F1" /\ ~s.help_open /\ s.choosing = 2
  <2>1. n \in start_game(s) \/ n = s
    BY <1>5 DEF Snake_input
  <2> QED
    BY <1>1, <2>1, StartGame
<1>6. CASE k # "F1" /\ ~s.help_open /\ s.choosing = 0 /\ s.game_over
  <2>1. n \in start_game(s) \/ n = s
    BY <1>6 DEF Snake_input
  <2> QED
    BY <1>1, <2>1, StartGame
<1>7. CASE k # "F1" /\ ~s.help_open /\ s.choosing = 0 /\ ~s.game_over
  <2> DEFINE q1 == IF s.two_player THEN Turn(s.p1, Wasd, k) ELSE Turn(Turn(s.p1, Wasd, k), Arrows, k)
             q2 == IF s.two_player THEN Turn(s.p2, Arrows, k) ELSE s.p2
  <2>1. n = IF s.two_player THEN [s EXCEPT !.p1 = q1, !.p2 = q2] ELSE [s EXCEPT !.p1 = q1]
    <3>1. n = IF s.two_player
              THEN [s EXCEPT !.p1 = Turn(@, Wasd, k), !.p2 = Turn(@, Arrows, k)]
              ELSE [s EXCEPT !.p1 = Turn(Turn(@, Wasd, k), Arrows, k)]
      BY <1>7 DEF Snake_input
    <3>2. CASE s.two_player
      BY <3>1, <3>2
    <3>3. CASE ~s.two_player
      BY <3>1, <3>3
    <3> QED
      BY <3>2, <3>3
  <2>2. s.p1 \in Snakes /\ s.p2 \in Snakes
    BY <1>1, SnakeStateIs
  <2>3. /\ q1 \in Snakes /\ q1.body = s.p1.body
        /\ Straight(s.p1) => Straight(q1)
        /\ IsSnake(s.p1) => IsSnake(q1)
    <3> DEFINE w == Turn(s.p1, Wasd, k)
    <3>1. /\ w \in Snakes /\ w.body = s.p1.body
          /\ Straight(s.p1) => Straight(w)
          /\ IsSnake(s.p1) => IsSnake(w)
      BY <2>2, TurnIs
    <3> HIDE DEF w
    <3>2. /\ Turn(w, Arrows, k) \in Snakes /\ Turn(w, Arrows, k).body = w.body
          /\ Straight(w) => Straight(Turn(w, Arrows, k))
          /\ IsSnake(w) => IsSnake(Turn(w, Arrows, k))
      BY <3>1, TurnIs
    <3>3. q1 = IF s.two_player THEN w ELSE Turn(w, Arrows, k)
      BY DEF w
    <3> HIDE DEF q1
    <3> QED
      BY <3>1, <3>2, <3>3
  <2>4. /\ q2 \in Snakes /\ q2.body = s.p2.body
        /\ Straight(s.p2) => Straight(q2)
        /\ IsSnake(s.p2) => IsSnake(q2)
    <3> DEFINE w == Turn(s.p2, Arrows, k)
    <3>1. /\ w \in Snakes /\ w.body = s.p2.body
          /\ Straight(s.p2) => Straight(w)
          /\ IsSnake(s.p2) => IsSnake(w)
      BY <2>2, TurnIs
    <3>3. q2 = IF s.two_player THEN w ELSE s.p2
      BY DEF w
    <3> HIDE DEF q2, w
    <3> QED
      BY <2>2, <3>1, <3>3
  <2>5. s.two_player \in BOOLEAN /\ (~s.two_player => q2 = s.p2)
    BY <1>1, SnakeStateIs
  <2> HIDE DEF q1, q2
  <2>6. /\ n \in SnakeState /\ n.p1 = q1 /\ n.p2 = q2 /\ n.food = s.food /\ n.help_open = s.help_open
        /\ n.two_player = s.two_player /\ n.initialized = s.initialized /\ n.choosing = s.choosing
        /\ n.crossed = s.crossed /\ n.missed = s.missed
        /\ n.game_over = s.game_over /\ n.grid = s.grid
    <3>1. CASE s.two_player
      BY <1>1, <2>1, <2>3, <2>4, <3>1, SnakeStateIs
    <3>2. CASE ~s.two_player
      BY <1>1, <2>1, <2>3, <2>5, <3>2, SnakeStateIs
    <3> QED
      BY <3>1, <3>2
  <2>7. Bodies(n) = Bodies(s) /\ (Playing(n) <=> Playing(s)) /\ Picture(n) = Picture(s)
    BY <2>3, <2>4, <2>6, SameGameIs DEF SameGame
  <2>8. SameGame(n, s)
    BY <2>3, <2>4, <2>6 DEF SameGame
  <2>9. SnakeGood(s) => SnakeGood(n)
    BY <2>3, <2>4, <2>6, <2>7 DEF SnakeGood
  <2> QED
    BY <2>6, <2>8, <2>9, SameTyped
<1>8. s.choosing \in {0, 1, 2}
  BY <1>1, SnakeStateIs
<1> QED
  BY <1>2, <1>3, <1>4, <1>5, <1>6, <1>7, <1>8

\* What draw_step leaves on the screen.
LEMMA StepDrawn ==
  ASSUME NEW s \in SnakeState, NEW n, n.p1.body[1] \in Cell,
         NEW ate1 \in BOOLEAN, NEW ate2 \in BOOLEAN,
         NEW a1, a1 = n.p1.body[1], NEW h1, h1 = n.p1.body[2],
         NEW a2, a2 = n.p2.body[1], NEW h2, h2 = n.p2.body[2],
         NEW l1, l1 = Last(s.p1.body), NEW l2, l2 = Last(s.p2.body)
  PROVE  \E g \in Areas :
           /\ draw_step(s, n, ate1, ate2) = [n EXCEPT !.grid = g]
           /\ \A c \in Cell : g[c] =
                IF s.two_player /\ c = a2 THEN "#" ELSE IF s.two_player /\ c = h2 THEN "="
                ELSE IF c = a1 THEN "O" ELSE IF c = h1 THEN "o"
                ELSE IF (~ate1 /\ c = l1) \/ (s.two_player /\ ~ate2 /\ c = l2) THEN "blank"
                ELSE s.grid[c]
<1> DEFINE ends == (IF ate1 THEN {} ELSE {l1}) \cup (IF s.two_player /\ ~ate2 THEN {l2} ELSE {})
           base == Painted(s.grid, ends, "blank")
           first == Painted(Painted(base, {h1}, "o"), {a1}, "O")
           over == Painted(Painted(first, {h2}, "="), {a2}, "#")
           g == IF s.two_player THEN over ELSE first
           two == s.two_player
<1>1. draw_step(s, n, ate1, ate2) = [n EXCEPT !.grid = g]
  BY DEF draw_step, HeadDrawn
<1>2. s.grid \in Areas
  BY SnakeStateIs
<1>3. \A c : c \in ends <=> (~ate1 /\ c = l1) \/ (two /\ ~ate2 /\ c = l2)
  OBVIOUS
<1> HIDE DEF ends
<1>4. base \in Areas /\ \A c \in Cell : base[c] = IF c \in ends THEN "blank" ELSE s.grid[c]
  BY <1>2, PaintedIs, GlyphsAre
<1> HIDE DEF base
<1>5. first = [c \in Cell |-> IF c = a1 THEN "O" ELSE IF c = h1 THEN "o" ELSE base[c]]
  BY DEF Painted
<1> HIDE DEF first
<1>6. over = [c \in Cell |-> IF c = a2 THEN "#" ELSE IF c = h2 THEN "=" ELSE first[c]]
  BY DEF Painted
<1> HIDE DEF over
<1>7. first \in Areas
  BY <1>4, <1>5, GlyphsAre DEF Areas
<1>8. over \in Areas
  BY <1>6, <1>7, GlyphsAre DEF Areas
<1>9. g \in Areas
  BY <1>7, <1>8
<1>10. ASSUME NEW c \in Cell
       PROVE  g[c] = IF two /\ c = a2 THEN "#" ELSE IF two /\ c = h2 THEN "="
                     ELSE IF c = a1 THEN "O" ELSE IF c = h1 THEN "o"
                     ELSE IF (~ate1 /\ c = l1) \/ (two /\ ~ate2 /\ c = l2) THEN "blank"
                     ELSE s.grid[c]
  <2>1. g[c] = IF two THEN over[c] ELSE first[c]
    OBVIOUS
  <2>2. over[c] = IF c = a2 THEN "#" ELSE IF c = h2 THEN "=" ELSE first[c]
    BY <1>6
  <2>3. first[c] = IF c = a1 THEN "O" ELSE IF c = h1 THEN "o" ELSE base[c]
    BY <1>5
  <2> HIDE DEF g
  <2> QED
    BY <1>3, <1>4, <2>1, <2>2, <2>3
<1> HIDE DEF g
<1> QED
  BY <1>1, <1>9, <1>10

\* A step in which no snake dies.
LEMMA MovedIs ==
  ASSUME NEW s, SnakeGood(s), Playing(s), ~s.help_open, ~s.game_over,
         ~hits_body(s.p1, Ahead(s.p1)), s.two_player => ~hits_body(s.p2, Ahead(s.p2)),
         ~s.missed, NEW n \in Moved(s), ~n.missed
  PROVE  SnakeGood(n)
<1> DEFINE a1   == Ahead(s.p1)
           a2   == Ahead(s.p2)
           two  == s.two_player
           food == s.food
           ate1 == a1 = food
           ate2 == two /\ a2 = food
           q1   == Grown(s.p1, ate1)
           r2   == Grown(s.p2, ate2)
           q2   == IF two THEN r2 ELSE s.p2
           B1   == ToSet(s.p1.body)
           B2   == ToSet(s.p2.body)
           Q1   == ToSet(q1.body)
           Q2   == ToSet(q2.body)
           h1   == s.p1.body[1]
           h2   == s.p2.body[1]
           l1   == Last(s.p1.body)
           l2   == Last(s.p2.body)
           x    == s.crossed \/ (two /\ Q1 \cap Q2 # {})
           next == [s EXCEPT !.p1 = q1, !.p2 = q2]
<1>1. /\ s \in SnakeState /\ IsSnake(s.p1) /\ Straight(s.p1)
      /\ two => IsSnake(s.p2) /\ Straight(s.p2)
      /\ food \notin B1 /\ (two => food \notin B2)
      /\ two /\ ~s.crossed => B1 \cap B2 = {}
  BY FoodOff
<1>2. /\ s.p1 \in Snakes /\ s.p2 \in Snakes /\ two \in BOOLEAN /\ food \in Cell
      /\ s.crossed \in BOOLEAN
  BY <1>1, SnakeStateIs
<1>3. /\ ate1 \in BOOLEAN /\ (ate1 => a1 \notin B1)
      /\ q1 \in Snakes /\ IsSnake(q1) /\ Straight(q1)
      /\ q1.body[1] = a1 /\ q1.body[2] = h1
      /\ \A c : c \in Q1 <=> c = a1 \/ (c \in B1 /\ (ate1 \/ c # l1))
  <2>1. ate1 \in BOOLEAN /\ (ate1 => a1 \notin B1)
    BY <1>1
  <2>2. ASSUME NEW ate, ate = ate1
        PROVE  LET q == Grown(s.p1, ate)
               IN /\ q \in Snakes /\ IsSnake(q) /\ Straight(q)
                  /\ q.body[1] = a1 /\ q.body[2] = h1
                  /\ \A c : c \in ToSet(q.body) <=> c = a1 \/ (c \in B1 /\ (ate \/ c # l1))
    <3> HIDE DEF ate1
    <3>1. ate \in BOOLEAN /\ (ate => Ahead(s.p1) \notin ToSet(s.p1.body))
      BY <2>1, <2>2
    <3> QED
      BY <1>1, <1>2, <3>1, GrownIs
  <2> QED
    BY <2>1, <2>2
<1>4. ASSUME two
      PROVE  /\ ate2 \in BOOLEAN /\ (ate2 => a2 \notin B2)
             /\ r2 \in Snakes /\ IsSnake(r2) /\ Straight(r2)
             /\ r2.body[1] = a2 /\ r2.body[2] = h2
             /\ \A c : c \in ToSet(r2.body) <=> c = a2 \/ (c \in B2 /\ (ate2 \/ c # l2))
  <2>1. ate2 \in BOOLEAN /\ (ate2 => a2 \notin B2)
    BY <1>1, <1>2, <1>4
  <2>2. ASSUME NEW ate, ate = ate2
        PROVE  LET q == Grown(s.p2, ate)
               IN /\ q \in Snakes /\ IsSnake(q) /\ Straight(q)
                  /\ q.body[1] = a2 /\ q.body[2] = h2
                  /\ \A c : c \in ToSet(q.body) <=> c = a2 \/ (c \in B2 /\ (ate \/ c # l2))
    <3> HIDE DEF ate2
    <3>1. ate \in BOOLEAN /\ (ate => Ahead(s.p2) \notin ToSet(s.p2.body))
      BY <2>1, <2>2
    <3> QED
      BY <1>1, <1>2, <1>4, <3>1, GrownIs
  <2> QED
    BY <2>1, <2>2
<1>5. q2 \in Snakes /\ (two => q2 = r2) /\ (~two => q2 = s.p2) /\ ate2 \in BOOLEAN
  BY <1>2, <1>4
<1>6. /\ ate1 => a1 = food
      /\ ~ate1 => a1 # food
      /\ two /\ ate2 => a2 = food
      /\ two /\ ~ate2 => a2 # food
      /\ ate2 => two
  OBVIOUS
<1>7. /\ l1 \in B1 /\ h1 \in B1 /\ (two => l2 \in B2 /\ h2 \in B2)
      /\ a1 \in Cell /\ h1 \in Q1 /\ (two => h2 \in ToSet(r2.body))
  <2>1. l1 \in B1 /\ h1 \in B1
    BY <1>1, <1>2, TailIs
  <2>2. two => l2 \in B2 /\ h2 \in B2
    BY <1>1, <1>2, TailIs
  <2>3. h1 \in Q1
    <3>1. Len(q1.body) >= 3 /\ Len(q1.body) \in Nat
      BY <1>3, TailIs, BodyCells
    <3>2. 2 \in 1 .. Len(q1.body)
      BY <3>1
    <3> QED
      BY <1>3, <3>2, BodyCells
  <2>4. ASSUME two PROVE h2 \in ToSet(r2.body)
    <3>1. Len(r2.body) >= 3 /\ Len(r2.body) \in Nat
      BY <1>4, <2>4, TailIs, BodyCells
    <3>2. 2 \in 1 .. Len(r2.body)
      BY <3>1
    <3> QED
      BY <1>4, <2>4, <3>2, BodyCells
  <2>5. a1 \in Cell
    <3>1. Len(s.p1.body) >= 3 /\ Len(s.p1.body) \in Nat
      BY <1>1, <1>2, TailIs, BodyCells
    <3>2. Len(s.p1.body) >= 1
      BY <3>1
    <3> QED
      BY <1>2, <3>2, AheadIs
  <2> QED
    BY <2>1, <2>2, <2>3, <2>4, <2>5
<1> HIDE DEF ate1, ate2, q1, r2
<1>8. next \in SnakeState /\ next.p1 = q1 /\ next.p2 = q2 /\ next.grid = s.grid /\ next.crossed = s.crossed
      /\ next.food = food /\ next.two_player = two /\ next.initialized = s.initialized
      /\ next.choosing = s.choosing /\ next.help_open = s.help_open /\ next.game_over = s.game_over
  BY <1>1, <1>3, <1>5, SnakeStateIs
<1>9. PICK g \in Areas :
        /\ draw_step(s, next, ate1, ate2) = [next EXCEPT !.grid = g]
        /\ \A c \in Cell : g[c] =
              IF two /\ c = a2 THEN "#" ELSE IF two /\ c = h2 THEN "="
              ELSE IF c = a1 THEN "O" ELSE IF c = h1 THEN "o"
              ELSE IF (~ate1 /\ c = l1) \/ (two /\ ~ate2 /\ c = l2) THEN "blank"
              ELSE s.grid[c]
  <2>1. /\ next.p1.body[1] = a1 /\ next.p1.body[2] = h1
        /\ two => next.p2.body[1] = a2 /\ next.p2.body[2] = h2
    BY <1>3, <1>4, <1>5, <1>8
  <2> DEFINE nb == next.p2.body[1]
             nh == next.p2.body[2]
             t  == next
  <2> HIDE DEF next
  <2>2. \E g \in Areas :
           /\ draw_step(s, next, ate1, ate2) = [next EXCEPT !.grid = g]
           /\ \A c \in Cell : g[c] =
                IF two /\ c = nb THEN "#" ELSE IF two /\ c = nh THEN "="
                ELSE IF c = a1 THEN "O" ELSE IF c = h1 THEN "o"
                ELSE IF (~ate1 /\ c = l1) \/ (two /\ ~ate2 /\ c = l2) THEN "blank"
                ELSE s.grid[c]
    <3> DEFINE b1 == a1
               c1 == h1
    <3>1. next.p1.body[1] \in Cell
      BY <1>7, <2>1
    <3> HIDE DEF two, a1, a2, h1, h2, l1, l2, B1, B2
    <3> QED
      BY <1>1, <1>3, <1>5, <2>1, <3>1, StepDrawn DEF two, l1, l2
  <2>3. PICK g \in Areas :
           /\ draw_step(s, next, ate1, ate2) = [next EXCEPT !.grid = g]
           /\ \A c \in Cell : g[c] =
                IF two /\ c = nb THEN "#" ELSE IF two /\ c = nh THEN "="
                ELSE IF c = a1 THEN "O" ELSE IF c = h1 THEN "o"
                ELSE IF (~ate1 /\ c = l1) \/ (two /\ ~ate2 /\ c = l2) THEN "blank"
                ELSE s.grid[c]
    BY <2>2
  <2>4. two => nb = a2 /\ nh = h2
    BY <2>1
  <2> HIDE DEF nb, nh, two, a1, a2, h1, h2, l1, l2
  <2>5. ASSUME NEW c \in Cell
        PROVE  g[c] = IF two /\ c = a2 THEN "#" ELSE IF two /\ c = h2 THEN "="
                      ELSE IF c = a1 THEN "O" ELSE IF c = h1 THEN "o"
                      ELSE IF (~ate1 /\ c = l1) \/ (two /\ ~ate2 /\ c = l2) THEN "blank"
                      ELSE s.grid[c]
    BY <2>3, <2>4
  <2> QED
    BY <2>3, <2>5
<1> HIDE DEF next
<1> DEFINE seen == [[next EXCEPT !.grid = g] EXCEPT !.crossed = x]
<1>10. Moved(s) = IF ate1 \/ ate2 THEN {[m EXCEPT !.grid[m.food] = "food"] : m \in place_food(seen)}
                  ELSE {seen}
  <2>1. next = [s EXCEPT !.p1 = Grown(@, ate1), !.p2 = IF s.two_player THEN Grown(@, ate2) ELSE @]
    <3> HIDE DEF q1
    <3>1. q2 = IF two THEN Grown(s.p2, ate2) ELSE s.p2
      BY DEF r2
    <3> HIDE DEF q2
    <3> QED
      BY <3>1 DEF next, q1
  <2>2. ate1 = (Ahead(s.p1) = s.food) /\ ate2 = (s.two_player /\ Ahead(s.p2) = s.food)
    BY DEF ate1, ate2
  <2>3. seen = [draw_step(s, next, ate1, ate2) EXCEPT !.crossed =
                 @ \/ (s.two_player /\ ToSet(next.p1.body) \cap ToSet(next.p2.body) # {})]
    <3> DEFINE d == [next EXCEPT !.grid = g]
               y == d.crossed \/ (s.two_player /\ ToSet(next.p1.body) \cap ToSet(next.p2.body) # {})
    <3>1. d.crossed = s.crossed
      BY <1>8, SnakeStateIs
    <3>2. y = x
      <4>1. y <=> x
        BY <1>8, <3>1
      <4>2. y \in BOOLEAN /\ x \in BOOLEAN
        BY <1>2, <3>1
      <4> QED
        BY <4>1, <4>2
    <3>3. [draw_step(s, next, ate1, ate2) EXCEPT !.crossed =
              @ \/ (s.two_player /\ ToSet(next.p1.body) \cap ToSet(next.p2.body) # {})]
          = [d EXCEPT !.crossed = y]
      BY <1>9
    <3> HIDE DEF d, y, x
    <3> QED
      BY <3>2, <3>3 DEF d
  <2> QED
    BY <2>1, <2>2, <2>3 DEF Moved
<1>11. x \in BOOLEAN
  BY <1>2
<1> HIDE DEF x
<1>12. /\ seen \in SnakeState /\ seen.p1 = q1 /\ seen.p2 = q2 /\ seen.food = food
       /\ seen.two_player = two /\ seen.initialized = s.initialized /\ seen.choosing = s.choosing
       /\ seen.help_open = s.help_open /\ seen.game_over = s.game_over
       /\ seen.grid = g /\ seen.crossed = x
  <2> DEFINE t == [next EXCEPT !.grid = g]
  <2>1. /\ t \in SnakeState /\ t.p1 = q1 /\ t.p2 = q2 /\ t.food = food
        /\ t.two_player = two /\ t.initialized = s.initialized /\ t.choosing = s.choosing
        /\ t.help_open = s.help_open /\ t.game_over = s.game_over /\ t.grid = g
    BY <1>8, SnakeStateIs
  <2> HIDE DEF t
  <2>2. seen = [t EXCEPT !.crossed = x]
    BY DEF t
  <2> HIDE DEF seen, two, food
  <2> QED
    BY <1>11, <2>1, <2>2, SnakeStateIs
<1> HIDE DEF seen
<1>13. /\ n \in SnakeState /\ n.p1 = q1 /\ n.p2 = q2
       /\ n.two_player = two /\ n.initialized = s.initialized /\ n.choosing = s.choosing
       /\ n.help_open = s.help_open /\ n.game_over = s.game_over /\ n.crossed = x
       /\ n.food \in Cell /\ n.food \notin Bodies(n)
       /\ (~ate1 /\ ~ate2) => n.food = food
       /\ \A c \in Cell : n.grid[c] = IF (ate1 \/ ate2) /\ c = n.food THEN "food" ELSE g[c]
  <2>1. CASE ate1 \/ ate2
    <3>1. PICK m \in place_food(seen) : n = [m EXCEPT !.grid[m.food] = "food"]
      BY <1>10, <2>1
    <3>2. /\ m \in SnakeState /\ m.food \in FOOD /\ m.grid = seen.grid
          /\ m.p1 = seen.p1 /\ m.p2 = seen.p2 /\ m.two_player = seen.two_player
          /\ m.initialized = seen.initialized /\ m.game_over = seen.game_over
          /\ m.help_open = seen.help_open /\ m.choosing = seen.choosing
          /\ m.crossed = seen.crossed
          /\ ~m.missed => m.food \notin Bodies(m)
      BY <1>12, PlaceFood
    <3> DEFINE e == [m.grid EXCEPT ![m.food] = "food"]
    <3>3. e \in Areas /\ \A c \in Cell : e[c] = IF c = m.food THEN "food" ELSE g[c]
      <4>1. m.grid = g /\ "food" \in Glyphs
        BY <1>12, <3>2, GlyphsAre
      <4> QED
        BY <4>1 DEF Areas
    <3>4. n = [m EXCEPT !.grid = e]
      BY <3>1
    <3> HIDE DEF e
    <3>5. /\ n \in SnakeState /\ n.food = m.food /\ n.grid = e
          /\ n.p1 = m.p1 /\ n.p2 = m.p2 /\ n.two_player = m.two_player
          /\ n.initialized = m.initialized /\ n.game_over = m.game_over
          /\ n.help_open = m.help_open /\ n.choosing = m.choosing
          /\ n.crossed = m.crossed /\ n.missed = m.missed
      BY <3>2, <3>3, <3>4, SnakeStateIs
    <3>6. /\ n.p1 = q1 /\ n.p2 = q2
          /\ n.two_player = two /\ n.initialized = s.initialized /\ n.choosing = s.choosing
          /\ n.help_open = s.help_open /\ n.game_over = s.game_over /\ n.crossed = x
      BY <1>12, <3>2, <3>5
    <3>7. Bodies(n) = Bodies(m)
      BY <3>5, SameGameIs DEF Bodies
    <3>8. n.food \in Cell /\ n.food \notin Bodies(n)
      BY <3>2, <3>5, <3>7, SnakeAssumption
    <3>9. \A c \in Cell : n.grid[c] = IF (ate1 \/ ate2) /\ c = n.food THEN "food" ELSE g[c]
      BY <2>1, <3>3, <3>5
    <3> HIDE DEF two
    <3> QED
      BY <2>1, <3>5, <3>6, <3>8, <3>9
  <2>2. CASE ~(ate1 \/ ate2)
    <3>1. n = seen
      BY <1>10, <2>2
    <3>2. n.food \notin Bodies(n)
      <4>1. food # a1 /\ (two => food # a2)
        BY <1>6, <2>2
      <4>2. food \notin Q1 /\ (two => food \notin Q2)
        BY <1>1, <1>3, <1>4, <1>5, <4>1
      <4> QED
        BY <1>12, <3>1, <4>2, BodiesAre
    <3> QED
      BY <1>2, <1>12, <2>2, <3>1, <3>2
  <2> QED
    BY <2>1, <2>2
<1>14. ASSUME ~x PROVE n.grid = Picture(n)
  <2>1. ~s.crossed /\ (two => Q1 \cap Q2 = {}) /\ (two => B1 \cap B2 = {})
    BY <1>1, <1>14 DEF x
  <2>2. s.grid = Picture(s)
    BY <2>1 DEF SnakeGood
  <2>3. Picture(n) \in Areas /\ Picture(s) \in Areas
    BY PictureIs
  <2>4. n.grid \in Areas
    BY <1>13, SnakeStateIs
  <2>5. ASSUME NEW c \in Cell PROVE n.grid[c] = Picture(n)[c]
    <3> DEFINE old == s.grid[c]
               new == g[c]
    <3>1. old = IF c = food THEN "food" ELSE IF two /\ c = h2 THEN "#" ELSE IF two /\ c \in B2 THEN "="
                ELSE IF c = h1 THEN "O" ELSE IF c \in B1 THEN "o" ELSE "blank"
      BY <2>2, PictureIs
    <3>2. new = IF two /\ c = a2 THEN "#" ELSE IF two /\ c = h2 THEN "="
                ELSE IF c = a1 THEN "O" ELSE IF c = h1 THEN "o"
                ELSE IF (~ate1 /\ c = l1) \/ (two /\ ~ate2 /\ c = l2) THEN "blank" ELSE old
      BY <1>9
    <3>3. /\ two => \A e : e \in Q2 <=> e = a2 \/ (e \in B2 /\ (ate2 \/ e # l2))
          /\ two => h2 \in Q2
      BY <1>4, <1>5, <1>7
    <3>4. two \in BOOLEAN /\ ate1 \in BOOLEAN /\ ate2 \in BOOLEAN
      BY <1>2, <1>3, <1>5
    <3>5. /\ \A e : e \in Q1 <=> e = a1 \/ (e \in B1 /\ (ate1 \/ e # l1))
          /\ h1 \in Q1 /\ l1 \in B1 /\ (two => l2 \in B2)
          /\ food \notin B1 /\ (two => food \notin B2)
      BY <1>1, <1>3, <1>7
    <3> HIDE DEF a1, a2, h1, h2, l1, l2, B1, B2, Q1, Q2, food, two, old, new
    <3>6. new = IF two /\ c = a2 THEN "#" ELSE IF two /\ c \in Q2 THEN "="
                ELSE IF c = a1 THEN "O" ELSE IF c \in Q1 THEN "o"
                ELSE IF c = food THEN "food" ELSE "blank"
      BY <1>6, <2>1, <3>1, <3>2, <3>3, <3>4, <3>5, CellDrawn
    <3>7. Picture(n)[c] = IF c = n.food THEN "food" ELSE IF two /\ c = a2 THEN "#"
                ELSE IF two /\ c \in Q2 THEN "="
                ELSE IF c = a1 THEN "O" ELSE IF c \in Q1 THEN "o" ELSE "blank"
      <4>1. /\ n.p1.body[1] = a1 /\ ToSet(n.p1.body) = Q1 /\ n.two_player = two
            /\ two => n.p2.body[1] = a2 /\ ToSet(n.p2.body) = Q2
        BY <1>3, <1>4, <1>5, <1>13 DEF Q1, Q2
      <4>2. Picture(n)[c] =
              IF c = n.food THEN "food"
              ELSE IF n.two_player /\ c = n.p2.body[1] THEN "#"
              ELSE IF n.two_player /\ c \in ToSet(n.p2.body) THEN "="
              ELSE IF c = n.p1.body[1] THEN "O"
              ELSE IF c \in ToSet(n.p1.body) THEN "o" ELSE "blank"
        <5>1. ~n.game_over
          BY <1>13
        <5> QED
          BY <5>1, PictureIs
      <4> QED
        BY <4>1, <4>2
    <3>8. (ate1 \/ ate2) => food \in Q1 \/ (two /\ food \in Q2)
      BY <1>6, <3>3, <3>5
    <3>9. n.grid[c] = IF (ate1 \/ ate2) /\ c = n.food THEN "food" ELSE new
      BY <1>13 DEF new
    <3>10. n.food \notin Q1 /\ (two => n.food \notin Q2)
      BY <1>13, BodiesAre DEF Q1, Q2
    <3>11. (~ate1 /\ ~ate2) => n.food = food
      BY <1>13
    <3>12. a1 \in Q1 /\ (two => a2 \in Q2)
      BY <3>3, <3>5
    <3> QED
      BY <3>6, <3>7, <3>8, <3>9, <3>10, <3>11, <3>12
  <2> QED
    BY <2>3, <2>4, <2>5 DEF Areas
<1> QED
  <2>1. IsSnake(n.p1) /\ Straight(n.p1) /\ (n.two_player => IsSnake(n.p2) /\ Straight(n.p2))
    BY <1>3, <1>4, <1>5, <1>13
  <2>2. n.two_player /\ ~n.crossed => ToSet(n.p1.body) \cap ToSet(n.p2.body) = {}
    BY <1>13 DEF x
  <2> QED
    BY <1>13, <1>14, <2>1, <2>2 DEF SnakeGood

\* The same step, whatever the snakes do.
LEMMA GrownTyped ==
  ASSUME NEW p \in Snakes, Len(p.body) >= 1, NEW ate
  PROVE  LET q == Grown(p, ate)
         IN  q \in Snakes /\ Len(q.body) >= 1 /\ q.body[1] \in Cell
<1> DEFINE a == Ahead(p)
           t == IF ate THEN p.body ELSE Front(p.body)
           b == <<a>> \o t
<1>1. a \in Cell /\ p.body \in Seq(Cell)
  BY AheadIs, BodyCells
<1>2. t \in Seq(Cell)
  BY <1>1, FrontIs
<1>3. Grown(p, ate) = [p EXCEPT !.body = b]
  BY DEF Grown
<1> HIDE DEF a, t
<1>4. b \in Seq(Cell) /\ Len(b) = Len(t) + 1 /\ b[1] = a
  BY <1>1, <1>2, PrependIs
<1>5. Len(t) \in Nat
  BY <1>2, LenProperties
<1> HIDE DEF b
<1>6. [p EXCEPT !.body = b] \in Snakes /\ [p EXCEPT !.body = b].body = b
  BY <1>4 DEF Snakes
<1>7. Len(b) >= 1
  <2> DEFINE k == Len(t)
             m == Len(b)
  <2>1. k \in Nat /\ m = k + 1
    BY <1>4, <1>5
  <2> HIDE DEF k, m
  <2>2. m >= 1
    BY <2>1
  <2> QED
    BY <2>2 DEF m
<1> QED
  BY <1>1, <1>3, <1>4, <1>6, <1>7

LEMMA MovedTyped ==
  ASSUME NEW s, SnakeTyped(s), s.initialized, NEW n \in Moved(s)
  PROVE  SnakeTyped(n) /\ (s.missed => n.missed)
<1> DEFINE two  == s.two_player
           ate1 == Ahead(s.p1) = s.food
           ate2 == two /\ Ahead(s.p2) = s.food
           q1   == Grown(s.p1, ate1)
           q2   == IF two THEN Grown(s.p2, ate2) ELSE s.p2
           next == [s EXCEPT !.p1 = q1, !.p2 = q2]
           meet == ToSet(next.p1.body) \cap ToSet(next.p2.body) # {}
<1>1. /\ s \in SnakeState /\ s.p1 \in Snakes /\ s.p2 \in Snakes /\ two \in BOOLEAN
      /\ s.crossed \in BOOLEAN /\ s.choosing = 0
      /\ Len(s.p1.body) >= 1 /\ (two => Len(s.p2.body) >= 1)
  BY SnakeStateIs DEF SnakeTyped
<1>2. ate1 \in BOOLEAN /\ ate2 \in BOOLEAN
  BY <1>1
<1>3. q1 \in Snakes /\ Len(q1.body) >= 1 /\ q1.body[1] \in Cell
  BY <1>1, GrownTyped
<1>4. q2 \in Snakes /\ (two => Len(q2.body) >= 1)
  <2>1. CASE two
    BY <1>1, <2>1, GrownTyped
  <2>2. CASE ~two
    BY <1>1, <2>2
  <2> QED
    BY <2>1, <2>2
<1>5. n \in LET seen == [draw_step(s, next, ate1, ate2) EXCEPT !.crossed = @ \/ (two /\ meet)]
            IN  IF ate1 \/ ate2 THEN {[m EXCEPT !.grid[m.food] = "food"] : m \in place_food(seen)}
                ELSE {seen}
  <2>1. next = [s EXCEPT !.p1 = Grown(@, ate1), !.p2 = IF two THEN Grown(@, ate2) ELSE @]
    OBVIOUS
  <2> HIDE DEF next
  <2> QED
    BY <2>1 DEF Moved
<1> HIDE DEF q1, q2, ate1, ate2
<1>6. /\ next \in SnakeState /\ next.p1 = q1 /\ next.p2 = q2 /\ next.two_player = two
      /\ next.initialized = s.initialized /\ next.choosing = 0 /\ next.crossed = s.crossed
      /\ next.missed = s.missed
  BY <1>1, <1>3, <1>4, SnakeStateIs
<1> HIDE DEF next
<1>7. PICK g \in Areas : draw_step(s, next, ate1, ate2) = [next EXCEPT !.grid = g]
  BY <1>1, <1>2, <1>3, <1>6, StepDrawn
<1> DEFINE x    == s.crossed \/ (two /\ meet)
           drew == [next EXCEPT !.grid = g]
           seen == [drew EXCEPT !.crossed = x]
<1>8. x \in BOOLEAN /\ drew.crossed = s.crossed
  BY <1>1, <1>6, SnakeStateIs
<1>9. [drew EXCEPT !.crossed = @ \/ (two /\ meet)] = seen
  BY <1>6, <1>8, SnakeStateIs
<1>10. n \in IF ate1 \/ ate2 THEN {[m EXCEPT !.grid[m.food] = "food"] : m \in place_food(seen)}
             ELSE {seen}
  BY <1>5, <1>7, <1>9
<1> HIDE DEF x, meet
<1>11. /\ seen \in SnakeState /\ seen.p1 = q1 /\ seen.p2 = q2 /\ seen.two_player = two
       /\ seen.initialized = s.initialized /\ seen.choosing = 0 /\ seen.missed = s.missed
  BY <1>6, <1>7, <1>8, SnakeStateIs
<1> HIDE DEF seen
<1>12. /\ n \in SnakeState /\ n.p1 = q1 /\ n.p2 = q2 /\ n.two_player = two
       /\ n.initialized = s.initialized /\ n.choosing = 0 /\ (s.missed => n.missed)
  <2>1. CASE n = seen
    BY <1>11, <2>1
  <2>2. CASE n # seen
    <3>1. PICK m \in place_food(seen) : n = [m EXCEPT !.grid[m.food] = "food"]
      BY <1>10, <2>2
    <3>2. /\ m \in SnakeState /\ m.p1 = q1 /\ m.p2 = q2 /\ m.two_player = two
          /\ m.initialized = s.initialized /\ m.choosing = 0 /\ (s.missed => m.missed)
      <4>1. /\ m \in SnakeState /\ m.p1 = seen.p1 /\ m.p2 = seen.p2
            /\ m.two_player = seen.two_player
            /\ m.initialized = seen.initialized /\ m.choosing = seen.choosing
            /\ seen.missed => m.missed
        BY <1>11, PlaceFood
      <4> QED
        BY <1>11, <4>1
    <3> DEFINE h == [m.grid EXCEPT ![m.food] = "food"]
    <3>3. h \in Areas
      BY <3>2, SnakeStateIs, GlyphsAre DEF Areas
    <3>4. n = [m EXCEPT !.grid = h]
      BY <3>1
    <3> HIDE DEF h
    <3> QED
      BY <3>2, <3>3, <3>4, SnakeStateIs
  <2> QED
    BY <2>1, <2>2
<1> QED
  BY <1>3, <1>4, <1>12 DEF SnakeTyped

\* update: nothing, the end of the game, or a step.
LEMMA UpdateSnake ==
  ASSUME NEW s, SnakeTyped(s), NEW n \in Snake_update(s)
  PROVE  SnakeTyped(n) /\ (SnakeGood(s) => SnakeGood(n))
<1> DEFINE n1    == Ahead(s.p1)
           n2    == Ahead(s.p2)
           dead1 == hits_body(s.p1, n1) \/ (s.two_player /\ (hits_body(s.p2, n1) \/ n1 = n2))
           dead2 == s.two_player /\ (hits_body(s.p2, n2) \/ hits_body(s.p1, n2) \/ n1 = n2)
           w     == IF ~s.two_player THEN s.winner ELSE IF dead1 /\ dead2 THEN 3
                    ELSE IF dead1 THEN 2 ELSE 1
           over  == [s EXCEPT !.game_over = TRUE, !.winner = w, !.grid = Painted(@, MessageBox, "text")]
<1>1. CASE n = s
  BY <1>1
<1>2. CASE n # s
  <2>1. /\ s.initialized /\ ~s.game_over /\ ~s.help_open
        /\ n \in IF dead1 \/ dead2 THEN {over} ELSE Moved(s)
    BY <1>2 DEF Snake_update
  <2>2. s \in SnakeState
    BY DEF SnakeTyped
  <2>3. w \in 0 .. 3
    <3>1. s.winner \in 0 .. 3
      BY <2>2, SnakeStateIs
    <3> HIDE DEF dead1, dead2
    <3> QED
      BY <3>1
  <2>4. CASE dead1 \/ dead2
    <3>1. n = over
      BY <2>1, <2>4
    <3>2. over = Ended(s, w)
      BY DEF Ended
    <3> HIDE DEF w, over
    <3>3. n \in SnakeState /\ SameGame(n, s) /\ (SnakeGood(s) => SnakeGood(n))
      BY <2>2, <2>3, <3>1, <3>2, OverIs
    <3> QED
      BY <3>3, SameTyped
  <2>5. CASE ~(dead1 \/ dead2)
    <3>1. n \in Moved(s)
      BY <2>1, <2>5
    <3>2. ~hits_body(s.p1, Ahead(s.p1)) /\ (s.two_player => ~hits_body(s.p2, Ahead(s.p2)))
      BY <2>5
    <3>3. Playing(s)
      BY <2>1 DEF SnakeTyped, Playing
    <3>4. SnakeTyped(n) /\ (s.missed => n.missed)
      BY <2>1, <3>1, MovedTyped
    <3>5. CASE n.missed
      BY <3>4, <3>5, MissedGood
    <3>6. CASE ~n.missed
      BY <2>1, <3>1, <3>2, <3>3, <3>4, <3>6, MovedIs
    <3> QED
      BY <3>4, <3>5, <3>6
  <2> QED
    BY <2>4, <2>5
<1> QED
  BY <1>1, <1>2

-----------------------------------------------------------------------------
LEMMA LaunchSnake ==
  ASSUME NEW s \in SnakeState
  PROVE  SnakeTyped(Snake_init(s)) /\ SnakeGood(Snake_init(s))
<1> DEFINE g == Filled("text")
<1>1. g \in Areas
  BY FilledIs, GlyphsAre
<1>2. s \in SnakeState
  OBVIOUS
<1> SUFFICES ASSUME NEW n, n = [s EXCEPT !.initialized = FALSE, !.choosing = 1, !.two_player = FALSE,
                                         !.help_open = FALSE, !.grid = g]
             PROVE  SnakeTyped(n) /\ SnakeGood(n)
  BY DEF Snake_init
<1> HIDE DEF g
<1> DEFINE one == 1
<1>3. one \in 0 .. 2 /\ TRUE \in BOOLEAN /\ FALSE \in BOOLEAN
  OBVIOUS
<1>4. n = [s EXCEPT !.initialized = FALSE, !.choosing = one, !.two_player = FALSE,
                    !.help_open = FALSE, !.grid = g]
  OBVIOUS
<1> HIDE DEF one
<1>5. n \in SnakeState
  BY <1>1, <1>2, <1>3, <1>4, SnakeStateIs
<1>6. n.initialized = FALSE
  BY <1>2, <1>4, SnakeStateIs
<1> QED
  BY <1>5, <1>6 DEF SnakeGood, SnakeTyped, Playing

LEMMA SnakeInit == Init => SnakeTyped(snake) /\ SnakeGood(snake)
<1> SUFFICES ASSUME Init PROVE SnakeTyped(SnakeStatics) /\ SnakeGood(SnakeStatics)
  BY DEF Init
<1> DEFINE none == [body |-> << >>, dx |-> 0, dy |-> 0]
           g    == [c \in Cell |-> "text"]
           f    == <<0, 0>>
           t    == [p1 |-> none, p2 |-> none, two_player |-> FALSE, initialized |-> FALSE,
                    game_over |-> FALSE, help_open |-> FALSE, choosing |-> 0, winner |-> 0,
                    food |-> f, grid |-> g, crossed |-> FALSE, missed |-> FALSE]
<1>1. none \in Snakes
  BY DEF Snakes
<1>2. g \in Areas
  BY GlyphsAre DEF Areas
<1>3. f \in Cell
  BY SnakeAssumption DEF Cell
<1>4. SnakeStatics = t
  BY DEF SnakeStatics
<1> HIDE DEF none, g, f
<1>5. t \in SnakeState /\ t.initialized = FALSE
  BY <1>1, <1>2, <1>3, SnakeStateIs
<1> QED
  BY <1>4, <1>5 DEF SnakeTyped, SnakeGood, Playing

LEMMA SnakeStep ==
  SnakeTyped(snake) /\ SnakeGood(snake) /\ [Next]_vars => SnakeTyped(snake)' /\ SnakeGood(snake)'
<1> DEFINE Kept == SnakeTyped(snake') /\ SnakeGood(snake')
<1> SUFFICES ASSUME SnakeTyped(snake), SnakeGood(snake), [Next]_vars
             PROVE  Kept
  OBVIOUS
<1>1. ASSUME UNCHANGED snake PROVE Kept
  BY <1>1
<1>2. CASE Launch
  <2>1. CASE left.prog = "snake"
    <3>1. snake' = Snake_init(snake)
      BY <1>2, <2>1 DEF Launch
    <3> QED
      BY <3>1, LaunchSnake DEF SnakeTyped
  <2>2. CASE left.prog # "snake"
    BY <1>1, <1>2, <2>2 DEF Launch, Only
  <2> QED
    BY <2>1, <2>2
<1>3. CASE ExitKey \/ Finish
  BY <1>1, <1>3 DEF ExitKey, Finish, exit_active_program
<1>4. CASE Input
  <2>1. CASE active_prog = "snake"
    <3>1. PICK k \in SNAKE_KEYS : snake' \in Snake_input(snake, k)
      BY <1>4, <2>1 DEF Input
    <3>2. k \in SnakeKeys
      BY ProgramsAssumption
    <3> QED
      BY <3>1, <3>2, InputSnake
  <2>2. CASE active_prog # "snake"
    BY <1>1, <1>4, <2>2 DEF Input, Only
  <2> QED
    BY <2>1, <2>2
<1>5. CASE Update
  <2>1. CASE active_prog = "snake"
    <3>1. snake' \in Snake_update(snake)
      BY <1>5, <2>1 DEF Update
    <3> QED
      BY <3>1, UpdateSnake
  <2>2. CASE active_prog # "snake"
    BY <1>1, <1>5, <2>2 DEF Update, Only
  <2> QED
    BY <2>1, <2>2
<1>6. CASE NoInput \/ EngineClock \/ EngineDone \/ RemoteMenu
  BY <1>1, <1>6 DEF NoInput, EngineClock, EngineDone, RemoteMenu
<1>7. CASE ShellKey \/ ShellPrint \/ StatusBar
  BY <1>1, <1>7 DEF ShellKey, ShellPrint, StatusBar
<1>8. CASE UNCHANGED vars
  BY <1>1, <1>8 DEF vars
<1> QED
  BY <1>2, <1>3, <1>4, <1>5, <1>6, <1>7, <1>8 DEF Next

\* From here on, what the invariant says.
LEMMA SnakeSafe == Spec => [](SnakeTyped(snake) /\ SnakeGood(snake))
<1> DEFINE Holds == SnakeTyped(snake) /\ SnakeGood(snake)
<1>1. Init => Holds
  BY SnakeInit
<1>2. Holds /\ [Next]_vars => Holds'
  BY SnakeStep
<1> HIDE DEF Holds
<1>3. Spec => []Holds
  BY <1>1, <1>2, PTL DEF Spec
<1> QED
  BY <1>3 DEF Holds

\* No body ever meets itself or breaks, for one player or two, however the keys
\* turn the snakes and however they eat: hits_body looks at where the bodies were
\* and the shift and the growth come after (update of snake.c).  It takes food
\* under a body, left there when the tries of place_food run out, to break one.
THEOREM BodiesSafe == Spec => []BodiesSound
<1>1. SnakeGood(snake) => BodiesSound
  BY DEF SnakeGood, BodiesSound
<1> QED
  BY <1>1, SnakeSafe, PTL

\* Food that place_food has put beside the bodies lies beside them until it is
\* eaten, wherever they move, whichever of them eats and however it grows
\* (place_food and update of snake.c).
THEOREM FoodSafe == Spec => []FoodFree
<1>1. SnakeGood(snake) => FoodFree
  BY DEF SnakeGood, FoodFree
<1> QED
  BY <1>1, SnakeSafe, PTL

\* The few cells that a step of update draws, one over the other, make the same
\* picture as drawing the whole game again (draw_step and redraw_all of
\* snake.c), until two snakes have shared a cell or food has lain under one.
THEOREM GameSafe == Spec => []GameShown
<1>1. SnakeGood(snake) => GameShown
  BY DEF SnakeGood, GameShown
<1> QED
  BY <1>1, SnakeSafe, PTL
-----------------------------------------------------------------------------
(***************************************************************************)
(* The types of all the programs, their host and the screen.               *)
(***************************************************************************)
LEMMA ConwayTyped == conway \in Typed => conway \in ConwayState
<1> SUFFICES Typed \subseteq ConwayState
  OBVIOUS
<1>1. Counts \subseteq Gens
  <2>1. GRID_SIZE \in Nat /\ GRID_SIZE < 2^16
    BY Sizes, PopulationAssumption
  <2> DEFINE limit == 2^16
  <2>2. limit \in Nat /\ GRID_SIZE < limit
    BY <2>1
  <2> HIDE DEF limit
  <2>3. 0 .. GRID_SIZE \subseteq 0 .. limit - 1
    BY <2>1, <2>2
  <2> QED
    BY <2>3 DEF Counts, Gens, limit
<1>2. ConwayState =
        [a : Grids, b : Grids, sel : Bits, mode : Modes, idx : Places, busy : Bits,
         generation : Gens, pop : Gens, target : Grids,
         initialized : BOOLEAN, help_open : BOOLEAN, edit_mode : BOOLEAN, cursor : Cells,
         prev : Grids, screen : Screens, hud : Gens \X Gens, then : Waits, edited : BOOLEAN]
  BY DEF ConwayState, Grids, Bits, Modes, Places, Gens, Screens, Waits
<1>3. Gens \X Counts \subseteq Gens \X Gens
  BY <1>1
<1> QED
  BY <1>1, <1>2, <1>3 DEF Typed

LEMMA DemoTyped == Spec => [](demo \in DemoState)
<1>1. Init => DemoInv
  BY DEF Init, DemoInv, DemoStatics, Sound, DemoState, exp_entries
<1>2. DemoInv => demo \in DemoState
  BY DEF DemoInv, Sound
<1> QED
  BY <1>1, <1>2, DemoInvStep, PTL DEF Spec

\* The host: which program runs, where its loop is, what is left of the scenario.
HostTyped == /\ active_prog \in Progs \cup {"shell"} /\ pc \in {"input", "update", "finish"}
             /\ left \in Scenario

LEMMA HostStep == HostTyped /\ [Next]_vars => HostTyped'
<1> SUFFICES ASSUME HostTyped, [Next]_vars PROVE HostTyped'
  OBVIOUS
<1>1. left.launches \in Nat /\ left.keys \in Nat /\ left.moves \in Nat
  BY DEF HostTyped, Scenario
<1>2. CASE Launch
  <2> DEFINE x == left.launches - 1
  <2>1. x \in Nat /\ left' = [left EXCEPT !.launches = x]
    BY <1>1, <1>2 DEF Launch
  <2> HIDE DEF x
  <2> QED
    BY <1>2, <2>1 DEF Launch, HostTyped, Scenario
<1>3. CASE Input \/ ShellKey
  <2> DEFINE x == left.keys - 1
  <2>1. left.keys > 0 /\ left' = [left EXCEPT !.keys = x]
    BY <1>3 DEF Input, ShellKey
  <2>2. x \in Nat
    BY <1>1, <2>1
  <2>3. pc' \in {"input", "update", "finish"} /\ active_prog' = active_prog
    BY <1>3 DEF Input, ShellKey, HostTyped
  <2> HIDE DEF x
  <2> QED
    BY <2>1, <2>2, <2>3 DEF HostTyped, Scenario
<1>4. CASE Update
  <2>1. pc' = "finish" /\ active_prog' = active_prog
    BY <1>4 DEF Update
  <2>2. (\E moved : Counted(moved)) \/ UNCHANGED left
    BY <1>4 DEF Update
  <2>3. left' \in Scenario
    <3>1. CASE UNCHANGED left
      BY <3>1 DEF HostTyped
    <3>2. CASE \E moved : Counted(moved)
      <4>1. PICK moved : Counted(moved)
        BY <3>2
      <4> DEFINE x == left.moves - 1
      <4>2. (left' = [left EXCEPT !.moves = x] /\ left.moves > 0) \/ left' = [left EXCEPT !.moves = @]
        BY <4>1 DEF Counted
      <4>3. left.moves > 0 => x \in Nat
        BY <1>1
      <4> HIDE DEF x
      <4> QED
        BY <1>1, <4>2, <4>3 DEF HostTyped, Scenario
    <3> QED
      BY <2>2, <3>1, <3>2
  <2> QED
    BY <2>1, <2>3 DEF HostTyped
<1>5. CASE ExitKey \/ Finish
  BY <1>5 DEF ExitKey, Finish, exit_active_program, HostTyped
<1>6. CASE NoInput
  BY <1>6 DEF NoInput, HostTyped
<1>7. CASE EngineClock \/ EngineDone \/ RemoteMenu \/ ShellPrint \/ StatusBar \/ UNCHANGED vars
  BY <1>7 DEF EngineClock, EngineDone, RemoteMenu, ShellPrint, StatusBar, vars, HostTyped
<1> QED
  BY <1>2, <1>3, <1>4, <1>5, <1>6, <1>7 DEF Next

\* No program, key or order of steps leaves the variables of the programs outside
\* their types: the snakes stay on the torus whatever they eat and however they
\* end, the 16-bit words of ntt.c hold what the butterflies, the multiplications
\* of Barrett and the scaling leave in them, the counters of the Conway engine
\* fit, the register of demo.c only takes its channels, and the cursor of the
\* shell stays on the screen.
THEOREM TypeSafe == Spec => []TypeOK
<1> DEFINE Holds == HostTyped /\ ntt \in NttState
<1>1. Init => Holds
  BY NttStatic, ProgramsAssumption DEF Init, HostTyped
<1>2. Holds /\ [Next]_vars => Holds'
  BY HostStep, NttStep
<1>3. Holds /\ SnakeTyped(snake) /\ ConwayInv /\ demo \in DemoState /\ TextInv(text) => TypeOK
  BY ConwayTyped DEF HostTyped, SnakeTyped, ConwayInv, Settled, EngineInv, TextInv, Good, TypeOK
<1> HIDE DEF Holds
<1> QED
  BY <1>1, <1>2, <1>3, SnakeSafe, ConwaySafe, DemoTyped, TextSafe, PTL DEF Spec

=============================================================================
