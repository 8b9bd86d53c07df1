------------------------------ MODULE FbReader ------------------------------
(***************************************************************************)
(* fb_reader_rgb565.vhd: the reader that fills one line buffer from the    *)
(* memory while the other one is shown.  A 25 MHz process swaps the        *)
(* buffers at the start of each line and asks, with a toggle, for the      *)
(* next one; a 50 MHz state machine fetches it in bursts.  The position    *)
(* within a line and the pixel pipeline are left out: a line is as long as *)
(* it pleases, but long enough for the toggle to cross.                    *)
(***************************************************************************)
EXTENDS SdramCtrl

CONSTANTS
  LINES,       \* V_ACTIVE, 480
  LINE_WORDS,  \* 320
  FB_BASE,     \* fb_base_i, the word address of the frame buffer
  LINE_GAP     \* least number of 25 MHz edges between two line starts (800)

Line == 0 .. LINES - 1
LineWord(l, i) == FB_BASE + l * LINE_WORDS + i

VARIABLES
  \* 25 MHz
  line,               \* line_index_i, the line shown
  line_gap,           \* edges since its start, up to LINE_GAP
  buf_sel, line_req_toggle_25m, line_fetch_shadow, line_fill_shadow,
  \* 50 MHz
  mode_en, line_req_sync, fetch_state, fetch_line, fetch_word_cnt,
  fetch_burst_cnt, fetch_buf_sel,
  vga_rd_req,         \* vga_rd_adr_o while vga_rd_req_o is high, or NoOp
  linebuf             \* the two line buffers, by the value of buf_sel

lineVars  == <<line, line_gap, buf_sel, line_req_toggle_25m, line_fetch_shadow,
               line_fill_shadow>>
fetchVars == <<line_req_sync, fetch_state, fetch_line, fetch_word_cnt,
               fetch_burst_cnt, fetch_buf_sel, vga_rd_req, linebuf>>

FbReaderInit ==
  /\ line = LINES - 1 /\ line_gap = 0 /\ buf_sel = FALSE
  /\ line_req_toggle_25m = FALSE /\ line_fetch_shadow = 0 /\ line_fill_shadow = FALSE
  /\ mode_en = FALSE /\ line_req_sync = Flat(FALSE)
  /\ fetch_state = "F_IDLE" /\ fetch_line = 0 /\ fetch_word_cnt = 0
  /\ fetch_burst_cnt = 0 /\ fetch_buf_sel = FALSE /\ vga_rd_req = NoOp
  /\ linebuf = [b \in BOOLEAN |-> [i \in 0 .. LINE_WORDS - 1 |-> POWER_UP_MEM[0]]]

\* Defect: the line that starts is asked for, not the one after it.
P_bufswapSame(start) ==
  \/ /\ start /\ line_gap = LINE_GAP
     /\ line' = (line + 1) % LINES /\ line_gap' = 0
     /\ line_fetch_shadow' = line'
     /\ line_fill_shadow' = buf_sel
     /\ line_req_toggle_25m' = ~line_req_toggle_25m
     /\ buf_sel' = ~buf_sel
  \/ /\ ~start
     /\ line_gap' = IF line_gap < LINE_GAP THEN line_gap + 1 ELSE line_gap
     /\ UNCHANGED <<line, buf_sel, line_req_toggle_25m, line_fetch_shadow, line_fill_shadow>>

\* p_bufswap, at line_start_i and at the other 25 MHz edges: the buffer that
\* was shown is the one to fill, with the line after the one that starts.
P_bufswap(start) ==
  \/ /\ start /\ line_gap = LINE_GAP
     /\ line' = (line + 1) % LINES /\ line_gap' = 0
     /\ line_fetch_shadow' = IF line' < LINES - 1 THEN line' + 1 ELSE 0
     /\ line_fill_shadow' = buf_sel
     /\ line_req_toggle_25m' = ~line_req_toggle_25m
     /\ buf_sel' = ~buf_sel
  \/ /\ ~start
     /\ line_gap' = IF line_gap < LINE_GAP THEN line_gap + 1 ELSE line_gap
     /\ UNCHANGED <<line, buf_sel, line_req_toggle_25m, line_fetch_shadow, line_fill_shadow>>

\* p_sync_line_req
LineReqFire == Fire(line_req_sync)   \* line_req_fire_50m
P_sync_line_req ==
  \E b \in {line_req_toggle_25m, line_req_toggle_25m'} :
    line_req_sync' = Sync(line_req_sync, b)

-----------------------------------------------------------------------------
(***************************************************************************)
(* The states of p_fetch.  A request seen in another state than F_IDLE is  *)
(* dropped; a word that comes in another state than F_POP would be, too.   *)
(***************************************************************************)
FetchIdle ==
  /\ fetch_state = "F_IDLE"
  /\ IF LineReqFire /\ mode_en
     THEN /\ fetch_line' = line_fetch_shadow
          /\ fetch_word_cnt' = 0 /\ fetch_burst_cnt' = 0
          /\ fetch_buf_sel' = line_fill_shadow
          /\ fetch_state' = "F_REQ"
     ELSE UNCHANGED <<fetch_line, fetch_word_cnt, fetch_burst_cnt, fetch_buf_sel, fetch_state>>
  /\ vga_rd_req' = NoOp
  /\ UNCHANGED linebuf

FetchReq ==
  /\ fetch_state = "F_REQ"
  /\ vga_rd_req' = LineWord(fetch_line, fetch_word_cnt)
  /\ fetch_burst_cnt' = 0
  /\ fetch_state' = "F_POP"
  /\ UNCHANGED <<fetch_line, fetch_word_cnt, fetch_buf_sel, linebuf>>

\* valid is vga_rd_valid_i: the first word of the controller's FIFO is popped.
FetchPop(valid) ==
  /\ fetch_state = "F_POP"
  /\ vga_rd_req' = NoOp
  /\ IF ~valid
     THEN UNCHANGED <<fetch_word_cnt, fetch_burst_cnt, fetch_state, linebuf>>
     ELSE LET last  == fetch_word_cnt = LINE_WORDS - 1
              burst == fetch_burst_cnt = BURST_WORDS - 1
          IN /\ linebuf' = [linebuf EXCEPT ![fetch_buf_sel][fetch_word_cnt] = Head(vga_fifo)]
             /\ fetch_word_cnt' = IF last THEN fetch_word_cnt ELSE fetch_word_cnt + 1
             /\ fetch_burst_cnt' = CASE last -> fetch_burst_cnt
                                     [] ~last /\ burst -> 0
                                     [] OTHER -> fetch_burst_cnt + 1
             /\ fetch_state' = CASE last -> "F_LINE_DONE"
                                 [] ~last /\ burst -> "F_NEXT_BURST"
                                 [] OTHER -> "F_POP"
  /\ UNCHANGED <<fetch_line, fetch_buf_sel>>

FetchGo(from, to) ==
  /\ fetch_state = from /\ fetch_state' = to
  /\ vga_rd_req' = NoOp
  /\ UNCHANGED <<fetch_line, fetch_word_cnt, fetch_burst_cnt, fetch_buf_sel, linebuf>>

P_fetch(valid) ==
  \/ FetchIdle \/ FetchReq \/ FetchPop(valid)
  \/ FetchGo("F_NEXT_BURST", "F_REQ")
  \/ FetchGo("F_LINE_DONE", "F_IDLE")
=============================================================================
