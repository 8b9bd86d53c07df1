--------------------------- MODULE VideoBoard_proofs ---------------------------
(***************************************************************************)
(* The picture and the rectangles, for every size of the screen, of a      *)
(* burst and of the memory, every list of rectangles and every             *)
(* interleaving of the three clocks.                                       *)
(*                                                                         *)
(* RefinesBoard reads this board as the one of SdramBoard, so that what is *)
(* proved there of the controller (types, rows, timing, requests,          *)
(* payloads) is cited here, as Facts. The program paints or shows, not     *)
(* both: Modes says that the other master has nothing under way. LineSafe  *)
(* then follows a word of a line from the memory through the FIFO to the   *)
(* buffer, and the request for the line across the clocks; FillSafe        *)
(* follows a rectangle from gfx_fill_rect through the start pulse, the     *)
(* rows and bursts of the engine and the writes of the controller to the   *)
(* busy flag on its way back. BurstsInRow says when the hypotheses on the  *)
(* rows of the memory hold.                                                *)
(***************************************************************************)
EXTENDS VideoBoard, SequenceTheorems, TLAPS

-----------------------------------------------------------------------------
(***************************************************************************)
(* The board of SdramBoard inside this one: the reader is its VGA master,  *)
(* the engine its GPU, the CPU strobes nothing.                            *)
(***************************************************************************)
Board == INSTANCE SdramRequests_proofs WITH
  CPU_OPS <- {}, VGA_ADRS <- Adr, GPU_ADRS <- Adr,
  phase <- phase % 2, cpu <- NoOp, cpu_dat <- POWER_UP_MEM[0],
  gpu_wait <- (gpu_state = "G_BURST_WAIT")

LEMMA GeometryHolds == Board!GeometryAssumption
  BY GeometryAssumption DEF Board!GeometryAssumption
LEMMA MemoryHolds == Board!MemoryAssumption
  BY MemoryAssumption DEF Board!MemoryAssumption, Board!Adr, Adr
LEMMA CtrlHolds == Board!CtrlAssumption
  BY CtrlAssumption DEF Board!CtrlAssumption, Board!Adr, Adr, Board!Op, Op
LEMMA MastersHold == Board!MastersAssumption
  BY DEF Board!MastersAssumption, Board!Adr, Adr

LEMMA Sizes ==
  /\ COLS \in Nat \ {0} /\ ROWS \in Nat \ {0} /\ BURST_WORDS \in 1 .. 8
  /\ LINES \in Nat \ {0} /\ LINE_WORDS \in Nat \ {0} /\ FB_BASE \in Nat
  /\ ADRS \in Nat \ {0} /\ Adr = 0 .. ADRS - 1 /\ Adr \subseteq Nat /\ 0 \in Adr
  /\ FB_W = 2 * LINE_WORDS /\ FB_W \div 2 = LINE_WORDS /\ FB_H = LINES /\ FB_ADR = FB_BASE
<1>1. COLS \in Nat \ {0} /\ ROWS \in Nat \ {0} /\ BURST_WORDS \in 1 .. 8
  BY GeometryAssumption, CtrlAssumption
<1>2. 4 * ROWS * COLS \in Nat \ {0}
  BY <1>1
<1> QED
  BY <1>1, <1>2, VideoAssumption DEF ADRS, Adr

\* The words of a line lie one after the other in the memory.
LEMMA WordsOfLines ==
  ASSUME NEW l \in Line, NEW i \in 0 .. LINE_WORDS - 1
  PROVE  LineWord(l, i) \in Adr
<1>1. l \in Nat /\ l + 1 <= LINES /\ i \in Nat /\ i <= LINE_WORDS - 1
  BY Sizes DEF Line
<1>2. \A n, m, k \in Nat : k + 1 <= n => k * m + m <= n * m
  <2> SUFFICES ASSUME NEW n \in Nat, NEW m \in Nat, NEW k \in Nat, k + 1 <= n
               PROVE  k * m + m <= n * m
    OBVIOUS
  <2>1. (n - k - 1) * m >= 0
    OBVIOUS
  <2>2. (n - k - 1) * m = n * m - k * m - m
    OBVIOUS
  <2>3. n * m \in Nat /\ k * m \in Nat
    OBVIOUS
  <2> QED
    BY <2>1, <2>2, <2>3
<1>3. PICK p \in Nat, q \in Nat : p = l * LINE_WORDS /\ q = LINES * LINE_WORDS
  BY <1>1, Sizes
<1>4. p + LINE_WORDS <= q
  BY <1>1, <1>2, <1>3, Sizes
<1>5. FB_BASE + q <= ADRS
  BY <1>3, Sizes, VideoAssumption
<1> QED
  BY <1>1, <1>3, <1>4, <1>5, Sizes DEF LineWord

-----------------------------------------------------------------------------
(***************************************************************************)
(* The two kinds of edges.                                                 *)
(***************************************************************************)

\* An edge of the 50 MHz clock, with the pixel clock at every second one.
Edge50(pop) ==
  /\ phase \in {0, 2} /\ phase' = phase + 1
  /\ VideoCpuEdge(NoOp, pop) /\ VideoSdramEdge(pop) /\ VideoReturns
  /\ \/ phase = 2 /\ NoPixelEdge
     \/ phase = 0 /\ \E start \in BOOLEAN : PixelEdge(start)

LEMMA Edges ==
  ASSUME Next
  PROVE  FastEdge \/ \E pop \in BOOLEAN : Edge50(pop)
<1>1. ASSUME NEW pop \in BOOLEAN, BothEdges(NoOp, pop) PROVE Edge50(pop)
  BY <1>1 DEF BothEdges, Edge50
<1>2. ASSUME NEW pop \in BOOLEAN, NEW start \in BOOLEAN, AllEdges(NoOp, start, pop) PROVE Edge50(pop)
  BY <1>2 DEF AllEdges, Edge50
<1> QED
  BY <1>1, <1>2 DEF Next

-----------------------------------------------------------------------------
(***************************************************************************)
(* The reader asks for one burst at a time and counts the words it has     *)
(* taken as the controller does.                                           *)
(***************************************************************************)

\* A line is a whole number of bursts (320 words of 8).
WholeBursts == LINE_WORDS % BURST_WORDS = 0

Fetching == {"F_REQ", "F_POP", "F_NEXT_BURST"}

FetchType ==
  /\ phase \in 0 .. 3
  /\ line \in Line /\ line_gap \in 0 .. LINE_GAP /\ line_fetch_shadow \in Line
  /\ buf_sel \in BOOLEAN /\ line_req_toggle_25m \in BOOLEAN /\ line_fill_shadow \in BOOLEAN
  /\ mode_en \in BOOLEAN /\ line_req_sync \in Chain
  /\ fetch_state \in Fetching \cup {"F_IDLE", "F_LINE_DONE"}
  /\ fetch_line \in Line /\ fetch_buf_sel \in BOOLEAN
  /\ fetch_word_cnt \in 0 .. LINE_WORDS - 1 /\ fetch_burst_cnt \in 0 .. BURST_WORDS - 1

FetchInv ==
  /\ vga_req_pending \in BOOLEAN
  /\ vga_rd_req # NoOp => /\ fetch_state = "F_POP" /\ ~vga_req_pending /\ fetch_burst_cnt = 0
                          /\ vga_rd_req = LineWord(fetch_line, fetch_word_cnt)
  /\ vga_req_pending => /\ fetch_state = "F_POP" /\ fetch_burst_cnt = vga_fifo_pop_cnt
                        /\ vga_shadow_adr = LineWord(fetch_line, fetch_word_cnt - fetch_burst_cnt)
  /\ fetch_state = "F_POP" => fetch_word_cnt % BURST_WORDS = fetch_burst_cnt
  /\ fetch_state \in {"F_REQ", "F_NEXT_BURST"} =>
       fetch_word_cnt % BURST_WORDS = 0 /\ fetch_burst_cnt = 0

\* Counting modulo the length of a burst.
LEMMA CountUp ==
  ASSUME NEW m \in 1 .. 8, NEW n \in Nat
  PROVE  /\ n % m \in 0 .. m - 1
         /\ (n + 1) % m = IF n % m = m - 1 THEN 0 ELSE (n % m) + 1
<1>1. m \in {1, 2, 3, 4, 5, 6, 7, 8}
  OBVIOUS
<1>2. CASE m = 1
  BY <1>2
<1>3. CASE m = 2
  BY <1>3
<1>4. CASE m = 3
  BY <1>4
<1>5. CASE m = 4
  BY <1>5
<1>6. CASE m = 5
  BY <1>6
<1>7. CASE m = 6
  BY <1>7
<1>8. CASE m = 7
  BY <1>8
<1>9. CASE m = 8
  BY <1>9
<1> QED
  BY <1>1, <1>2, <1>3, <1>4, <1>5, <1>6, <1>7, <1>8, <1>9

LEMMA LastOfBurst ==
  ASSUME WholeBursts, NEW n \in 0 .. LINE_WORDS - 1
  PROVE  /\ n % BURST_WORDS \in 0 .. BURST_WORDS - 1
         /\ (n + 1) % BURST_WORDS = IF n % BURST_WORDS = BURST_WORDS - 1 THEN 0 ELSE (n % BURST_WORDS) + 1
         /\ n = LINE_WORDS - 1 => n % BURST_WORDS = BURST_WORDS - 1
<1>1. n \in Nat
  BY Sizes
<1>2. /\ n % BURST_WORDS \in 0 .. BURST_WORDS - 1
      /\ (n + 1) % BURST_WORDS = IF n % BURST_WORDS = BURST_WORDS - 1 THEN 0 ELSE (n % BURST_WORDS) + 1
  BY <1>1, Sizes, CountUp
<1>3. n = LINE_WORDS - 1 => (n + 1) % BURST_WORDS = 0
  <2>1. n = LINE_WORDS - 1 => n + 1 = LINE_WORDS
    BY Sizes
  <2> QED
    BY <2>1 DEF WholeBursts
<1>4. BURST_WORDS \in 1 .. 8
  BY Sizes
<1> DEFINE k == n % BURST_WORDS
           k2 == (n + 1) % BURST_WORDS
<1> HIDE DEF k, k2
<1>5. k \in 0 .. BURST_WORDS - 1 /\ k2 = (IF k = BURST_WORDS - 1 THEN 0 ELSE k + 1)
      /\ (n = LINE_WORDS - 1 => k2 = 0)
  BY <1>2, <1>3 DEF k, k2
<1>6. n = LINE_WORDS - 1 => k = BURST_WORDS - 1
  BY <1>4, <1>5
<1> QED
  BY <1>2, <1>6 DEF k

LEMMA WrapUp ==
  ASSUME NEW n \in Nat \ {0}, NEW l \in 0 .. n - 1
  PROVE  (l + 1) % n = IF l = n - 1 THEN 0 ELSE l + 1
<1>1. CASE l = n - 1
  <2>1. \A m \in Nat \ {0} : m % m = 0
    OBVIOUS
  <2>2. l + 1 = n
    BY <1>1
  <2> QED
    BY <1>1, <2>1, <2>2
<1>2. CASE l # n - 1
  <2>1. \A m \in Nat \ {0} : \A k \in 0 .. m - 1 : k % m = k
    OBVIOUS
  <2>2. l + 1 \in 0 .. n - 1
    BY <1>2
  <2> QED
    BY <1>2, <2>1, <2>2
<1> QED
  BY <1>1, <1>2

LEMMA FetchInit == Init => FetchType /\ FetchInv
<1> SUFFICES ASSUME Init PROVE FetchType /\ FetchInv
  OBVIOUS
<1>1. /\ phase = 0 /\ line = LINES - 1 /\ line_gap = 0 /\ buf_sel = FALSE
      /\ line_req_toggle_25m = FALSE /\ line_fetch_shadow = 0 /\ line_fill_shadow = FALSE
      /\ mode_en = FALSE /\ line_req_sync = Flat(FALSE) /\ fetch_state = "F_IDLE"
      /\ fetch_line = 0 /\ fetch_word_cnt = 0 /\ fetch_burst_cnt = 0 /\ fetch_buf_sel = FALSE
      /\ vga_rd_req = NoOp /\ vga_req_pending = FALSE
  BY DEF Init, FbReaderInit, CtrlInit
<1>2. Flat(FALSE) \in Chain
  BY DEF Flat, Chain
<1>3. 0 \in Line /\ LINES - 1 \in Line /\ 0 \in 0 .. LINE_WORDS - 1 /\ 0 \in 0 .. BURST_WORDS - 1
      /\ 0 \in 0 .. LINE_GAP
  BY Sizes, VideoAssumption DEF Line
<1>4. FetchType
  <2>1. 0 \in 0 .. 3
    OBVIOUS
  <2>2. "F_IDLE" \in Fetching \cup {"F_IDLE", "F_LINE_DONE"}
    OBVIOUS
  <2> QED
    BY <1>1, <1>2, <1>3, <2>1, <2>2, Zenon DEF FetchType
<1>5. FetchInv
  BY <1>1 DEF FetchInv
<1> QED
  BY <1>4, <1>5

LEMMA SyncChain ==
  ASSUME NEW chain \in Chain, NEW b \in BOOLEAN
  PROVE  Sync(chain, b) \in Chain
  BY DEF Chain, Sync

\* What the pixel side does at an edge of both clocks.
LEMMA PixelType ==
  ASSUME FetchType, NEW pop, Edge50(pop)
  PROVE  /\ line' \in Line /\ line_gap' \in 0 .. LINE_GAP /\ line_fetch_shadow' \in Line
         /\ buf_sel' \in BOOLEAN /\ line_req_toggle_25m' \in BOOLEAN /\ line_fill_shadow' \in BOOLEAN
<1>1. CASE NoPixelEdge
  BY <1>1 DEF NoPixelEdge, lineVars, FetchType
<1>2. ASSUME NEW start \in BOOLEAN, P_bufswap(start), start
      PROVE  /\ line' \in Line /\ line_gap' \in 0 .. LINE_GAP /\ line_fetch_shadow' \in Line
             /\ buf_sel' \in BOOLEAN /\ line_req_toggle_25m' \in BOOLEAN /\ line_fill_shadow' \in BOOLEAN
  <2>1. /\ line' = (line + 1) % LINES /\ line_gap' = 0
        /\ line_fetch_shadow' = IF line' < LINES - 1 THEN line' + 1 ELSE 0
        /\ line_fill_shadow' = buf_sel
        /\ line_req_toggle_25m' = ~line_req_toggle_25m
        /\ buf_sel' = ~buf_sel
    BY <1>2 DEF P_bufswap
  <2>2. line' \in Line
    BY <2>1, WrapUp, Sizes DEF FetchType, Line
  <2>3. line_fetch_shadow' \in Line /\ line_gap' \in 0 .. LINE_GAP
    BY <2>1, <2>2, Sizes, VideoAssumption DEF Line
  <2> QED
    BY <2>1, <2>2, <2>3 DEF FetchType
<1>3. ASSUME NEW start \in BOOLEAN, P_bufswap(start), ~start
      PROVE  /\ line' \in Line /\ line_gap' \in 0 .. LINE_GAP /\ line_fetch_shadow' \in Line
             /\ buf_sel' \in BOOLEAN /\ line_req_toggle_25m' \in BOOLEAN /\ line_fill_shadow' \in BOOLEAN
  <2>1. /\ line_gap' = IF line_gap < LINE_GAP THEN line_gap + 1 ELSE line_gap
        /\ UNCHANGED <<line, buf_sel, line_req_toggle_25m, line_fetch_shadow, line_fill_shadow>>
    BY <1>3 DEF P_bufswap
  <2> QED
    BY <2>1, VideoAssumption DEF FetchType
<1> QED
  BY <1>1, <1>2, <1>3 DEF Edge50, PixelEdge

\* The state machine of the reader, one edge.
LEMMA FetchStep ==
  ASSUME WholeBursts, FetchType, FetchInv, NEW pop \in BOOLEAN, Edge50(pop)
  PROVE  FetchType' /\ FetchInv'
<1> DEFINE new == vga_rd_req # NoOp /\ ~vga_req_pending
           end == vga_fifo_pop_cnt = BURST_WORDS - 1
           word == LineWord(fetch_line, fetch_word_cnt)
<1>1. P_fetch(pop) /\ P_sync_line_req /\ P_vga(vga_rd_req, pop) /\ (pop => VgaPop)
  BY DEF Edge50, VideoCpuEdge, CpuEdge
<1>2. /\ vga_shadow_adr' = IF new THEN vga_rd_req ELSE vga_shadow_adr
      /\ vga_req_pending' = (new \/ (vga_req_pending /\ ~(pop /\ end)))
      /\ vga_fifo_pop_cnt' = IF new \/ (pop /\ end) THEN 0
                             ELSE IF pop THEN vga_fifo_pop_cnt + 1 ELSE vga_fifo_pop_cnt
  BY <1>1 DEF P_vga
<1>3. pop => vga_req_pending
  BY <1>1 DEF VgaPop
<1>4. /\ BURST_WORDS \in 1 .. 8 /\ LINE_WORDS \in Nat /\ word \in Adr
      /\ NoOp \notin Adr
  BY Sizes, WordsOfLines, CtrlAssumption DEF FetchType
<1>5. line_req_sync' \in Chain
  BY <1>1, PixelType, SyncChain DEF P_sync_line_req, FetchType
<1>6. phase' \in 0 .. 3
  BY DEF Edge50
<1>7. mode_en' \in BOOLEAN
  BY DEF Edge50, VideoCpuEdge, Program, Fill, Fb_init, FetchType
<1>8. vga_req_pending' \in BOOLEAN
  BY <1>2, Zenon
<1> DEFINE kept == /\ fetch_state' \in Fetching \cup {"F_IDLE", "F_LINE_DONE"}
                   /\ fetch_line' \in Line /\ fetch_buf_sel' \in BOOLEAN
                   /\ fetch_word_cnt' \in 0 .. LINE_WORDS - 1
                   /\ fetch_burst_cnt' \in 0 .. BURST_WORDS - 1
                   /\ FetchInv'
<1>9. CASE fetch_state # "F_POP"
  <2>1. vga_rd_req = NoOp /\ ~vga_req_pending /\ ~new /\ ~pop
    BY <1>3, <1>9 DEF FetchInv
  <2>2. ~vga_req_pending' /\ UNCHANGED <<vga_shadow_adr, vga_fifo_pop_cnt>>
    BY <1>2, <2>1
  <2>3. ASSUME FetchIdle, LineReqFire /\ mode_en PROVE kept
    <3>1. /\ fetch_line' = line_fetch_shadow /\ fetch_word_cnt' = 0 /\ fetch_burst_cnt' = 0
          /\ fetch_buf_sel' = line_fill_shadow /\ fetch_state' = "F_REQ" /\ vga_rd_req' = NoOp
      BY <2>3 DEF FetchIdle
    <3>2. 0 % BURST_WORDS = 0 /\ 0 \in 0 .. BURST_WORDS - 1 /\ 0 \in 0 .. LINE_WORDS - 1
      BY <1>4, Sizes
    <3> QED
      BY <1>8, <2>2, <3>1, <3>2 DEF FetchType, FetchInv, Fetching
  <2>4. ASSUME FetchIdle, ~(LineReqFire /\ mode_en) PROVE kept
    <3>1. /\ UNCHANGED <<fetch_line, fetch_word_cnt, fetch_burst_cnt, fetch_buf_sel, fetch_state>>
          /\ vga_rd_req' = NoOp /\ fetch_state = "F_IDLE"
      BY <2>4 DEF FetchIdle
    <3> QED
      BY <1>8, <2>2, <3>1 DEF FetchType, FetchInv
  <2>5. ASSUME FetchReq PROVE kept
    <3>1. /\ vga_rd_req' = word /\ fetch_burst_cnt' = 0 /\ fetch_state' = "F_POP"
          /\ UNCHANGED <<fetch_line, fetch_word_cnt, fetch_buf_sel>> /\ fetch_state = "F_REQ"
      BY <2>5 DEF FetchReq
    <3>2. fetch_word_cnt % BURST_WORDS = 0 /\ 0 \in 0 .. BURST_WORDS - 1
      BY <1>4, <3>1 DEF FetchInv
    <3>3. vga_rd_req' = LineWord(fetch_line', fetch_word_cnt')
      BY <3>1
    <3> HIDE DEF word
    <3> QED
      BY <1>8, <2>2, <3>1, <3>2, <3>3 DEF FetchType, FetchInv, Fetching
  <2>6. ASSUME FetchGo("F_NEXT_BURST", "F_REQ") PROVE kept
    BY <1>8, <2>2, <2>6 DEF FetchGo, FetchType, FetchInv, Fetching
  <2>7. ASSUME FetchGo("F_LINE_DONE", "F_IDLE") PROVE kept
    BY <1>8, <2>2, <2>7 DEF FetchGo, FetchType, FetchInv, Fetching
  <2>8. ~FetchPop(pop)
    BY <1>9 DEF FetchPop
  <2>9. kept
    BY <1>1, <2>3, <2>4, <2>5, <2>6, <2>7, <2>8 DEF P_fetch, FetchType
  <2> QED
    BY <1>5, <1>6, <1>7, <2>9, PixelType DEF FetchType
<1>10. CASE fetch_state = "F_POP"
  <2>1. FetchPop(pop) /\ vga_rd_req' = NoOp /\ UNCHANGED <<fetch_line, fetch_buf_sel>>
    BY <1>1, <1>10 DEF P_fetch, FetchPop, FetchIdle, FetchReq, FetchGo
  <2>2. CASE ~pop
    <3>1. UNCHANGED <<fetch_word_cnt, fetch_burst_cnt, fetch_state>>
      BY <2>1, <2>2 DEF FetchPop
    <3>2. vga_req_pending' <=> new \/ vga_req_pending
      BY <1>2, <2>2 DEF FetchInv
    <3>3. ASSUME new PROVE kept
      <4>1. /\ fetch_burst_cnt = 0 /\ vga_rd_req = word
            /\ vga_shadow_adr' = word /\ vga_fifo_pop_cnt' = 0
        BY <1>2, <3>3 DEF FetchInv
      <4>2. fetch_word_cnt - 0 = fetch_word_cnt
        BY Sizes DEF FetchType
      <4>3. vga_shadow_adr' = LineWord(fetch_line', fetch_word_cnt' - fetch_burst_cnt')
        BY <2>1, <3>1, <4>1, <4>2
      <4> QED
        BY <1>8, <1>10, <2>1, <3>1, <4>1, <4>3 DEF FetchType, FetchInv, Fetching
    <3>4. ASSUME ~new PROVE kept
      <4>1. UNCHANGED <<vga_shadow_adr, vga_fifo_pop_cnt>> /\ (vga_req_pending' <=> vga_req_pending)
        BY <1>2, <2>2, <3>2, <3>4
      <4> QED
        BY <1>8, <1>10, <2>1, <3>1, <4>1 DEF FetchType, FetchInv, Fetching
    <3>5. kept
      BY <3>3, <3>4 DEF FetchType
    <3> QED
      BY <1>5, <1>6, <1>7, <3>5, PixelType DEF FetchType
  <2>3. CASE pop
    <3> DEFINE last == fetch_word_cnt = LINE_WORDS - 1
               burst == fetch_burst_cnt = BURST_WORDS - 1
    <3>1. /\ fetch_word_cnt' = IF last THEN fetch_word_cnt ELSE fetch_word_cnt + 1
          /\ fetch_burst_cnt' = CASE last -> fetch_burst_cnt
                                  [] ~last /\ burst -> 0
                                  [] OTHER -> fetch_burst_cnt + 1
          /\ fetch_state' = CASE last -> "F_LINE_DONE"
                              [] ~last /\ burst -> "F_NEXT_BURST"
                              [] OTHER -> "F_POP"
      BY <2>1, <2>3 DEF FetchPop
    <3>2. /\ ~new /\ fetch_burst_cnt = vga_fifo_pop_cnt
          /\ vga_shadow_adr = LineWord(fetch_line, fetch_word_cnt - fetch_burst_cnt)
          /\ fetch_word_cnt % BURST_WORDS = fetch_burst_cnt
      BY <1>3, <1>10, <2>3 DEF FetchInv
    <3>3. /\ (fetch_word_cnt + 1) % BURST_WORDS = IF burst THEN 0 ELSE fetch_burst_cnt + 1
          /\ last => burst
      BY <3>2, LastOfBurst DEF FetchType
    <3>4. /\ fetch_word_cnt \in 0 .. LINE_WORDS - 1 /\ fetch_burst_cnt \in 0 .. BURST_WORDS - 1
      BY DEF FetchType
    <3>5. vga_req_pending' <=> ~burst
      BY <1>2, <1>3, <2>3, <3>2
    <3>6. UNCHANGED vga_shadow_adr /\ (vga_fifo_pop_cnt' = IF burst THEN 0 ELSE vga_fifo_pop_cnt + 1)
      BY <1>2, <2>3, <3>2
    <3>7. ASSUME last PROVE kept
      BY <1>8, <2>1, <3>1, <3>3, <3>4, <3>5, <3>7 DEF FetchType, FetchInv, Fetching
    <3>8. ASSUME ~last, burst PROVE kept
      <4>1. /\ fetch_word_cnt' = fetch_word_cnt + 1 /\ fetch_burst_cnt' = 0
            /\ fetch_state' = "F_NEXT_BURST" /\ ~vga_req_pending'
        BY <3>1, <3>5, <3>8
      <4>2. fetch_word_cnt' % BURST_WORDS = 0 /\ fetch_word_cnt' \in 0 .. LINE_WORDS - 1
            /\ 0 \in 0 .. BURST_WORDS - 1
        BY <1>4, <3>3, <3>4, <3>8, <4>1
      <4> QED
        BY <1>8, <2>1, <4>1, <4>2 DEF FetchType, FetchInv, Fetching
    <3>9. ASSUME ~burst PROVE kept
      <4>1. /\ fetch_word_cnt' = fetch_word_cnt + 1 /\ fetch_burst_cnt' = fetch_burst_cnt + 1
            /\ fetch_state' = "F_POP" /\ vga_req_pending' /\ UNCHANGED vga_shadow_adr
            /\ vga_fifo_pop_cnt' = vga_fifo_pop_cnt + 1
        BY <3>1, <3>3, <3>5, <3>6, <3>9
      <4>2. /\ fetch_word_cnt' % BURST_WORDS = fetch_burst_cnt'
            /\ fetch_word_cnt' \in 0 .. LINE_WORDS - 1 /\ fetch_burst_cnt' \in 0 .. BURST_WORDS - 1
            /\ fetch_word_cnt' - fetch_burst_cnt' = fetch_word_cnt - fetch_burst_cnt
        BY <1>4, <3>3, <3>4, <3>9, <4>1
      <4>3. vga_shadow_adr' = LineWord(fetch_line', fetch_word_cnt' - fetch_burst_cnt')
        BY <2>1, <3>2, <4>1, <4>2
      <4>4. fetch_burst_cnt' = vga_fifo_pop_cnt'
        BY <3>2, <4>1
      <4> QED
        BY <1>8, <2>1, <4>1, <4>2, <4>3, <4>4 DEF FetchType, FetchInv, Fetching
    <3>10. kept
      BY <3>7, <3>8, <3>9 DEF FetchType
    <3> QED
      BY <1>5, <1>6, <1>7, <3>10, PixelType DEF FetchType
  <2> QED
    BY <2>2, <2>3
<1> QED
  BY <1>9, <1>10

-----------------------------------------------------------------------------
(***************************************************************************)
(* The engine works on the part of the rectangle that is on the screen.    *)
(***************************************************************************)
Rect == [x : Int, y : Int, w : Int, h : Int]

OnScreen(c) ==
  /\ c \in Rect
  /\ c.x >= 0 /\ c.x + c.w <= FB_W /\ c.w >= 2 * BURST_WORDS /\ c.w % (2 * BURST_WORDS) = 0
  /\ c.x % 2 = 0
  /\ c.y >= 0 /\ c.y + c.h <= LINES /\ c.h >= 1

LEMMA ClippedFits ==
  ASSUME NEW r \in RECTS, Accelerated(Clipped(r))
  PROVE  OnScreen(Clipped(r))
<1>1. r \in [x : Int, y : Int, w : Int, h : Int]
  BY VideoAssumption
<1>2. r.x \in Int /\ r.y \in Int /\ r.w \in Int /\ r.h \in Int
  BY <1>1
<1>3. FB_W \in Int /\ FB_H = LINES /\ LINES \in Int
  BY Sizes
<1> DEFINE x0 == IF r.x < 0 THEN 0 ELSE r.x
           y0 == IF r.y < 0 THEN 0 ELSE r.y
           x1 == IF r.x + r.w > FB_W THEN FB_W ELSE r.x + r.w
           y1 == IF r.y + r.h > FB_H THEN FB_H ELSE r.y + r.h
<1>4. /\ x0 \in Int /\ y0 \in Int /\ x1 \in Int /\ y1 \in Int
      /\ x0 >= 0 /\ y0 >= 0 /\ x1 <= FB_W /\ y1 <= LINES
  BY <1>2, <1>3
<1>5. Clipped(r) = [x |-> x0, y |-> y0, w |-> x1 - x0, h |-> y1 - y0]
  BY DEF Clipped
<1> HIDE DEF x0, y0, x1, y1
<1>6. /\ Clipped(r) \in Rect /\ Clipped(r).x = x0 /\ Clipped(r).y = y0
      /\ Clipped(r).w = x1 - x0 /\ Clipped(r).h = y1 - y0
  BY <1>4, <1>5 DEF Rect
<1>7. x0 + (x1 - x0) = x1 /\ y0 + (y1 - y0) = y1
  BY <1>4
<1> QED
  BY <1>4, <1>6, <1>7 DEF OnScreen, Accelerated

\* What its first word is.
LEMMA FirstWord ==
  ASSUME NEW c, OnScreen(c)
  PROVE  /\ c.y \in Line /\ c.x \div 2 \in 0 .. LINE_WORDS - 1
         /\ FB_ADR + (c.y * FB_W + c.x) \div 2 = LineWord(c.y, c.x \div 2)
         /\ LineWord(c.y, c.x \div 2) \in Adr
<1>1. c.x \in Int /\ c.y \in Int /\ c.w \in Int /\ c.h \in Int
  BY DEF OnScreen, Rect
<1>2. \A x \in Int : x % 2 = 0 => x = 2 * (x \div 2) /\ x \div 2 \in Int
  OBVIOUS
<1>3. PICK m \in Int : c.x = 2 * m /\ c.x \div 2 = m
  BY <1>1, <1>2 DEF OnScreen
<1>4. c.y \in Line /\ m \in 0 .. LINE_WORDS - 1
  BY <1>1, <1>3, Sizes DEF OnScreen, Line
<1>5. \A y, l \in Int : y * (2 * l) = 2 * (y * l) /\ y * l \in Int
  OBVIOUS
<1>6. PICK q \in Int : q = c.y * LINE_WORDS /\ c.y * FB_W = 2 * q
  BY <1>1, <1>5, Sizes
<1>7. \A a, b \in Int : (2 * a + 2 * b) \div 2 = a + b
  OBVIOUS
<1>8. (c.y * FB_W + c.x) \div 2 = q + m
  BY <1>3, <1>6, <1>7
<1>9. FB_ADR + (c.y * FB_W + c.x) \div 2 = LineWord(c.y, c.x \div 2)
  BY <1>3, <1>4, <1>6, <1>8, Sizes DEF LineWord
<1> QED
  BY <1>3, <1>4, <1>9, WordsOfLines

EngineStates == {"G_IDLE", "G_ROW_SETUP", "G_BURST_REQ", "G_BURST_WAIT", "G_ROW_NEXT"}

EngineType ==
  /\ reg_dst \in Adr /\ reg_width \in Int /\ reg_height \in Int
  /\ gpu_state \in EngineStates /\ shadow_width \in Int /\ cur_row \in Int
  /\ cur_col_px \in Int /\ cur_addr \in Adr

LEMMA EngineInit == Init => EngineType
  BY Sizes DEF Init, Gpu2DInit, EngineType, EngineStates

\* Addresses wrap.
LEMMA AddressWraps ==
  ASSUME NEW a \in Int
  PROVE  a % ADRS \in Adr
<1>1. \A m \in Nat \ {0} : a % m \in 0 .. m - 1
  OBVIOUS
<1> QED
  BY <1>1, Sizes

LEMMA RegsStep ==
  ASSUME EngineType, NEW pop, Edge50(pop)
  PROVE  reg_dst' \in Adr /\ reg_width' \in Int /\ reg_height' \in Int
<1>1. Program
  BY DEF Edge50, VideoCpuEdge
<1>2. ASSUME NEW r \in RECTS, Fill(r)
      PROVE  reg_dst' \in Adr /\ reg_width' \in Int /\ reg_height' \in Int
  <2>1. Accelerated(Clipped(r)) /\ Gpu_fill_rect(Clipped(r))
    BY <1>2 DEF Fill, Gfx_fill_rect
  <2> DEFINE c == Clipped(r)
  <2>2. OnScreen(c)
    BY <2>1, ClippedFits
  <2> HIDE DEF c
  <2>3. Gpu_fill_rect(c)
    BY <2>1 DEF c
  <2>4. reg_dst' = LineWord(c.y, c.x \div 2) /\ LineWord(c.y, c.x \div 2) \in Adr
    BY <2>2, <2>3, FirstWord DEF Gpu_fill_rect
  <2>5. reg_width' = c.w /\ reg_height' = c.h /\ c \in Rect
    BY <2>2, <2>3 DEF Gpu_fill_rect, OnScreen
  <2> QED
    BY <2>4, <2>5 DEF Rect
<1>3. CASE UNCHANGED regVars
  BY <1>3 DEF regVars, EngineType
<1>4. (\E r \in RECTS : Fill(r)) \/ UNCHANGED regVars
  BY <1>1 DEF Program, Fb_init, Gpu_start, Gpu_wait, Gpu_none
<1> QED
  BY <1>2, <1>3, <1>4

LEMMA FsmOfEngine ==
  ASSUME EngineType, P_gpu_fsm
  PROVE  /\ gpu_state' \in EngineStates /\ shadow_width' \in Int /\ cur_row' \in Int
         /\ cur_col_px' \in Int /\ cur_addr' \in Adr
<1>1. CASE G_idle
  BY <1>1 DEF G_idle, EngineType, EngineStates
<1>2. CASE G_row_setup
  BY <1>2 DEF G_row_setup, EngineType, EngineStates
<1>3. CASE G_burst_req
  BY <1>3 DEF G_burst_req, EngineType, EngineStates
<1>4. CASE G_burst_wait
  <2> cur_addr + BURST_WORDS \in Int
    BY Sizes DEF EngineType
  <2>1. (cur_addr + BURST_WORDS) % ADRS \in Adr
    BY AddressWraps
  <2>2. cur_col_px - 2 * BURST_WORDS \in Int
    BY Sizes DEF EngineType
  <2> QED
    BY <1>4, <2>1, <2>2 DEF G_burst_wait, EngineType, EngineStates
<1>5. CASE G_row_next
  <2>1. \A a, b \in Int, s \in Int : a + b - s \div 2 \in Int
    OBVIOUS
  <2>2. cur_addr + FB_W \div 2 - shadow_width \div 2 \in Int
    BY <2>1, Sizes DEF EngineType
  <2>3. cur_addr' \in Adr
    BY <1>5, <2>2, AddressWraps DEF G_row_next
  <2> QED
    BY <1>5, <2>3 DEF G_row_next, EngineType, EngineStates
<1> QED
  BY <1>1, <1>2, <1>3, <1>4, <1>5 DEF P_gpu_fsm

LEMMA EngineTypeStep ==
  ASSUME EngineType, [Next]_vars
  PROVE  EngineType'
<1>1. CASE UNCHANGED vars
  BY <1>1 DEF vars, driverVars, regVars, gpuVars, EngineType
<1>2. CASE FastEdge
  BY <1>2, FsmOfEngine DEF FastEdge, driverVars, regVars, VideoSdramEdge, EngineType
<1>3. ASSUME NEW pop \in BOOLEAN, Edge50(pop) PROVE EngineType'
  BY <1>3, FsmOfEngine, RegsStep DEF Edge50, VideoSdramEdge, EngineType
<1> QED
  BY <1>1, <1>2, <1>3, Edges

-----------------------------------------------------------------------------
(***************************************************************************)
(* Every step of this board is a step of SdramBoard.                       *)
(***************************************************************************)
LEMMA SameAddresses ==
  /\ \A a : Board!BankOf(a) = BankOf(a) /\ Board!RowOf(a) = RowOf(a) /\ Board!ColOf(a) = ColOf(a)
  /\ \A b, r, c : Board!Cell(b, r, c) = Cell(b, r, c)
  /\ Board!Adr = Adr /\ Board!CLOSED = CLOSED /\ Board!Bank = Bank /\ Board!A10 = A10
  /\ Board!Timed = Timed /\ \A c : Board!Cap(c) = Cap(c)
  BY DEF Board!BankOf, BankOf, Board!RowOf, RowOf, Board!ColOf, ColOf, Board!Cell, Cell,
         Board!Adr, Adr, Board!CLOSED, CLOSED, Board!Bank, Bank, Board!A10, A10,
         Board!Timed, Timed, Board!Cap, Cap

LEMMA SameChains ==
  /\ \A chain : Board!Fire(chain) = Fire(chain)
  /\ \A chain, b : Board!Sync(chain, b) = Sync(chain, b)
  BY DEF Board!Fire, Fire, Board!Sync, Sync

LEMMA SameChip == ChipStep => Board!ChipStep
<1>1. Board!OpenNext = OpenNext
  BY SameAddresses DEF Board!OpenNext, OpenNext, Board!Closes, Closes
<1>2. Board!Addressed = Addressed
  BY SameAddresses DEF Board!Addressed, Addressed
<1>3. Access => Board!Access
  BY <1>2, SameAddresses, Zenon DEF Board!Access, Access
<1> QED
  BY <1>1, <1>3, SameAddresses, Zenon DEF Board!ChipStep, ChipStep

LEMMA SameFsm == P_sdram => Board!P_sdram
<1> USE DEF Board!Goto, Goto, Board!Nop, Nop, Board!Command3, Command3, Board!Wait, Wait,
        Board!colVars, colVars, Board!adrVars, adrVars, Board!initVars, initVars
<1>1. Init_wait => Board!Init_wait
  BY DEF Board!Init_wait, Init_wait
<1>2. Prechg_all => Board!Prechg_all
  BY SameAddresses DEF Board!Prechg_all, Prechg_all
<1>3. Prechg_wait => Board!Prechg_wait
  BY DEF Board!Prechg_wait, Prechg_wait
<1>4. Init_refresh => Board!Init_refresh
  BY DEF Board!Init_refresh, Init_refresh
<1>5. Ref_wait => Board!Ref_wait
  BY DEF Board!Ref_wait, Ref_wait
<1>6. Load_mode => Board!Load_mode
  BY DEF Board!Load_mode, Load_mode
<1>7. Mode_wait => Board!Mode_wait
  BY DEF Board!Mode_wait, Mode_wait
<1>8. Pick => Board!Pick
  BY DEF Board!Pick, Pick
<1>9. Idle => Board!Idle
  BY <1>8 DEF Board!Idle, Idle
<1>10. Auto_refresh => Board!Auto_refresh
  BY DEF Board!Auto_refresh, Auto_refresh
<1>11. Activate => Board!Activate
  BY SameAddresses DEF Board!Activate, Activate
<1>12. Trcd_wait => Board!Trcd_wait
  BY DEF Board!Trcd_wait, Trcd_wait, Board!TrcdNext, TrcdNext
<1>13. /\ Board!ReadCol = ReadCol /\ \A k : Board!BurstCol(k) = BurstCol(k)
  BY SameAddresses DEF Board!ReadCol, ReadCol, Board!BurstCol, BurstCol
<1>14. Read_wait => Board!Read_wait
  BY <1>13, SameAddresses DEF Board!Read_wait, Read_wait
<1>15. /\ Read_capture => Board!Read_capture
       /\ Write_setup => Board!Write_setup
       /\ Write_wait => Board!Write_wait
       /\ Write_recovery => Board!Write_recovery
  BY DEF Board!Read_capture, Read_capture, Board!Write_setup, Write_setup, Board!Write_wait,
         Write_wait, Board!Write_recovery, Write_recovery, Board!Step, Step
<1>16. Write_cmd => Board!Write_cmd
  BY SameAddresses DEF Board!Write_cmd, Write_cmd
<1>17. Vga_capture => Board!Vga_capture
  BY DEF Board!Vga_capture, Vga_capture
<1>18. Gpu_write => Board!Gpu_write
  BY <1>13, SameAddresses DEF Board!Gpu_write, Gpu_write
<1>19. \A s, next : Precharge(s, next) => Board!Precharge(s, next)
  BY SameAddresses DEF Board!Precharge, Precharge
<1>20. Trp_wait => Board!Trp_wait
  BY DEF Board!Trp_wait, Trp_wait
<1> QED
  BY <1>1, <1>2, <1>3, <1>4, <1>5, <1>6, <1>7, <1>9, <1>10, <1>11, <1>12, <1>14, <1>15, <1>16,
     <1>17, <1>18, <1>19, <1>20, Zenon DEF Board!P_sdram, P_sdram

LEMMA SameEdge ==
  ASSUME NEW pop, SdramEdge(gpu_wr_req, gpu_wr_adr, pop)
  PROVE  Board!SdramEdge(gpu_wr_req, gpu_wr_adr, pop)
<1> USE SameChains DEF Board!TrpDone, TrpDone
<1>1. P_req_latch => Board!P_req_latch
  BY Zenon DEF Board!P_req_latch, P_req_latch, Board!ReqFire, ReqFire
<1>2. P_vga_latch => Board!P_vga_latch
  BY Zenon DEF Board!P_vga_latch, P_vga_latch, Board!VgaFire, VgaFire
<1>3. P_gpu_latch(gpu_wr_req, gpu_wr_adr) => Board!P_gpu_latch(gpu_wr_req, gpu_wr_adr)
  BY Zenon DEF Board!P_gpu_latch, P_gpu_latch
<1>4. P_data(pop) => Board!P_data(pop)
  BY Zenon DEF Board!P_data, P_data
<1> QED
  BY <1>1, <1>2, <1>3, <1>4, SameFsm, SameChip DEF Board!SdramEdge, SdramEdge

LEMMA SameCpuSide ==
  ASSUME NEW pop, CpuEdge(NoOp, vga_rd_req, pop), P_sync_req
  PROVE  Board!CpuEdge(NoOp, vga_rd_req, pop) /\ Board!P_sync_req
<1>1. P_req_cpu(NoOp) => Board!P_req_cpu(NoOp)
  BY SameChains, Zenon DEF Board!P_req_cpu, P_req_cpu, Board!AcceptFire, AcceptFire
<1>2. P_vga(vga_rd_req, pop) => Board!P_vga(vga_rd_req, pop)
  BY Zenon DEF Board!P_vga, P_vga
<1>3. Board!P_sync_req
  BY SameChains, Zenon DEF Board!P_sync_req, P_sync_req
<1> QED
  BY <1>1, <1>2, <1>3 DEF Board!CpuEdge, CpuEdge

\* The engine asks as the GPU master of that board does.
LEMMA SameGpu ==
  ASSUME EngineType, P_gpu_fsm
  PROVE  Board!Gpu
<1>1. (gpu_state = "G_BURST_WAIT")' = (gpu_state' = "G_BURST_WAIT")
  OBVIOUS
<1>2. CASE G_burst_req
  BY <1>2 DEF G_burst_req, Board!Gpu, EngineType
<1>3. CASE G_idle \/ G_row_setup \/ G_row_next
  BY <1>3 DEF G_idle, G_row_setup, G_row_next, Board!Gpu
<1>4. CASE G_burst_wait
  BY <1>4 DEF G_burst_wait, Board!Gpu
<1> QED
  BY <1>2, <1>3, <1>4 DEF P_gpu_fsm

LEMMA BoardInit == Init => Board!Init
<1> SUFFICES ASSUME Init PROVE Board!Init
  OBVIOUS
<1>1. Board!CtrlInit
  BY DEF Init, CtrlInit, Board!CtrlInit, Flat, Board!Flat, SomeOp, Board!SomeOp
<1>2. Board!ChipInit
  BY SameAddresses DEF Init, ChipInit, Board!ChipInit, Row, Board!Row
<1>3. 0 % 2 = 0
  OBVIOUS
<1> QED
  BY <1>1, <1>2, <1>3 DEF Init, Gpu2DInit, Board!Init

LEMMA BoardStep ==
  ASSUME FetchType, FetchInv, EngineType, [Next]_vars
  PROVE  [Board!Next]_(Board!vars)
<1>1. CASE UNCHANGED vars
  BY <1>1 DEF vars, ctrlVars, pins, chipVars, gpuVars, boardVars, Board!vars, Board!ctrlVars,
              Board!pins, Board!chipVars
<1>2. CASE FastEdge
  <2>1. /\ phase \in {1, 3} /\ phase' = (phase + 1) % 4 /\ SdramEdge(gpu_wr_req, gpu_wr_adr, FALSE)
        /\ P_sync_req /\ P_gpu_fsm
    BY <1>2 DEF FastEdge, VideoSdramEdge
  <2>2. UNCHANGED <<reqCpuVars, vgaCpuVars, accept_sync, ack_sync, rd_data_cpu>>
    BY <1>2 DEF FastEdge
  <2>3. phase % 2 = 1 /\ phase' % 2 = 0
    BY <2>1
  <2>4. Board!P_sync_req
    BY <2>1, SameChains, Zenon DEF Board!P_sync_req, P_sync_req
  <2>5. UNCHANGED <<Board!reqCpuVars, Board!vgaCpuVars>>
    BY <2>2 DEF Board!reqCpuVars, reqCpuVars, Board!vgaCpuVars, vgaCpuVars
  <2>6. Board!SdramEdge(gpu_wr_req, gpu_wr_adr, FALSE) /\ Board!Gpu
    BY <2>1, SameEdge, SameGpu
  <2>7. Board!FastEdge
    BY <2>2, <2>3, <2>4, <2>5, <2>6 DEF Board!FastEdge
  <2> QED
    BY <2>7 DEF Board!Next
<1>3. ASSUME NEW pop \in BOOLEAN, Edge50(pop)
      PROVE  Board!Next
  <2>1. /\ phase \in {0, 2} /\ phase' = phase + 1 /\ SdramEdge(gpu_wr_req, gpu_wr_adr, pop)
        /\ P_sync_req /\ P_gpu_fsm /\ P_sync_ack
        /\ CpuEdge(NoOp, vga_rd_req, pop) /\ (pop => VgaPop)
    BY <1>3 DEF Edge50, VideoSdramEdge, VideoCpuEdge, VideoReturns
  <2>2. phase % 2 = 0 /\ phase' % 2 = 1
    BY <2>1
  <2>3. Board!CpuEdge(NoOp, vga_rd_req, pop) /\ Board!P_sync_req
    BY <2>1, SameCpuSide
  <2>4. Board!P_sync_ack
    BY <2>1, SameChains, Zenon DEF Board!P_sync_ack, P_sync_ack
  <2>5. Board!SdramEdge(gpu_wr_req, gpu_wr_adr, pop) /\ Board!Gpu
    BY <2>1, SameEdge, SameGpu
  <2>6. pop => Board!VgaPop
    BY <2>1 DEF Board!VgaPop, VgaPop
  <2>7. vga_rd_req \in Board!Adr \cup {NoOp}
    <3>1. vga_rd_req # NoOp => LineWord(fetch_line, fetch_word_cnt) \in Adr
      BY WordsOfLines DEF FetchType
    <3> QED
      BY <3>1, SameAddresses DEF FetchInv
  <2>8. vga_req_pending => vga_rd_req = NoOp
    BY DEF FetchInv
  <2>9. Board!Cpu(NoOp)
    BY DEF Board!Cpu
  <2>10. Board!BothEdges(NoOp, vga_rd_req, pop)
    BY <2>2, <2>3, <2>4, <2>5, <2>6, <2>8, <2>9 DEF Board!BothEdges
  <2> QED
    BY <2>7, <2>10, SameAddresses DEF Board!Next
<1> QED
  BY <1>1, <1>2, <1>3, Edges

\* What holds of the reader and the engine in every state.
LEMMA FetchStutter ==
  ASSUME FetchType, FetchInv, UNCHANGED <<fetchVars, lineVars, vgaCpuVars, mode_en>>, phase' \in 0 .. 3
  PROVE  FetchType' /\ FetchInv'
  BY DEF fetchVars, lineVars, vgaCpuVars, FetchType, FetchInv

MasterInv == FetchType /\ FetchInv /\ EngineType

LEMMA MasterInvAlways ==
  ASSUME WholeBursts
  PROVE  Spec => []MasterInv
<1>1. Init => MasterInv
  BY FetchInit, EngineInit DEF MasterInv
<1>2. MasterInv /\ [Next]_vars => MasterInv'
  <2> SUFFICES ASSUME MasterInv, [Next]_vars PROVE MasterInv'
    OBVIOUS
  <2>1. EngineType'
    BY EngineTypeStep DEF MasterInv
  <2>2. CASE UNCHANGED vars
    BY <2>1, <2>2, FetchStutter DEF vars, ctrlVars, boardVars, vgaCpuVars, MasterInv, FetchType
  <2>3. CASE FastEdge
    BY <2>1, <2>3, FetchStutter DEF FastEdge, NoPixelEdge, MasterInv
  <2>4. ASSUME NEW pop \in BOOLEAN, Edge50(pop) PROVE MasterInv'
    BY <2>1, <2>4, FetchStep DEF MasterInv
  <2> QED
    BY <2>2, <2>3, <2>4, Edges
<1> QED
  BY <1>1, <1>2, PTL DEF Spec

(***************************************************************************)
(* The board with the reader and the engine implements the board with any  *)
(* masters: what SdramBoard proves of the controller holds here.           *)
(***************************************************************************)
THEOREM RefinesBoard ==
  ASSUME WholeBursts
  PROVE  Spec => Board!Spec
<1>1. MasterInv /\ [Next]_vars => [Board!Next]_(Board!vars)
  BY BoardStep DEF MasterInv
<1> QED
  BY <1>1, BoardInit, MasterInvAlways, PTL DEF Spec, Board!Spec

-----------------------------------------------------------------------------
(***************************************************************************)
(* What that says of the controller here, where no single word is ever     *)
(* asked for.                                                              *)
(***************************************************************************)
VgaPath == {"S_VGA_TRCD_WAIT", "S_VGA_READ", "S_VGA_CAPTURE", "S_VGA_PRECHARGE", "S_VGA_TRP_WAIT"}
GpuPath == {"S_GPU_TRCD_WAIT", "S_GPU_WRITE", "S_GPU_PRECHARGE", "S_GPU_TRP_WAIT"}

RegisterTypes ==
  /\ state \in State /\ trcd_cnt \in 0 .. 3 /\ cas_cnt \in 0 .. 7
  /\ vga_col_cnt \in 0 .. 7 /\ gpu_col_cnt \in 0 .. 7
  /\ addr_r \in Adr /\ gpu_adr_r \in Adr /\ gpu_wr_adr \in Adr
  /\ gpu_wr_req \in BOOLEAN /\ gpu_wr_valid \in BOOLEAN /\ gpu_done_r \in BOOLEAN
  /\ mem \in [Adr -> DATA] /\ dq \in DATA

VgaTypes ==
  /\ vga_toggle_cpu \in BOOLEAN /\ vga_req_pending \in BOOLEAN /\ vga_valid \in BOOLEAN
  /\ vga_shadow_adr \in Adr /\ vga_adr \in Adr /\ vga_sync \in Chain
  /\ vga_fifo_pop_cnt \in 0 .. BURST_WORDS - 1
  /\ vga_fifo_wr \in DATA \cup {NoOp} /\ vga_fifo \in Seq(DATA)

PathsOwned ==
  /\ ~req_valid
  /\ state \notin {"S_TRCD_WAIT", "S_READ_WAIT", "S_READ_CAPTURE", "S_WRITE_SETUP", "S_WRITE_CMD",
                   "S_WRITE_WAIT", "S_WRITE_RECOVERY", "S_PRECHARGE", "S_TRP_WAIT"}
  /\ state = "S_ACTIVATE" => vga_valid \/ gpu_wr_valid
  /\ state \in VgaPath => vga_valid
  /\ state \in GpuPath => gpu_wr_valid
  /\ gpu_state = "G_BURST_WAIT" <=> gpu_wr_req \/ gpu_wr_valid \/ gpu_done_r
  /\ ~(gpu_wr_req /\ gpu_wr_valid) /\ ~(gpu_wr_req /\ gpu_done_r) /\ ~(gpu_wr_valid /\ gpu_done_r)

Writing == IF vga_fifo_wr = NoOp THEN 0 ELSE 1
Coming  == vga_fifo_pop_cnt + Len(vga_fifo) + Writing
VgaTravels == vga_toggle_cpu # vga_sync[4]

WordsCounted ==
  /\ VgaFire => VgaTravels
  /\ VgaTravels => vga_req_pending /\ ~vga_valid
  /\ vga_req_pending => Coming <= BURST_WORDS
  /\ vga_req_pending /\ VgaTravels => Coming = 0
  /\ vga_req_pending /\ vga_valid /\ state \notin VgaPath \ {"S_VGA_TRCD_WAIT"} => Coming = 0
  /\ vga_req_pending /\ state \in {"S_VGA_READ", "S_VGA_CAPTURE"} => Coming <= vga_col_cnt
  /\ ~vga_req_pending => /\ vga_fifo_pop_cnt = 0 /\ vga_fifo = << >> /\ vga_fifo_wr = NoOp
                         /\ vga_valid => state = "S_VGA_TRP_WAIT" /\ trcd_cnt = 1
  /\ vga_col_cnt <= BURST_WORDS - 1

Commanded ==
  /\ cmd = "READ" <=> state = "S_VGA_READ" /\ cas_cnt = 1
  /\ cmd = "WRITE" => state \in {"S_GPU_WRITE", "S_GPU_PRECHARGE"}
  /\ cmd \in {"READ", "WRITE"} => dram_ba = BankOf(addr_r) /\ open[dram_ba] = RowOf(addr_r)
  /\ state = "S_VGA_READ" => cas_cnt <= 4
  /\ state \in {"S_GPU_TRCD_WAIT", "S_VGA_TRCD_WAIT"} => trcd_cnt <= 1

Facts == MasterInv /\ RegisterTypes /\ VgaTypes /\ PathsOwned /\ WordsCounted /\ Commanded

LEMMA BoardFacts ==
  ASSUME Board!IInv, Board!Spaced, Board!Tokens, MasterInv
  PROVE  Facts
<1>1. RegisterTypes
  BY SameAddresses DEF Board!IInv, Board!TypeOK, Board!FsmType, Board!AccessType, Board!GpuType, Board!MastersType,
         Board!ChipType, Board!State, State, RegisterTypes
<1>2. VgaTypes
  BY SameAddresses DEF Board!IInv, Board!TypeOK, Board!VgaType, VgaTypes, Board!Chain, Chain
<1>3. PathsOwned
  BY Zenon DEF Board!Tokens, Board!Owned, Board!CpuToken, Board!GpuToken, Board!SingleStates, Board!VgaStates,
         Board!GpuStates, PathsOwned, VgaPath, GpuPath
<1>4. Coming \in Nat /\ vga_fifo_pop_cnt \in Nat /\ Len(vga_fifo) \in Nat /\ Writing \in Nat
  BY <1>2, Sizes DEF VgaTypes, Coming, Writing
<1>5. Board!VgaTravels <=> VgaTravels
  BY DEF Board!VgaTravels, Board!Travels, VgaTravels
<1>6. /\ Board!Writing = Writing /\ Board!VgaStates = VgaPath
      /\ Board!OneEdge(vga_toggle_cpu, vga_sync)
  BY Zenon DEF Board!Writing, Writing, Board!VgaStates, VgaPath, Board!Tokens, Board!VgaToken
<1>7. VgaFire => VgaTravels
  BY <1>2, <1>6 DEF VgaTypes, Board!OneEdge, VgaFire, Fire, VgaTravels, Chain
<1>8. Board!VgaToken
  BY DEF Board!Tokens
<1>9. /\ vga_req_pending => Coming + Board!Left <= BURST_WORDS
      /\ Board!Left \in Int
      /\ VgaTravels \/ (vga_valid /\ state \notin VgaPath \ {"S_VGA_TRCD_WAIT"}) => Board!Left = BURST_WORDS
      /\ state \in {"S_VGA_READ", "S_VGA_CAPTURE"} /\ ~VgaTravels => Board!Left = BURST_WORDS - vga_col_cnt
      /\ Board!Left >= 0
  <2>1. vga_col_cnt \in 0 .. 7 /\ vga_col_cnt <= BURST_WORDS - 1 /\ BURST_WORDS \in 1 .. 8
    BY <1>1, <1>8, Sizes DEF RegisterTypes, Board!VgaToken
  <2>2. vga_req_pending => Coming + Board!Left <= BURST_WORDS
    BY <1>6, <1>8 DEF Board!VgaToken, Coming
  <2>3. Board!Left \in {BURST_WORDS, BURST_WORDS - vga_col_cnt, 0}
    BY DEF Board!Left
  <2>4. /\ VgaTravels \/ (vga_valid /\ state \notin VgaPath \ {"S_VGA_TRCD_WAIT"}) => Board!Left = BURST_WORDS
        /\ state \in {"S_VGA_READ", "S_VGA_CAPTURE"} /\ ~VgaTravels => Board!Left = BURST_WORDS - vga_col_cnt
    BY <1>5, <1>6 DEF Board!Left, VgaPath
  <2> QED
    BY <2>1, <2>2, <2>3, <2>4
<1>10. WordsCounted
  <2>1. VgaTravels => vga_req_pending /\ ~vga_valid
    BY <1>5, <1>8 DEF Board!VgaToken
  <2>2. state \in {"S_VGA_READ", "S_VGA_CAPTURE"} => ~VgaTravels
    BY <1>3, <2>1 DEF PathsOwned, VgaPath
  <2>3. vga_col_cnt <= BURST_WORDS - 1 /\ vga_col_cnt \in Nat /\ BURST_WORDS \in Nat
    BY <1>1, <1>8, Sizes DEF RegisterTypes, Board!VgaToken
  <2>4. ~vga_req_pending => /\ vga_fifo_pop_cnt = 0 /\ vga_fifo = << >> /\ vga_fifo_wr = NoOp
                            /\ vga_valid => state = "S_VGA_TRP_WAIT" /\ trcd_cnt = 1
    BY <1>8 DEF Board!VgaToken
  <2>5. vga_req_pending => Coming <= BURST_WORDS
    BY <1>4, <1>9, <2>3
  <2>6. vga_req_pending /\ VgaTravels => Coming = 0
    BY <1>4, <1>9, <2>3
  <2>7. vga_req_pending /\ vga_valid /\ state \notin VgaPath \ {"S_VGA_TRCD_WAIT"} => Coming = 0
    BY <1>4, <1>9, <2>3
  <2>8. vga_req_pending /\ state \in {"S_VGA_READ", "S_VGA_CAPTURE"} => Coming <= vga_col_cnt
    BY <1>4, <1>9, <2>2, <2>3
  <2> QED
    BY <1>7, <2>1, <2>3, <2>4, <2>5, <2>6, <2>7, <2>8 DEF WordsCounted
<1>11. Commanded
  <2>1. /\ cmd = "READ" <=> state \in {"S_READ_WAIT", "S_VGA_READ"} /\ cas_cnt = 1
        /\ cmd = "WRITE" => state \in {"S_WRITE_WAIT", "S_GPU_WRITE", "S_GPU_PRECHARGE"}
        /\ state \in {"S_READ_WAIT", "S_VGA_READ"} => cas_cnt <= 4
        /\ state \in {"S_TRCD_WAIT", "S_VGA_TRCD_WAIT", "S_GPU_TRCD_WAIT"} => trcd_cnt <= 1
    BY Zenon DEF Board!Spaced, Board!CommandAt, Board!CountsBounded, Board!ReadStates, Board!TrcdStates
  <2>2. cmd \in {"READ", "WRITE"} => dram_ba = BankOf(addr_r) /\ open[dram_ba] = RowOf(addr_r)
    BY SameAddresses, Zenon DEF Board!IInv, Board!RowDiscipline
  <2> QED
    BY <1>3, <2>1, <2>2 DEF PathsOwned, Commanded
<1> QED
  BY <1>1, <1>2, <1>3, <1>10, <1>11 DEF Facts

LEMMA FactsAlways ==
  ASSUME WholeBursts
  PROVE  Spec => []Facts
<1>1. Board!Spec => []Board!IInv
  BY Board!Inductive, GeometryHolds, MemoryHolds, CtrlHolds, MastersHold, PTL
<1>2. Board!Spec => []Board!Spaced
  BY Board!SpacedAlways, GeometryHolds, MemoryHolds, CtrlHolds, MastersHold, PTL
<1>3. Board!Spec => []Board!Tokens
  BY Board!TokensAlways, GeometryHolds, MemoryHolds, CtrlHolds, MastersHold, PTL
<1>4. Board!IInv /\ Board!Spaced /\ Board!Tokens /\ MasterInv => Facts
  BY BoardFacts
<1> QED
  BY <1>1, <1>2, <1>3, <1>4, RefinesBoard, MasterInvAlways, PTL

-----------------------------------------------------------------------------
(***************************************************************************)
(* One step of the controller, of either kind of edge.                     *)
(***************************************************************************)
Controller(pop) ==
  /\ pop => VgaPop
  /\ SdramEdge(gpu_wr_req, gpu_wr_adr, pop) /\ P_sync_req
  /\ P_vga(vga_rd_req, pop) \/ (UNCHANGED vgaCpuVars /\ ~pop)
  /\ P_gpu_fsm /\ P_cdc_start

LEMMA EveryEdge ==
  /\ FastEdge => Controller(FALSE)
  /\ \A pop \in BOOLEAN : Edge50(pop) => Controller(pop)
  BY DEF FastEdge, Edge50, VideoSdramEdge, VideoCpuEdge, CpuEdge, Controller

\* Which step leads to which state of a VGA burst.
LEMMA VgaRoute ==
  ASSUME Facts, NEW pop, Controller(pop)
  PROVE  /\ state' = "S_ACTIVATE" =>
              /\ state = "S_IDLE"
              /\ \/ vga_valid /\ addr_r' = vga_adr /\ vga_col_cnt' = 0
                 \/ ~vga_valid /\ gpu_wr_valid /\ addr_r' = gpu_adr_r /\ gpu_col_cnt' = 0
         /\ state' = "S_VGA_TRCD_WAIT" =>
              /\ (state = "S_ACTIVATE" /\ vga_valid) \/ state = "S_VGA_TRCD_WAIT"
              /\ UNCHANGED <<addr_r, vga_col_cnt>>
         /\ state' = "S_VGA_READ" =>
              /\ UNCHANGED addr_r
              /\ \/ state = "S_VGA_TRCD_WAIT" /\ cas_cnt' = 0 /\ UNCHANGED vga_col_cnt
                 \/ /\ state = "S_VGA_READ" /\ cas_cnt' = cas_cnt + 1 /\ UNCHANGED vga_col_cnt
                    /\ cas_cnt = 0 => dram_addr' = BurstCol(vga_col_cnt)
                    /\ cas_cnt # 0 => UNCHANGED dram_addr
                 \/ state = "S_VGA_CAPTURE" /\ cas_cnt' = 0 /\ vga_col_cnt' = vga_col_cnt + 1
         /\ state' = "S_VGA_CAPTURE" =>
              state = "S_VGA_READ" /\ cas_cnt = 4 /\ UNCHANGED <<addr_r, vga_col_cnt>>
<1> USE DEF Goto, adrVars, colVars
<1>1. P_sdram
  BY DEF Controller, SdramEdge
<1>2. CASE Idle
  <2>1. state = "S_IDLE" /\ (Pick \/ state' = "S_AUTO_REFRESH")
    BY <1>2 DEF Idle
  <2>2. CASE state' = "S_AUTO_REFRESH"
    BY <2>2
  <2>3. CASE Pick
    BY <2>1, <2>3 DEF Pick, Facts, PathsOwned
  <2> QED
    BY <2>1, <2>2, <2>3
<1>3. CASE Activate
  BY <1>3 DEF Activate
<1>4. CASE Trcd_wait
  BY <1>4 DEF Trcd_wait, TrcdNext
<1>5. CASE Read_wait
  <2>1. state = "S_VGA_READ" /\ cas_cnt \in 0 .. 4
    BY <1>5 DEF Read_wait, Facts, PathsOwned, RegisterTypes, Commanded
  <2>2. cas_cnt' = cas_cnt + 1
    BY <1>5, <2>1 DEF Read_wait
  <2> QED
    BY <1>5, <2>1, <2>2 DEF Read_wait, ReadCol, Command3, Nop
<1>6. CASE Vga_capture
  <2>1. vga_col_cnt \in 0 .. 7 /\ vga_col_cnt <= BURST_WORDS - 1 /\ BURST_WORDS \in 1 .. 8
    BY Sizes DEF Facts, RegisterTypes, WordsCounted
  <2>2. vga_col_cnt # BURST_WORDS - 1 => (vga_col_cnt + 1) % 8 = vga_col_cnt + 1
    BY <2>1
  <2> QED
    BY <1>6, <2>2 DEF Vga_capture
<1>7. CASE Init_wait \/ Prechg_all \/ Prechg_wait \/ Init_refresh \/ Ref_wait \/ Load_mode \/ Mode_wait
           \/ Auto_refresh
  BY <1>7 DEF Init_wait, Prechg_all, Prechg_wait, Init_refresh, Ref_wait, Load_mode, Mode_wait,
              Auto_refresh, Wait
<1>8. CASE Read_capture \/ Write_setup \/ Write_cmd \/ Write_wait \/ Write_recovery \/ Gpu_write
  BY <1>8 DEF Read_capture, Write_setup, Write_cmd, Write_wait, Write_recovery, Step, Gpu_write
<1>9. CASE \/ Precharge("S_PRECHARGE", "S_TRP_WAIT")
           \/ Precharge("S_VGA_PRECHARGE", "S_VGA_TRP_WAIT")
           \/ Precharge("S_GPU_PRECHARGE", "S_GPU_TRP_WAIT")
           \/ Trp_wait
  BY <1>9 DEF Precharge, Trp_wait
<1> QED
  BY <1>1, <1>2, <1>3, <1>4, <1>5, <1>6, <1>7, <1>8, <1>9 DEF P_sdram

\* The k-th word of a burst that lies in one row.
InRow(a) == a \in Adr /\ ColOf(a) + BURST_WORDS <= COLS

LEMMA CellOfBurst ==
  ASSUME NEW a, InRow(a), NEW k \in 0 .. BURST_WORDS - 1
  PROVE  /\ Cell(BankOf(a), RowOf(a), (ColOf(a) + k) % COLS) = a + k
         /\ a + k \in Adr
<1>1. a \in Adr /\ a \in Board!Adr
  BY SameAddresses DEF InRow
<1>2. Board!Cell(Board!BankOf(a), Board!RowOf(a), Board!ColOf(a)) = a
  BY <1>1, Board!FieldsNameCell, GeometryHolds, MemoryHolds, CtrlHolds, MastersHold
<1>3. Board!BankOf(a) \in Board!Bank /\ Board!RowOf(a) \in Board!Row /\ Board!ColOf(a) \in Board!Col
  BY <1>1, Board!FieldsInRange, GeometryHolds, MemoryHolds, CtrlHolds, MastersHold
<1>4. BankOf(a) \in Bank /\ RowOf(a) \in Row /\ ColOf(a) \in Col
  BY <1>3, SameAddresses DEF Board!Row, Row, Board!Col, Col
<1>5. ColOf(a) + k \in 0 .. COLS - 1 /\ ColOf(a) \in Nat /\ COLS \in Nat \ {0} /\ k \in Nat
  BY <1>4, Sizes DEF InRow, Col
<1>6. (ColOf(a) + k) % COLS = ColOf(a) + k
  <2>1. \A m \in Nat \ {0} : \A n \in 0 .. m - 1 : n % m = n
    OBVIOUS
  <2> QED
    BY <1>5, <2>1
<1>7. Cell(BankOf(a), RowOf(a), ColOf(a)) = a
  BY <1>2, SameAddresses
<1>8. PICK p \in Int : \A c : Cell(BankOf(a), RowOf(a), c) = p + c
  <2>1. BankOf(a) \in Int /\ RowOf(a) \in Int /\ ROWS \in Int /\ COLS \in Int
    BY <1>4, Sizes DEF Bank, Row
  <2>2. \A b, r, n, m \in Int : 2 * n * m * (b \div 2) + 2 * m * r + m * (b % 2) \in Int
    OBVIOUS
  <2> DEFINE q == 2 * ROWS * COLS * (BankOf(a) \div 2) + 2 * COLS * RowOf(a) + COLS * (BankOf(a) % 2)
  <2>3. q \in Int
    BY <2>1, <2>2
  <2>4. \A c : Cell(BankOf(a), RowOf(a), c) = q + c
    BY DEF Cell
  <2> HIDE DEF q
  <2> QED
    BY <2>3, <2>4
<1>9. Cell(BankOf(a), RowOf(a), ColOf(a) + k) = a + k
  <2>1. a \in Int
    BY <1>1, Sizes
  <2>2. p + ColOf(a) = a /\ Cell(BankOf(a), RowOf(a), ColOf(a) + k) = p + (ColOf(a) + k)
    BY <1>7, <1>8
  <2> QED
    BY <1>5, <2>1, <2>2
<1>10. Board!Cell(BankOf(a), RowOf(a), ColOf(a) + k) \in Board!Adr
  <2>1. BankOf(a) \in Board!Bank /\ RowOf(a) \in Board!Row /\ ColOf(a) + k \in Board!Col
    BY <1>4, <1>5, SameAddresses DEF Board!Row, Row, Board!Col, Col
  <2> QED
    BY <2>1, Board!CellInRange, GeometryHolds, MemoryHolds, CtrlHolds, MastersHold
<1> QED
  BY <1>6, <1>9, <1>10, SameAddresses

-----------------------------------------------------------------------------
(***************************************************************************)
(* The program paints or shows, not both: the other master is quiet.       *)
(***************************************************************************)
VgaQuiet == fetch_state = "F_IDLE" /\ ~vga_valid

GpuQuiet ==
  /\ gfx = "idle" /\ start_toggle = FALSE /\ start_sync = Flat(FALSE) /\ gpu_state = "G_IDLE"
  /\ painted = {} /\ mem = POWER_UP_MEM

Modes ==
  /\ fills \in 0 .. FILLS /\ spoiled \in 0 .. 2
  /\ mode_en => fills = FILLS
  /\ fills = FILLS => GpuQuiet
  /\ ~mode_en => VgaQuiet /\ spoiled = 2

LEMMA ModesInit == Init => Modes
<1> SUFFICES ASSUME Init PROVE Modes
  OBVIOUS
<1>1. /\ fills = FILLS /\ spoiled = 2 /\ mode_en = FALSE /\ fetch_state = "F_IDLE" /\ vga_valid = FALSE
      /\ gfx = "idle" /\ start_toggle = FALSE /\ start_sync = Flat(FALSE) /\ gpu_state = "G_IDLE"
      /\ painted = {} /\ mem = POWER_UP_MEM
  BY DEF Init, FbReaderInit, CtrlInit, Gpu2DInit, ChipInit
<1>2. FILLS \in 0 .. FILLS
  BY VideoAssumption
<1> QED
  BY <1>1, <1>2 DEF Modes, VgaQuiet, GpuQuiet

\* The memory changes only while the program paints.
LEMMA NoWriting ==
  ASSUME Facts, NEW pop, Controller(pop), gpu_state = "G_IDLE"
  PROVE  /\ ~gpu_wr_req /\ ~gpu_wr_valid /\ ~gpu_done_r /\ cmd # "WRITE" /\ mem' = mem
         /\ cmd # "READ" => dq' = dq
<1>1. ~gpu_wr_req /\ ~gpu_wr_valid /\ ~gpu_done_r
  BY DEF Facts, PathsOwned
<1>2. cmd # "WRITE"
  BY <1>1 DEF Facts, PathsOwned, Commanded, GpuPath
<1> QED
  BY <1>1, <1>2 DEF Controller, SdramEdge, ChipStep, Access

LEMMA VgaStaysQuiet ==
  ASSUME Facts, NEW pop, Controller(pop), VgaQuiet
  PROVE  ~vga_req_pending /\ ~vga_valid'
<1>1. ~vga_req_pending
  BY DEF VgaQuiet, Facts, MasterInv, FetchInv
<1>2. ~VgaFire
  BY <1>1 DEF Facts, WordsCounted
<1> QED
  BY <1>1, <1>2 DEF VgaQuiet, Controller, SdramEdge, P_vga_latch

LEMMA EngineStaysQuiet ==
  ASSUME GpuQuiet, Facts, NEW pop, Controller(pop), start_toggle' = FALSE
  PROVE  start_sync' = Flat(FALSE) /\ gpu_state' = "G_IDLE" /\ mem' = POWER_UP_MEM
<1>1. start_sync' = Sync(Flat(FALSE), FALSE)
  <2>1. PICK b \in {start_toggle, start_toggle'} : start_sync' = Sync(start_sync, b)
    BY DEF Controller, P_cdc_start
  <2>2. b = FALSE /\ start_sync = Flat(FALSE)
    BY <2>1 DEF GpuQuiet
  <2> QED
    BY <2>1, <2>2
<1>2. Sync(Flat(FALSE), FALSE) = Flat(FALSE)
  BY DEF Sync, Flat
<1>3. ~Fire(start_sync)
  BY DEF GpuQuiet, Fire, Flat
<1>4. gpu_state' = "G_IDLE"
  BY <1>3 DEF GpuQuiet, Controller, P_gpu_fsm, G_idle, G_row_setup, G_burst_req, G_burst_wait, G_row_next
<1> QED
  BY <1>1, <1>2, <1>4, NoWriting DEF GpuQuiet

LEMMA ModesStep ==
  ASSUME Facts, Facts', Modes, [Next]_vars
  PROVE  Modes' /\ (mode_en' => fills = FILLS)
<1>1. CASE UNCHANGED vars
  BY <1>1 DEF vars, boardVars, driverVars, fetchVars, gpuVars, chipVars, ctrlVars, Modes, VgaQuiet, GpuQuiet
<1>2. CASE FastEdge
  <2>1. /\ UNCHANGED <<mode_en, fetch_state, gfx, start_toggle, fills, painted, spoiled>>
        /\ Controller(FALSE)
    BY <1>2, EveryEdge DEF FastEdge, fetchVars, driverVars, NoPixelEdge
  <2>2. fills = FILLS => GpuQuiet'
    <3> HAVE fills = FILLS
    <3>1. GpuQuiet
      BY DEF Modes
    <3> QED
      BY <2>1, <3>1, EngineStaysQuiet DEF GpuQuiet
  <2>3. ~mode_en => VgaQuiet'
    BY <2>1, VgaStaysQuiet DEF Modes, VgaQuiet
  <2> QED
    BY <2>1, <2>2, <2>3 DEF Modes
<1>3. ASSUME NEW pop \in BOOLEAN, Edge50(pop)
      PROVE  Modes' /\ (mode_en' => fills = FILLS)
  <2>1. Controller(pop) /\ Program /\ P_fetch(pop)
    BY <1>3, EveryEdge DEF Edge50, VideoCpuEdge
  <2>2. /\ fills' \in {fills, fills - 1} /\ (fills' = fills - 1 => fills > 0 /\ ~mode_en' /\ ~mode_en)
        /\ mode_en => mode_en' /\ fills' = fills
        /\ mode_en' => (mode_en \/ fills = FILLS) /\ fills' = fills
        /\ fills' = fills => UNCHANGED painted
        /\ gfx = "idle" /\ fills' = fills => gfx' = "idle" /\ start_toggle' = FALSE
    <3>1. fills # fills - 1
      BY VideoAssumption DEF Modes
    <3>2. CASE \E r \in RECTS : Fill(r)
      BY <3>1, <3>2 DEF Fill
    <3>3. CASE Fb_init
      BY <3>1, <3>3 DEF Fb_init, Gpu_none
    <3>4. CASE (Gpu_start \/ Gpu_wait \/ Gpu_none) /\ UNCHANGED <<mode_en, fills, painted>>
      BY <3>1, <3>4 DEF Gpu_start, Gpu_wait, Gpu_none
    <3> QED
      BY <2>1, <3>2, <3>3, <3>4 DEF Program
  <2>3. fills' \in 0 .. FILLS
    BY <2>2, VideoAssumption DEF Modes
  <2>4. fills' = FILLS => fills = FILLS /\ fills' = fills
    BY <2>2, VideoAssumption DEF Modes
  <2>5. fills' = FILLS => GpuQuiet'
    <3> HAVE fills' = FILLS
    <3>1. GpuQuiet
      BY <2>4 DEF Modes
    <3>2. gfx' = "idle" /\ start_toggle' = FALSE /\ UNCHANGED painted
      BY <2>2, <2>4, <3>1 DEF GpuQuiet
    <3> QED
      BY <2>1, <3>1, <3>2, EngineStaysQuiet DEF GpuQuiet
  <2>6. mode_en' => fills = FILLS /\ fills' = FILLS
    BY <2>2 DEF Modes
  <2>7. ASSUME ~mode_en' PROVE VgaQuiet'
    <3>1. VgaQuiet /\ ~mode_en
      BY <2>2, <2>7 DEF Modes
    <3>2. fetch_state' = "F_IDLE"
      BY <2>1, <3>1 DEF VgaQuiet, P_fetch, FetchIdle, FetchReq, FetchPop, FetchGo
    <3> QED
      BY <2>1, <3>1, <3>2, VgaStaysQuiet DEF VgaQuiet
  <2>8. spoiled' \in 0 .. 2 /\ (~mode_en' => spoiled' = 2)
    <3>1. CASE NoPixelEdge
      BY <2>2, <3>1 DEF NoPixelEdge, Modes
    <3>2. ASSUME NEW start \in BOOLEAN, Lateness(start)
          PROVE  spoiled' \in 0 .. 2 /\ (~mode_en' => spoiled' = 2)
      <4>1. spoiled' = CASE ~start -> spoiled
                         [] start /\ (~mode_en \/ Late) -> 2
                         [] OTHER -> IF spoiled > 0 THEN spoiled - 1 ELSE 0
        BY <3>2 DEF Lateness
      <4> QED
        BY <2>2, <4>1 DEF Modes
    <3> QED
      BY <1>3, <3>1, <3>2 DEF Edge50, PixelEdge
  <2> QED
    BY <2>3, <2>5, <2>6, <2>7, <2>8 DEF Modes
<1> QED
  BY <1>1, <1>2, <1>3, Edges DEF Modes

-----------------------------------------------------------------------------
(***************************************************************************)
(* The words of a burst, from the memory through the FIFO.                 *)
(***************************************************************************)

\* No burst of the reader crosses the end of a row (1024 columns, lines of 320
\* words, FRAMEBUFFER_BASE a multiple of 8 words).
ReaderInRow ==
  \A l \in Line, i \in 0 .. LINE_WORDS - 1 : i % BURST_WORDS = 0 => InRow(LineWord(l, i))

VgaPlace ==
  /\ vga_req_pending /\ ~VgaTravels => vga_adr = vga_shadow_adr
  /\ mode_en /\ state \in {"S_ACTIVATE", "S_VGA_TRCD_WAIT"} => vga_col_cnt = 0
  /\ mode_en /\ state \in {"S_ACTIVATE", "S_VGA_TRCD_WAIT", "S_VGA_READ", "S_VGA_CAPTURE"} =>
       addr_r = vga_adr
  /\ state \in {"S_VGA_READ", "S_VGA_CAPTURE"} => Coming = vga_col_cnt
  /\ state = "S_VGA_READ" /\ cas_cnt = 1 => dram_addr = BurstCol(vga_col_cnt)

VgaWords ==
  /\ (state = "S_VGA_READ" /\ cas_cnt >= 2) \/ state = "S_VGA_CAPTURE" =>
       dq = mem[addr_r + vga_col_cnt]
  /\ \A j \in 1 .. Len(vga_fifo) : vga_fifo[j] = mem[vga_shadow_adr + vga_fifo_pop_cnt + j - 1]
  /\ vga_fifo_wr # NoOp => vga_fifo_wr = mem[vga_shadow_adr + vga_fifo_pop_cnt + Len(vga_fifo)]

\* Counting back to the start of a burst.
LEMMA StartOfBurst ==
  ASSUME NEW n \in Nat, NEW m \in 1 .. 8
  PROVE  n - (n % m) \in Nat /\ n - (n % m) <= n /\ (n - (n % m)) % m = 0
<1>1. m \in {1, 2, 3, 4, 5, 6, 7, 8}
  OBVIOUS
<1>2. CASE m = 1
  BY <1>2
<1>3. CASE m = 2
  BY <1>3
<1>4. CASE m = 3
  BY <1>4
<1>5. CASE m = 4
  BY <1>5
<1>6. CASE m = 5
  BY <1>6
<1>7. CASE m = 6
  BY <1>7
<1>8. CASE m = 7
  BY <1>8
<1>9. CASE m = 8
  BY <1>9
<1> QED
  BY <1>1, <1>2, <1>3, <1>4, <1>5, <1>6, <1>7, <1>8, <1>9

LEMMA ShadowInRow ==
  ASSUME Facts, ReaderInRow, vga_req_pending
  PROVE  InRow(vga_shadow_adr)
<1>1. /\ fetch_line \in Line /\ fetch_word_cnt \in 0 .. LINE_WORDS - 1
      /\ fetch_word_cnt % BURST_WORDS = fetch_burst_cnt
      /\ vga_shadow_adr = LineWord(fetch_line, fetch_word_cnt - fetch_burst_cnt)
  BY DEF Facts, MasterInv, FetchType, FetchInv
<1>2. fetch_word_cnt \in Nat /\ BURST_WORDS \in 1 .. 8 /\ LINE_WORDS \in Nat
  BY <1>1, Sizes
<1> DEFINE i == fetch_word_cnt - fetch_burst_cnt
<1>3. i \in Nat /\ i <= fetch_word_cnt /\ i % BURST_WORDS = 0
  BY <1>1, <1>2, StartOfBurst
<1>4. i \in 0 .. LINE_WORDS - 1
  BY <1>1, <1>2, <1>3
<1> HIDE DEF i
<1>5. InRow(LineWord(fetch_line, i))
  BY <1>1, <1>3, <1>4 DEF ReaderInRow
<1> QED
  BY <1>1, <1>5 DEF i

LEMMA VgaInit ==
  Init => VgaPlace /\ VgaWords
<1> SUFFICES ASSUME Init PROVE VgaPlace /\ VgaWords
  OBVIOUS
<1>1. /\ state = "S_INIT" /\ vga_req_pending = FALSE /\ vga_fifo = << >> /\ vga_fifo_wr = NoOp
  BY DEF Init, CtrlInit
<1>2. Len(vga_fifo) = 0
  BY <1>1
<1> QED
  BY <1>1, <1>2 DEF VgaPlace, VgaWords

\* While a request is pending the program shows, and the memory is still.
LEMMA Showing ==
  ASSUME Facts, Modes, vga_req_pending \/ vga_valid
  PROVE  mode_en /\ gpu_state = "G_IDLE" /\ ~gpu_wr_valid
<1>1. mode_en
  BY DEF Modes, VgaQuiet, Facts, MasterInv, FetchInv
<1> QED
  BY <1>1 DEF Modes, GpuQuiet, Facts, PathsOwned

LEMMA Requests ==
  ASSUME Facts, NEW pop \in BOOLEAN, Controller(pop)
  PROVE  /\ vga_req_pending => UNCHANGED <<vga_shadow_adr, vga_toggle_cpu>>
         /\ ~vga_req_pending /\ vga_req_pending' => VgaTravels'
         /\ vga_req_pending /\ vga_req_pending' =>
              vga_fifo_pop_cnt' = IF pop THEN vga_fifo_pop_cnt + 1 ELSE vga_fifo_pop_cnt
         /\ pop => vga_req_pending /\ vga_fifo # << >>
<1>1. pop => vga_req_pending /\ vga_fifo # << >>
  BY DEF Controller, VgaPop
<1>2. vga_toggle_cpu \in BOOLEAN /\ vga_req_pending \in BOOLEAN /\ vga_sync \in Chain
  BY DEF Facts, VgaTypes
<1>3. CASE UNCHANGED vgaCpuVars /\ ~pop
  BY <1>3 DEF vgaCpuVars
<1>4. CASE P_vga(vga_rd_req, pop)
  <2> DEFINE new == vga_rd_req # NoOp /\ ~vga_req_pending
             end == vga_fifo_pop_cnt = BURST_WORDS - 1
  <2>1. /\ vga_shadow_adr' = IF new THEN vga_rd_req ELSE vga_shadow_adr
        /\ vga_toggle_cpu' = (vga_toggle_cpu # new)
        /\ vga_req_pending' = (new \/ (vga_req_pending /\ ~(pop /\ end)))
        /\ vga_fifo_pop_cnt' = IF new \/ (pop /\ end) THEN 0
                               ELSE IF pop THEN vga_fifo_pop_cnt + 1 ELSE vga_fifo_pop_cnt
    BY <1>4 DEF P_vga
  <2>2. vga_req_pending => ~new
    OBVIOUS
  <2>3. new \in BOOLEAN
    OBVIOUS
  <2>4. ~new => vga_toggle_cpu' = vga_toggle_cpu
    BY <1>2, <2>1, <2>3
  <2>5. vga_req_pending' => new \/ (vga_req_pending /\ ~(pop /\ end))
    BY <2>1
  <2>6. ASSUME ~vga_req_pending, vga_req_pending' PROVE VgaTravels'
    <3>1. ~VgaTravels /\ ~VgaFire
      BY <2>6 DEF Facts, WordsCounted
    <3>2. vga_toggle_cpu' # vga_toggle_cpu
      BY <1>2, <2>1, <2>3, <2>5, <2>6
    <3>3. vga_sync'[4] = vga_sync[3]
      BY DEF Controller, P_sync_req, Sync
    <3> QED
      BY <3>1, <3>2, <3>3 DEF VgaTravels, VgaFire, Fire
  <2> QED
    BY <1>1, <2>1, <2>2, <2>4, <2>5, <2>6
<1> QED
  BY <1>1, <1>3, <1>4 DEF Controller

\* The FIFO and its write register, one step.
LEMMA FifoMoves ==
  ASSUME Facts, NEW pop \in BOOLEAN, Controller(pop), vga_req_pending
  PROVE  LET left == IF pop THEN Tail(vga_fifo) ELSE vga_fifo
         IN /\ vga_fifo' = IF vga_fifo_wr = NoOp THEN left ELSE Append(left, vga_fifo_wr)
            /\ left \in Seq(DATA)
            /\ Len(left) = IF pop THEN Len(vga_fifo) - 1 ELSE Len(vga_fifo)
            /\ \A j \in 1 .. Len(left) : left[j] = IF pop THEN vga_fifo[j + 1] ELSE vga_fifo[j]
            /\ vga_fifo_wr' = IF state = "S_VGA_CAPTURE" THEN dq ELSE NoOp
            /\ dq # NoOp
<1> DEFINE left == IF pop THEN Tail(vga_fifo) ELSE vga_fifo
<1>1. P_data(pop) /\ (pop => vga_fifo # << >>)
  BY DEF Controller, SdramEdge, VgaPop
<1>2. /\ vga_fifo' = IF vga_fifo_wr = NoOp \/ Len(vga_fifo) = BURST_WORDS
                     THEN left ELSE Append(left, vga_fifo_wr)
      /\ vga_fifo_wr' = IF state = "S_VGA_CAPTURE" THEN dq ELSE NoOp
  BY <1>1 DEF P_data
<1>3. vga_fifo_wr # NoOp => Len(vga_fifo) # BURST_WORDS
  <2>1. Coming <= BURST_WORDS /\ vga_fifo_pop_cnt \in Nat /\ Len(vga_fifo) \in Nat /\ BURST_WORDS \in Nat
    BY Sizes DEF Facts, VgaTypes, WordsCounted
  <2> QED
    BY <2>1 DEF Coming, Writing
<1>4. vga_fifo \in Seq(DATA) /\ dq # NoOp
  BY CtrlAssumption DEF Facts, VgaTypes, RegisterTypes
<1>5. /\ left \in Seq(DATA)
      /\ Len(left) = IF pop THEN Len(vga_fifo) - 1 ELSE Len(vga_fifo)
      /\ \A j \in 1 .. Len(left) : left[j] = IF pop THEN vga_fifo[j + 1] ELSE vga_fifo[j]
  <2>1. CASE pop
    BY <1>1, <1>4, <2>1, HeadTailProperties
  <2>2. CASE ~pop
    BY <1>4, <2>2
  <2> QED
    BY <2>1, <2>2
<1> HIDE DEF left
<1>6. vga_fifo' = IF vga_fifo_wr = NoOp THEN left ELSE Append(left, vga_fifo_wr)
  BY <1>2, <1>3
<1> QED
  BY <1>2, <1>4, <1>5, <1>6 DEF left

LEMMA ComingStep ==
  ASSUME Facts, NEW pop \in BOOLEAN, Controller(pop), vga_req_pending, vga_req_pending'
  PROVE  Coming' = IF state = "S_VGA_CAPTURE" THEN Coming + 1 ELSE Coming
<1> DEFINE left == IF pop THEN Tail(vga_fifo) ELSE vga_fifo
<1>1. /\ vga_fifo' = IF vga_fifo_wr = NoOp THEN left ELSE Append(left, vga_fifo_wr)
      /\ left \in Seq(DATA)
      /\ Len(left) = IF pop THEN Len(vga_fifo) - 1 ELSE Len(vga_fifo)
      /\ vga_fifo_wr' = IF state = "S_VGA_CAPTURE" THEN dq ELSE NoOp
      /\ dq # NoOp
  BY FifoMoves
<1>2. vga_fifo_pop_cnt' = IF pop THEN vga_fifo_pop_cnt + 1 ELSE vga_fifo_pop_cnt
  BY Requests
<1> HIDE DEF left
<1>3. Len(vga_fifo') = Len(left) + Writing
  <2>1. vga_fifo_wr \in DATA \cup {NoOp}
    BY DEF Facts, VgaTypes
  <2>2. CASE vga_fifo_wr = NoOp
    BY <1>1, <2>2 DEF Writing
  <2>3. CASE vga_fifo_wr # NoOp
    BY <1>1, <2>1, <2>3, AppendProperties DEF Writing
  <2> QED
    BY <2>2, <2>3
<1>4. Writing' = IF state = "S_VGA_CAPTURE" THEN 1 ELSE 0
  BY <1>1 DEF Writing
<1>5. vga_fifo_pop_cnt \in Nat /\ Len(vga_fifo) \in Nat /\ Writing \in Nat
  BY Sizes DEF Facts, VgaTypes, Writing
<1>6. Coming' = vga_fifo_pop_cnt' + Len(vga_fifo') + Writing'
  BY DEF Coming
<1>7. PICK p \in Nat, l \in Nat, w \in Nat :
        p = vga_fifo_pop_cnt /\ l = Len(vga_fifo) /\ w = Writing
  BY <1>5
<1>8. Coming' = (IF pop THEN p + 1 ELSE p) + ((IF pop THEN l - 1 ELSE l) + w)
                + (IF state = "S_VGA_CAPTURE" THEN 1 ELSE 0)
  BY <1>1, <1>2, <1>3, <1>4, <1>6, <1>7
<1>9. Coming = p + l + w
  BY <1>7 DEF Coming
<1> QED
  BY <1>8, <1>9

LEMMA VgaPlaceStep ==
  ASSUME Facts, Facts', Modes, mode_en' => fills = FILLS, VgaPlace,
         NEW pop \in BOOLEAN, Controller(pop)
  PROVE  VgaPlace'
<1> DEFINE here == {"S_ACTIVATE", "S_VGA_TRCD_WAIT", "S_VGA_READ", "S_VGA_CAPTURE"}
<1>1. /\ vga_valid' = ((vga_valid \/ VgaFire) /\ ~TrpDone("S_VGA_TRP_WAIT"))
      /\ vga_adr' = IF VgaFire THEN vga_shadow_adr ELSE vga_adr
      /\ vga_sync'[4] = vga_sync[3]
  BY DEF Controller, SdramEdge, P_vga_latch, P_sync_req, Sync
<1>2. vga_req_pending' /\ ~VgaTravels' => vga_adr' = vga_shadow_adr'
  <2> SUFFICES ASSUME vga_req_pending', ~VgaTravels' PROVE vga_adr' = vga_shadow_adr'
    OBVIOUS
  <2>1. vga_req_pending /\ UNCHANGED <<vga_shadow_adr, vga_toggle_cpu>>
    BY Requests
  <2>2. CASE VgaFire
    BY <1>1, <2>1, <2>2
  <2>3. CASE ~VgaFire
    <3>1. ~VgaTravels
      BY <1>1, <2>1, <2>3 DEF VgaTravels, VgaFire, Fire
    <3> QED
      BY <1>1, <2>1, <2>3, <3>1 DEF VgaPlace
  <2> QED
    BY <2>2, <2>3
<1>3. vga_valid => ~VgaFire /\ vga_adr' = vga_adr
  BY <1>1 DEF Facts, WordsCounted
<1>4. mode_en' /\ state' \in here => vga_valid
  <2> HAVE mode_en' /\ state' \in here
  <2>1. ~gpu_wr_valid
    BY DEF Modes, GpuQuiet, Facts, PathsOwned
  <2>2. state \in VgaPath \/ vga_valid
    BY <2>1, VgaRoute DEF VgaPath
  <2> QED
    BY <2>2 DEF Facts, PathsOwned
<1>5. vga_valid => mode_en
  BY Showing
<1>6. mode_en' /\ state' \in {"S_ACTIVATE", "S_VGA_TRCD_WAIT"} => vga_col_cnt' = 0
  BY <1>4, <1>5, VgaRoute DEF VgaPlace
<1>7. mode_en' /\ state' \in here => addr_r' = vga_adr'
  BY <1>3, <1>4, <1>5, VgaRoute DEF VgaPlace
<1>8. state' \in {"S_VGA_READ", "S_VGA_CAPTURE"} => Coming' = vga_col_cnt'
  <2> HAVE state' \in {"S_VGA_READ", "S_VGA_CAPTURE"}
  <2>1. state \in {"S_VGA_TRCD_WAIT", "S_VGA_READ", "S_VGA_CAPTURE"}
    BY VgaRoute
  <2>2. vga_valid /\ mode_en /\ vga_req_pending
    BY <1>5, <2>1 DEF VgaPath, Facts, PathsOwned, WordsCounted
  <2>3. vga_valid' /\ vga_req_pending'
    BY DEF VgaPath, Facts, PathsOwned, WordsCounted
  <2>4. Coming' = IF state = "S_VGA_CAPTURE" THEN Coming + 1 ELSE Coming
    BY <2>2, <2>3, ComingStep
  <2>5. CASE state = "S_VGA_TRCD_WAIT"
    <3>1. Coming = 0 /\ vga_col_cnt = 0
      BY <2>2, <2>5 DEF VgaPath, Facts, WordsCounted, VgaPlace
    <3> QED
      BY <2>4, <2>5, <3>1, VgaRoute
  <2>6. CASE state = "S_VGA_READ"
    BY <2>4, <2>6, VgaRoute DEF VgaPlace
  <2>7. CASE state = "S_VGA_CAPTURE"
    BY <2>4, <2>7, VgaRoute DEF VgaPlace
  <2> QED
    BY <2>1, <2>5, <2>6, <2>7
<1>9. state' = "S_VGA_READ" /\ cas_cnt' = 1 => dram_addr' = BurstCol(vga_col_cnt)'
  <2> HAVE state' = "S_VGA_READ" /\ cas_cnt' = 1
  <2>1. /\ state = "S_VGA_READ" /\ cas_cnt' = cas_cnt + 1 /\ UNCHANGED <<addr_r, vga_col_cnt>>
        /\ cas_cnt = 0 => dram_addr' = BurstCol(vga_col_cnt)
    BY VgaRoute
  <2>2. cas_cnt = 0
    BY <2>1 DEF Facts, RegisterTypes
  <2> QED
    BY <2>1, <2>2 DEF BurstCol
<1> QED
  BY <1>2, <1>6, <1>7, <1>8, <1>9 DEF VgaPlace

\* The word read is the one of the burst that is to come next.
LEMMA WordRead ==
  ASSUME Facts, Modes, ReaderInRow, VgaPlace, state \in {"S_VGA_READ", "S_VGA_CAPTURE"}
  PROVE  /\ vga_req_pending /\ vga_valid /\ addr_r = vga_shadow_adr /\ InRow(addr_r)
         /\ vga_col_cnt \in 0 .. BURST_WORDS - 1
         /\ gpu_state = "G_IDLE"
<1>1. vga_valid /\ vga_req_pending /\ ~VgaTravels
  BY DEF VgaPath, Facts, PathsOwned, WordsCounted
<1>2. mode_en /\ gpu_state = "G_IDLE"
  BY <1>1, Showing
<1>3. vga_col_cnt \in 0 .. BURST_WORDS - 1
  BY Sizes DEF Facts, RegisterTypes, WordsCounted
<1> QED
  BY <1>1, <1>2, <1>3, ShadowInRow DEF VgaPlace

LEMMA DqStep ==
  ASSUME Facts, Modes, ReaderInRow, VgaPlace, VgaWords, NEW pop \in BOOLEAN, Controller(pop),
         (state' = "S_VGA_READ" /\ cas_cnt' >= 2) \/ state' = "S_VGA_CAPTURE"
  PROVE  dq' = mem'[addr_r' + vga_col_cnt']
<1>1. /\ state = "S_VGA_READ" /\ UNCHANGED <<addr_r, vga_col_cnt>>
      /\ state' = "S_VGA_READ" => cas_cnt' = cas_cnt + 1
      /\ state' = "S_VGA_CAPTURE" => cas_cnt = 4
  BY VgaRoute
<1>2. cas_cnt \in 0 .. 7
  BY DEF Facts, RegisterTypes
<1>3. cas_cnt >= 1
  BY <1>1, <1>2
<1>4. gpu_state = "G_IDLE" /\ InRow(addr_r) /\ vga_col_cnt \in 0 .. BURST_WORDS - 1
  BY <1>1, WordRead
<1>5. mem' = mem /\ (cmd # "READ" => dq' = dq)
  BY <1>4, NoWriting
<1>6. CASE cas_cnt = 1
  <2>1. cmd = "READ" /\ dram_ba = BankOf(addr_r) /\ open[dram_ba] = RowOf(addr_r)
        /\ dram_addr = BurstCol(vga_col_cnt)
    BY <1>1, <1>6 DEF Facts, Commanded, VgaPlace
  <2>2. RowOf(addr_r) # CLOSED
    <3>1. Board!RowOf(addr_r) \in Board!Row
      BY <1>4, SameAddresses, Board!FieldsInRange, GeometryHolds, MemoryHolds, CtrlHolds, MastersHold DEF InRow
    <3> QED
      BY <3>1, SameAddresses, Sizes DEF Board!Row, CLOSED
  <2>3. dq' = mem[Addressed]
    BY <2>1, <2>2 DEF Controller, SdramEdge, ChipStep, Access
  <2>4. Addressed = addr_r + vga_col_cnt
    BY <1>4, <2>1, CellOfBurst DEF Addressed, BurstCol
  <2> QED
    BY <1>1, <1>5, <2>3, <2>4
<1>7. CASE cas_cnt >= 2
  <2>1. cmd # "READ"
    BY <1>2, <1>7 DEF Facts, Commanded
  <2> QED
    BY <1>1, <1>5, <1>7, <2>1 DEF VgaWords
<1> QED
  BY <1>2, <1>3, <1>6, <1>7

LEMMA VgaWordsStep ==
  ASSUME Facts, Facts', Modes, ReaderInRow, VgaPlace, VgaPlace', VgaWords,
         NEW pop \in BOOLEAN, Controller(pop)
  PROVE  VgaWords'
<1> DEFINE A == vga_shadow_adr
           n == vga_fifo_pop_cnt
           left == IF pop THEN Tail(vga_fifo) ELSE vga_fifo
<1>1. CASE ~vga_req_pending'
  <2>1. vga_fifo' = << >> /\ vga_fifo_wr' = NoOp
    BY <1>1 DEF Facts, WordsCounted
  <2>2. Len(vga_fifo') = 0
    BY <2>1
  <2> QED
    BY <2>1, <2>2, DqStep DEF VgaWords
<1>2. CASE vga_req_pending' /\ ~vga_req_pending
  <2>1. vga_fifo = << >> /\ vga_fifo_wr = NoOp /\ ~pop
    BY <1>2, Requests DEF Facts, WordsCounted
  <2>2. state \notin {"S_VGA_READ", "S_VGA_CAPTURE"}
    BY <1>2, WordRead
  <2>3. vga_fifo' = << >> /\ vga_fifo_wr' = NoOp
    BY <2>1, <2>2 DEF Controller, SdramEdge, P_data
  <2>4. Len(vga_fifo') = 0
    BY <2>3
  <2> QED
    BY <2>3, <2>4, DqStep DEF VgaWords
<1>3. CASE vga_req_pending' /\ vga_req_pending
  <2>1. /\ vga_fifo' = IF vga_fifo_wr = NoOp THEN left ELSE Append(left, vga_fifo_wr)
        /\ left \in Seq(DATA)
        /\ Len(left) = IF pop THEN Len(vga_fifo) - 1 ELSE Len(vga_fifo)
        /\ \A j \in 1 .. Len(left) : left[j] = IF pop THEN vga_fifo[j + 1] ELSE vga_fifo[j]
        /\ vga_fifo_wr' = IF state = "S_VGA_CAPTURE" THEN dq ELSE NoOp
    BY <1>3, FifoMoves
  <2>2. n' = (IF pop THEN n + 1 ELSE n) /\ UNCHANGED A
    BY <1>3, Requests
  <2>3. n \in Nat /\ A \in Nat /\ Len(vga_fifo) \in Nat /\ vga_fifo_wr \in DATA \cup {NoOp}
    BY Sizes DEF Facts, VgaTypes
  <2>4. mem' = mem
    BY <1>3, Showing, NoWriting
  <2> HIDE DEF left
  <2>5. Len(left) \in Nat
    BY <2>1
  <2>6. \A j \in 1 .. Len(left) : left[j] = mem[A + n' + j - 1]
    <3> SUFFICES ASSUME NEW j \in 1 .. Len(left) PROVE left[j] = mem[A + n' + j - 1]
      OBVIOUS
    <3>1. CASE pop
      <4>1. j + 1 \in 1 .. Len(vga_fifo) /\ left[j] = vga_fifo[j + 1]
        BY <2>1, <2>3, <3>1
      <4>2. vga_fifo[j + 1] = mem[A + n + (j + 1) - 1]
        BY <4>1 DEF VgaWords
      <4>3. A + n + (j + 1) - 1 = A + n' + j - 1
        BY <2>2, <2>3, <3>1
      <4> QED
        BY <4>1, <4>2, <4>3
    <3>2. CASE ~pop
      BY <2>1, <2>2, <3>2 DEF VgaWords
    <3> QED
      BY <3>1, <3>2
  <2>7. \A j \in 1 .. Len(vga_fifo') : vga_fifo'[j] = mem'[A' + n' + j - 1]
    <3>1. CASE vga_fifo_wr = NoOp
      BY <2>1, <2>2, <2>4, <2>6, <3>1
    <3>2. CASE vga_fifo_wr # NoOp
      <4>1. vga_fifo' = Append(left, vga_fifo_wr) /\ vga_fifo_wr \in DATA
        BY <2>1, <2>3, <3>2
      <4>2. /\ Len(vga_fifo') = Len(left) + 1
            /\ \A j \in 1 .. Len(left) : vga_fifo'[j] = left[j]
            /\ vga_fifo'[Len(left) + 1] = vga_fifo_wr
        BY <2>1, <4>1, AppendProperties
      <4>3. vga_fifo_wr = mem[A + n + Len(vga_fifo)]
        BY <3>2 DEF VgaWords
      <4>4. A + n + Len(vga_fifo) = A + n' + (Len(left) + 1) - 1
        BY <2>1, <2>2, <2>3
      <4>5. \A j \in 1 .. Len(vga_fifo') : j \in 1 .. Len(left) \/ j = Len(left) + 1
        BY <2>5, <4>2
      <4> QED
        BY <2>2, <2>4, <2>6, <4>2, <4>3, <4>4, <4>5
    <3> QED
      BY <3>1, <3>2
  <2>8. vga_fifo_wr' # NoOp => vga_fifo_wr' = mem'[A' + n' + Len(vga_fifo')]
    <3> HAVE vga_fifo_wr' # NoOp
    <3>1. state = "S_VGA_CAPTURE" /\ vga_fifo_wr' = dq
      BY <2>1
    <3>2. dq = mem[addr_r + vga_col_cnt] /\ addr_r = A /\ Coming = vga_col_cnt
      BY <3>1, WordRead DEF VgaWords, VgaPlace
    <3>3. Coming' = Coming + 1
      BY <1>3, <3>1, ComingStep
    <3>4. Coming' = n' + Len(vga_fifo') + 1
      BY DEF Coming, Writing
    <3>5. n' \in Nat /\ Len(vga_fifo') \in Nat /\ vga_col_cnt \in Nat
      BY Sizes DEF Facts, VgaTypes, RegisterTypes
    <3>6. A' + n' + Len(vga_fifo') = addr_r + vga_col_cnt
      BY <2>2, <2>3, <3>2, <3>3, <3>4, <3>5
    <3> QED
      BY <2>4, <3>1, <3>2, <3>6
  <2> QED
    BY <2>7, <2>8, DqStep DEF VgaWords
<1> QED
  BY <1>1, <1>2, <1>3

-----------------------------------------------------------------------------
(***************************************************************************)
(* The request for a line crosses before the next line starts.             *)
(***************************************************************************)

\* Two edges of the 25 MHz clock are four of the 50 MHz one (a line has 800).
RoomToCross == LINE_GAP >= 2

LineTravels == line_req_toggle_25m # line_req_sync[4]

Crossed ==
  /\ line_req_sync[2] = line_req_toggle_25m => line_req_sync[1] = line_req_toggle_25m
  /\ line_req_sync[3] = line_req_toggle_25m => line_req_sync[2] = line_req_toggle_25m
  /\ line_req_sync[4] = line_req_toggle_25m => line_req_sync[3] = line_req_toggle_25m
  /\ line_gap = 0 /\ phase \in {0, 3} => line_req_sync[1] = line_req_toggle_25m
  /\ line_gap = 1 => line_req_sync[2] = line_req_toggle_25m
  /\ line_gap = 1 /\ phase \in {0, 3} => line_req_sync[3] = line_req_toggle_25m
  /\ line_gap >= 2 => ~LineTravels

LEMMA CrossedInit == Init => Crossed
<1> SUFFICES ASSUME Init PROVE Crossed
  OBVIOUS
<1>1. line_gap = 0 /\ line_req_toggle_25m = FALSE /\ line_req_sync = Flat(FALSE)
  BY DEF Init, FbReaderInit
<1>2. /\ line_req_sync[1] = FALSE /\ line_req_sync[2] = FALSE
      /\ line_req_sync[3] = FALSE /\ line_req_sync[4] = FALSE
  BY <1>1 DEF Flat
<1>3. ~(line_gap >= 2) /\ line_gap # 1
  BY <1>1
<1> QED
  BY <1>1, <1>2, <1>3 DEF Crossed, LineTravels

\* What an edge of the 50 MHz clock does to the request, and to the line.
LEMMA RequestCrosses ==
  ASSUME RoomToCross, FetchType, Crossed, NEW pop, Edge50(pop)
  PROVE  /\ Crossed'
         /\ LineReqFire => LineTravels
         /\ \/ /\ UNCHANGED <<line, buf_sel, line_fetch_shadow, line_fill_shadow, spoiled>>
               /\ LineTravels' <=> LineTravels /\ ~LineReqFire
            \/ /\ ~LineTravels /\ LineTravels' /\ Lateness(TRUE)
               /\ line' = (line + 1) % LINES /\ buf_sel' = ~buf_sel /\ line_fill_shadow' = buf_sel
               /\ line_fetch_shadow' = IF line' < LINES - 1 THEN line' + 1 ELSE 0
<1> DEFINE t == line_req_toggle_25m
           c == line_req_sync
<1>1. /\ t \in BOOLEAN /\ c[1] \in BOOLEAN /\ c[2] \in BOOLEAN /\ c[3] \in BOOLEAN /\ c[4] \in BOOLEAN
      /\ line_gap \in 0 .. LINE_GAP /\ LINE_GAP \in Nat
  BY VideoAssumption DEF FetchType, Chain
<1>2. PICK b \in {t, t'} : c' = Sync(c, b)
  BY DEF Edge50, VideoCpuEdge, P_sync_line_req
<1>3. c'[1] = b /\ c'[2] = c[1] /\ c'[3] = c[2] /\ c'[4] = c[3]
  BY <1>2 DEF Sync
<1>4. LineReqFire => LineTravels
  BY <1>1 DEF LineReqFire, Fire, LineTravels, Crossed
<1>5. CASE phase = 2 /\ NoPixelEdge
  <2>1. phase' = 3 /\ UNCHANGED <<t, line_gap, line, buf_sel, line_fetch_shadow, line_fill_shadow, spoiled>>
    BY <1>5 DEF Edge50, NoPixelEdge, lineVars
  <2>2. LineTravels' <=> LineTravels /\ ~LineReqFire
    BY <1>1, <1>3, <2>1 DEF LineReqFire, Fire, LineTravels, Crossed
  <2>3. Crossed'
    BY <1>1, <1>2, <1>3, <1>5, <2>1 DEF Crossed, LineTravels
  <2> QED
    BY <1>4, <2>1, <2>2, <2>3
<1>6. ASSUME phase = 0, PixelEdge(FALSE)
      PROVE  Crossed' /\ UNCHANGED <<line, buf_sel, line_fetch_shadow, line_fill_shadow, spoiled>>
             /\ (LineTravels' <=> LineTravels /\ ~LineReqFire)
  <2>1. /\ phase' = 1 /\ UNCHANGED <<t, line, buf_sel, line_fetch_shadow, line_fill_shadow, spoiled>>
        /\ line_gap' = IF line_gap < LINE_GAP THEN line_gap + 1 ELSE line_gap
    BY <1>6 DEF Edge50, PixelEdge, P_bufswap, Lateness
  <2>2. LineTravels' <=> LineTravels /\ ~LineReqFire
    BY <1>1, <1>3, <2>1 DEF LineReqFire, Fire, LineTravels, Crossed
  <2>3. (line_gap = 0 /\ line_gap' = 1) \/ (line_gap = 1 /\ line_gap' = 2) \/ (line_gap >= 2 /\ line_gap' >= 2)
    BY <1>1, <2>1 DEF RoomToCross
  <2>4. Crossed'
    BY <1>1, <1>2, <1>3, <1>6, <2>1, <2>3 DEF Crossed, LineTravels
  <2> QED
    BY <2>1, <2>2, <2>4
<1>7. ASSUME phase = 0, PixelEdge(TRUE)
      PROVE  /\ Crossed' /\ ~LineTravels /\ LineTravels' /\ Lateness(TRUE)
             /\ line' = (line + 1) % LINES /\ buf_sel' = ~buf_sel /\ line_fill_shadow' = buf_sel
             /\ line_fetch_shadow' = IF line' < LINES - 1 THEN line' + 1 ELSE 0
  <2>0. phase' = 1
    BY <1>7 DEF Edge50
  <2>1. /\ line_gap = LINE_GAP /\ line_gap' = 0 /\ t' = ~t /\ Lateness(TRUE)
        /\ line' = (line + 1) % LINES /\ buf_sel' = ~buf_sel /\ line_fill_shadow' = buf_sel
        /\ line_fetch_shadow' = IF line' < LINES - 1 THEN line' + 1 ELSE 0
    BY <1>7, Zenon DEF PixelEdge, P_bufswap
  <2>2. ~LineTravels /\ c[4] = t /\ c[3] = t /\ c[2] = t /\ c[1] = t
    BY <1>1, <2>1 DEF RoomToCross, Crossed, LineTravels
  <2>3. LineTravels' /\ Crossed'
    BY <1>1, <1>3, <2>0, <2>1, <2>2 DEF Crossed, LineTravels
  <2> QED
    BY <2>1, <2>2, <2>3
<1>8. (phase = 2 /\ NoPixelEdge) \/ (phase = 0 /\ (PixelEdge(TRUE) \/ PixelEdge(FALSE)))
  BY DEF Edge50
<1> QED
  BY <1>4, <1>5, <1>6, <1>7, <1>8

LEMMA CrossedStep ==
  ASSUME RoomToCross, FetchType, Crossed, [Next]_vars
  PROVE  Crossed'
<1>1. CASE UNCHANGED vars
  BY <1>1 DEF vars, lineVars, fetchVars, boardVars, Crossed, LineTravels
<1>2. CASE FastEdge
  <2>1. /\ UNCHANGED <<line_gap, line_req_toggle_25m, line_req_sync>>
        /\ phase \in {1, 3} /\ phase' = (phase + 1) % 4
    BY <1>2 DEF FastEdge, NoPixelEdge, lineVars, fetchVars
  <2>2. phase' \in {0, 3} => phase \in {0, 3}
    BY <2>1
  <2> QED
    BY <2>1, <2>2 DEF Crossed, LineTravels
<1> QED
  BY <1>1, <1>2, RequestCrosses, Edges

-----------------------------------------------------------------------------
(***************************************************************************)
(* The line buffers.                                                       *)
(***************************************************************************)
After(l) == IF l < LINES - 1 THEN l + 1 ELSE 0
Holds(b, l, n) == \A i \in 0 .. n - 1 : linebuf[b][i] = mem[LineWord(l, i)]

BufType == linebuf \in [BOOLEAN -> [0 .. LINE_WORDS - 1 -> DATA]]

\* The line before was started in time: what was asked for then is in the
\* other buffer, or on its way.
InStep ==
  /\ line_fill_shadow = ~buf_sel /\ line_fetch_shadow = After(line)
  /\ LineTravels => fetch_state = "F_IDLE"
  /\ ~LineTravels /\ ~Late => Holds(~buf_sel, After(line), LINE_WORDS)
  /\ Late => /\ fetch_line = After(line) /\ fetch_buf_sel = ~buf_sel
             /\ Holds(~buf_sel, After(line), fetch_word_cnt)

Lines ==
  /\ BufType
  /\ spoiled = 0 => Holds(buf_sel, line, LINE_WORDS)
  /\ spoiled <= 1 => InStep

LEMMA LinesInit == Init => Lines
<1> SUFFICES ASSUME Init PROVE Lines
  OBVIOUS
<1>1. spoiled = 2
  BY DEF Init
<1>2. POWER_UP_MEM[0] \in DATA
  BY Sizes, MemoryAssumption
<1>3. BufType
  BY <1>2 DEF Init, FbReaderInit, BufType
<1>4. ~(spoiled = 0) /\ ~(spoiled <= 1)
  BY <1>1
<1> QED
  BY <1>3, <1>4 DEF Lines

\* The word that is popped is the next one of the line.
LEMMA WordPopped ==
  ASSUME Facts, VgaWords, Controller(TRUE)
  PROVE  /\ fetch_state = "F_POP"
         /\ Head(vga_fifo) = mem[LineWord(fetch_line, fetch_word_cnt)] /\ Head(vga_fifo) \in DATA
<1>1. vga_req_pending /\ vga_fifo # << >> /\ vga_fifo \in Seq(DATA)
  BY DEF Controller, VgaPop, Facts, VgaTypes
<1>2. Len(vga_fifo) \in Nat /\ Len(vga_fifo) # 0 /\ Head(vga_fifo) = vga_fifo[1] /\ Head(vga_fifo) \in DATA
  BY <1>1, HeadTailProperties, EmptySeq
<1>3. 1 \in 1 .. Len(vga_fifo)
  BY <1>2
<1>4. vga_fifo[1] = mem[vga_shadow_adr + vga_fifo_pop_cnt + 1 - 1]
  BY <1>3 DEF VgaWords
<1>5. /\ fetch_state = "F_POP" /\ fetch_burst_cnt = vga_fifo_pop_cnt
      /\ vga_shadow_adr = LineWord(fetch_line, fetch_word_cnt - fetch_burst_cnt)
  BY <1>1 DEF Facts, MasterInv, FetchInv
<1>6. fetch_burst_cnt \in Nat /\ fetch_word_cnt \in Nat /\ fetch_line \in Nat
  BY Sizes DEF Facts, MasterInv, FetchType, Line
<1>7. PICK q \in Nat : \A i : LineWord(fetch_line, i) = q + i
  <2>1. \A a, b, c \in Nat : a + b * c \in Nat
    OBVIOUS
  <2>2. FB_BASE + fetch_line * LINE_WORDS \in Nat
    BY <1>6, <2>1, Sizes
  <2> QED
    BY <2>2 DEF LineWord
<1>8. vga_shadow_adr + vga_fifo_pop_cnt + 1 - 1 = LineWord(fetch_line, fetch_word_cnt)
  <2>1. vga_shadow_adr = q + (fetch_word_cnt - fetch_burst_cnt)
    BY <1>5, <1>7
  <2>2. q + (fetch_word_cnt - fetch_burst_cnt) + fetch_burst_cnt + 1 - 1 = q + fetch_word_cnt
    BY <1>6, <1>7
  <2> QED
    BY <1>5, <1>7, <2>1, <2>2
<1> QED
  BY <1>2, <1>4, <1>5, <1>8

\* What the reader does at one edge of its clock, and to the buffers.
LEMMA BufferStep ==
  ASSUME Facts, VgaWords, BufType, NEW pop \in BOOLEAN, Edge50(pop)
  PROVE  /\ BufType'
         /\ \/ /\ fetch_state # "F_POP" \/ ~pop
               /\ UNCHANGED linebuf
            \/ /\ pop /\ fetch_state = "F_POP"
               /\ linebuf'[fetch_buf_sel][fetch_word_cnt] = mem[LineWord(fetch_line, fetch_word_cnt)]
               /\ \A b \in BOOLEAN, i \in 0 .. LINE_WORDS - 1 :
                    b # fetch_buf_sel \/ i # fetch_word_cnt => linebuf'[b][i] = linebuf[b][i]
<1>1. Controller(pop) /\ P_fetch(pop)
  BY EveryEdge DEF Edge50, VideoCpuEdge
<1>2. CASE fetch_state # "F_POP" \/ ~pop
  <2>1. UNCHANGED linebuf
    BY <1>1, <1>2 DEF P_fetch, FetchIdle, FetchReq, FetchPop, FetchGo
  <2> QED
    BY <1>2, <2>1 DEF BufType
<1>3. CASE pop /\ fetch_state = "F_POP"
  <2> DEFINE w == Head(vga_fifo)
  <2>1. Controller(TRUE)
    <3>1. pop = TRUE
      BY <1>3
    <3> QED
      BY <1>1, <3>1
  <2>2. w = mem[LineWord(fetch_line, fetch_word_cnt)] /\ w \in DATA
    BY <2>1, WordPopped
  <2>3. linebuf' = [linebuf EXCEPT ![fetch_buf_sel][fetch_word_cnt] = w]
    BY <1>1, <1>3 DEF P_fetch, FetchIdle, FetchReq, FetchPop, FetchGo
  <2>4. fetch_buf_sel \in BOOLEAN /\ fetch_word_cnt \in 0 .. LINE_WORDS - 1
    BY DEF Facts, MasterInv, FetchType
  <2> HIDE DEF w
  <2> DEFINE I == 0 .. LINE_WORDS - 1
  <2>5. linebuf \in [BOOLEAN -> [I -> DATA]]
    BY DEF BufType
  <2> HIDE DEF I
  <2>6. fetch_word_cnt \in I
    BY <2>4 DEF I
  <2>7. linebuf' \in [BOOLEAN -> [I -> DATA]]
    BY <2>2, <2>3, <2>4, <2>5, <2>6
  <2>8. /\ linebuf'[fetch_buf_sel][fetch_word_cnt] = w
        /\ \A b \in BOOLEAN, i \in I :
             b # fetch_buf_sel \/ i # fetch_word_cnt => linebuf'[b][i] = linebuf[b][i]
    BY <2>3, <2>4, <2>5, <2>6
  <2> QED
    BY <1>3, <2>2, <2>7, <2>8 DEF BufType, I
<1> QED
  BY <1>2, <1>3

\* Between two starts of a line.
LEMMA InStepKept ==
  ASSUME Facts, VgaWords, BufType, InStep, mode_en, mem' = mem, NEW pop \in BOOLEAN, Edge50(pop),
         LineReqFire => LineTravels, LineTravels' <=> LineTravels /\ ~LineReqFire,
         UNCHANGED <<line, buf_sel, line_fetch_shadow, line_fill_shadow>>
  PROVE  InStep' /\ (Holds(buf_sel, line, LINE_WORDS) => Holds(buf_sel, line, LINE_WORDS)')
<1>1. /\ P_fetch(pop) /\ buf_sel \in BOOLEAN /\ fetch_word_cnt \in 0 .. LINE_WORDS - 1
      /\ LINE_WORDS \in Nat \ {0}
  BY Sizes DEF Edge50, VideoCpuEdge, Facts, MasterInv, FetchType
<1> DEFINE next == After(line)
<1>2. /\ After(line)' = next /\ (~buf_sel)' = ~buf_sel
      /\ line_fill_shadow' = ~buf_sel /\ line_fetch_shadow' = next
  BY DEF After, InStep
<1>3. ASSUME NEW b, NEW l, NEW n, UNCHANGED linebuf, Holds(b, l, n)
      PROVE  \A i \in 0 .. n - 1 : linebuf'[b][i] = mem'[LineWord(l, i)]
  BY <1>3 DEF Holds
<1> HIDE DEF next
<1>4. CASE fetch_state = "F_IDLE"
  <2>1. FetchIdle /\ UNCHANGED linebuf /\ ~Late
    BY <1>1, <1>4 DEF P_fetch, FetchIdle, FetchReq, FetchPop, FetchGo, Late
  <2>2. CASE LineReqFire
    <3>1. /\ fetch_line' = line_fetch_shadow /\ fetch_word_cnt' = 0
          /\ fetch_buf_sel' = line_fill_shadow /\ fetch_state' = "F_REQ"
      BY <2>1, <2>2 DEF FetchIdle
    <3>2. ~LineTravels' /\ Late'
      BY <2>2, <3>1 DEF Late
    <3>3. fetch_line' = next /\ fetch_buf_sel' = ~buf_sel
      BY <3>1 DEF InStep, next
    <3>4. Holds(~buf_sel, After(line), fetch_word_cnt)'
      BY <3>1 DEF Holds
    <3> QED
      BY <1>2, <1>3, <2>1, <3>2, <3>3, <3>4 DEF InStep, Holds
  <2>3. CASE ~LineReqFire
    <3>1. fetch_state' = "F_IDLE" /\ ~Late' /\ (LineTravels' <=> LineTravels)
      BY <1>4, <2>1, <2>3 DEF FetchIdle, Late
    <3> QED
      BY <1>2, <1>3, <2>1, <3>1 DEF InStep, Holds, next
  <2> QED
    BY <2>2, <2>3
<1>5. CASE fetch_state = "F_LINE_DONE"
  <2>1. fetch_state' = "F_IDLE" /\ UNCHANGED linebuf /\ ~Late /\ ~Late' /\ ~LineTravels /\ ~LineTravels'
    BY <1>1, <1>5 DEF P_fetch, FetchIdle, FetchReq, FetchPop, FetchGo, Late, InStep
  <2> QED
    BY <1>2, <1>3, <2>1 DEF InStep, Holds, next
<1>6. CASE Late
  <2>1. /\ ~LineTravels /\ ~LineTravels' /\ fetch_line = next /\ fetch_buf_sel = ~buf_sel
        /\ Holds(~buf_sel, next, fetch_word_cnt)
    BY <1>6 DEF Late, InStep, next
  <2>2. UNCHANGED <<fetch_line, fetch_buf_sel>>
    BY <1>1, <1>6 DEF Late, P_fetch, FetchIdle, FetchReq, FetchPop, FetchGo
  <2>3. CASE fetch_state # "F_POP" \/ ~pop
    <3>1. UNCHANGED <<linebuf, fetch_word_cnt>> /\ Late'
      BY <1>1, <1>6, <2>3 DEF Late, P_fetch, FetchIdle, FetchReq, FetchPop, FetchGo
    <3> QED
      BY <1>2, <1>3, <2>1, <2>2, <3>1 DEF InStep, Holds, next
  <2>4. CASE fetch_state = "F_POP" /\ pop
    <3>1. /\ linebuf'[fetch_buf_sel][fetch_word_cnt] = mem[LineWord(fetch_line, fetch_word_cnt)]
          /\ \A b \in BOOLEAN, i \in 0 .. LINE_WORDS - 1 :
               b # fetch_buf_sel \/ i # fetch_word_cnt => linebuf'[b][i] = linebuf[b][i]
      BY <2>4, BufferStep
    <3>2. \A i \in 0 .. LINE_WORDS - 1 : linebuf'[buf_sel][i] = linebuf[buf_sel][i]
      BY <1>1, <2>1, <3>1
    <3>3. Holds(buf_sel, line, LINE_WORDS) => Holds(buf_sel, line, LINE_WORDS)'
      BY <3>2 DEF Holds
    <3>4. \A i \in 0 .. fetch_word_cnt : linebuf'[~buf_sel][i] = mem'[LineWord(next, i)]
      <4> SUFFICES ASSUME NEW i \in 0 .. fetch_word_cnt
                   PROVE  linebuf'[~buf_sel][i] = mem[LineWord(next, i)]
        OBVIOUS
      <4>1. i \in 0 .. LINE_WORDS - 1 /\ (i = fetch_word_cnt \/ i \in 0 .. fetch_word_cnt - 1)
        BY <1>1
      <4>2. CASE i = fetch_word_cnt
        BY <2>1, <3>1, <4>2
      <4>3. CASE i \in 0 .. fetch_word_cnt - 1
        <5>1. i # fetch_word_cnt
          BY <1>1, <4>3
        <5>2. (~buf_sel) \in BOOLEAN
          OBVIOUS
        <5>3. linebuf'[~buf_sel][i] = linebuf[~buf_sel][i]
          BY <3>1, <4>1, <5>1, <5>2
        <5> QED
          BY <2>1, <4>3, <5>3 DEF Holds
      <4> QED
        BY <4>1, <4>2, <4>3
    <3>5. \/ fetch_word_cnt = LINE_WORDS - 1 /\ fetch_state' = "F_LINE_DONE"
          \/ fetch_word_cnt' = fetch_word_cnt + 1 /\ fetch_state' \in {"F_POP", "F_NEXT_BURST"}
      BY <1>1, <2>4 DEF P_fetch, FetchIdle, FetchReq, FetchPop, FetchGo
    <3>6. CASE fetch_word_cnt = LINE_WORDS - 1 /\ fetch_state' = "F_LINE_DONE"
      <4>1. ~Late' /\ Holds(~buf_sel, next, LINE_WORDS)'
        BY <1>2, <3>4, <3>6 DEF Late, Holds, next
      <4> QED
        BY <1>2, <2>1, <3>3, <4>1 DEF InStep, next
    <3>7. CASE fetch_word_cnt' = fetch_word_cnt + 1 /\ fetch_state' \in {"F_POP", "F_NEXT_BURST"}
      <4>1. fetch_word_cnt' - 1 = fetch_word_cnt
        BY <1>1, <3>7
      <4>2. Late' /\ Holds(~buf_sel, next, fetch_word_cnt)'
        BY <1>2, <3>4, <3>7, <4>1 DEF Late, Holds, next
      <4> QED
        BY <1>2, <2>1, <2>2, <3>3, <4>2 DEF InStep, next
    <3> QED
      BY <3>5, <3>6, <3>7
  <2> QED
    BY <2>3, <2>4
<1> QED
  BY <1>4, <1>5, <1>6 DEF Late

\* A line that starts in time, with the one before asked for by the program's
\* mode.
LEMMA InStepAgain ==
  ASSUME Facts, ~Late, ~LineTravels, LineTravels', NEW pop \in BOOLEAN, Edge50(pop),
         LineReqFire => LineTravels,
         line' = (line + 1) % LINES, buf_sel' = ~buf_sel, line_fill_shadow' = buf_sel,
         line_fetch_shadow' = IF line' < LINES - 1 THEN line' + 1 ELSE 0
  PROVE  InStep' /\ UNCHANGED linebuf
<1>1. fetch_state \in {"F_IDLE", "F_LINE_DONE"} /\ ~LineReqFire /\ P_fetch(pop)
  BY DEF Late, Edge50, VideoCpuEdge
<1>2. fetch_state' = "F_IDLE" /\ UNCHANGED linebuf
  BY <1>1 DEF P_fetch, FetchIdle, FetchReq, FetchPop, FetchGo
<1>3. line_fill_shadow' = ~buf_sel'
  BY DEF Facts, MasterInv, FetchType
<1>4. line_fetch_shadow' = After(line)'
  BY DEF After
<1> QED
  BY <1>2, <1>3, <1>4 DEF InStep, Late

LEMMA LinesStep ==
  ASSUME RoomToCross, Facts, Modes, Crossed, VgaWords, Lines, NEW pop \in BOOLEAN, Edge50(pop)
  PROVE  Lines'
<1>1. Controller(pop)
  BY EveryEdge
<1>2. mode_en => mem' = mem
  BY <1>1, NoWriting DEF Modes, GpuQuiet
<1>3. BufType'
  BY BufferStep DEF Lines
<1>4. FetchType /\ (LineReqFire => LineTravels)
  BY RequestCrosses DEF Facts, MasterInv
<1>5. spoiled <= 1 => mode_en
  BY DEF Modes
<1>6. CASE /\ UNCHANGED <<line, buf_sel, line_fetch_shadow, line_fill_shadow, spoiled>>
           /\ LineTravels' <=> LineTravels /\ ~LineReqFire
  <2>1. spoiled <= 1 => InStep' /\ (Holds(buf_sel, line, LINE_WORDS) => Holds(buf_sel, line, LINE_WORDS)')
    <3> HAVE spoiled <= 1
    <3> QED
      BY <1>2, <1>4, <1>5, <1>6, InStepKept DEF Lines
  <2>2. spoiled = 0 => spoiled <= 1
    OBVIOUS
  <2> QED
    BY <1>3, <1>6, <2>1, <2>2 DEF Lines
<1>7. CASE /\ ~LineTravels /\ LineTravels' /\ Lateness(TRUE)
           /\ line' = (line + 1) % LINES /\ buf_sel' = ~buf_sel /\ line_fill_shadow' = buf_sel
           /\ line_fetch_shadow' = IF line' < LINES - 1 THEN line' + 1 ELSE 0
  <2>1. spoiled \in 0 .. 2
    BY DEF Modes
  <2>2. spoiled' = IF ~mode_en \/ Late THEN 2 ELSE IF spoiled > 0 THEN spoiled - 1 ELSE 0
    BY <1>7 DEF Lateness
  <2>3. spoiled' <= 1 => mode_en /\ ~Late
    BY <2>2
  <2>4. spoiled' <= 1 => InStep' /\ UNCHANGED linebuf
    BY <1>4, <1>7, <2>3, InStepAgain
  <2>5. spoiled' = 0 => Holds(buf_sel, line, LINE_WORDS)'
    <3> HAVE spoiled' = 0
    <3>1. mode_en /\ ~Late /\ spoiled <= 1
      BY <2>1, <2>2
    <3>2. UNCHANGED linebuf /\ mem' = mem
      BY <1>2, <2>4, <3>1
    <3>3. Holds(~buf_sel, After(line), LINE_WORDS)
      BY <1>7, <3>1 DEF Lines, InStep
    <3>4. line' = After(line)
      <4>1. line \in 0 .. LINES - 1
        BY DEF Facts, MasterInv, FetchType, Line
      <4>2. (line + 1) % LINES = IF line = LINES - 1 THEN 0 ELSE line + 1
        BY <4>1, WrapUp, Sizes
      <4> QED
        BY <1>7, <4>1, <4>2, Sizes DEF After
    <3> QED
      BY <1>7, <3>2, <3>3, <3>4 DEF Holds
  <2> QED
    BY <1>3, <2>4, <2>5 DEF Lines
<1> QED
  BY <1>4, <1>6, <1>7, RequestCrosses

(***************************************************************************)
(* The inductive invariant for the picture.                                *)
(***************************************************************************)
LineInv == Modes /\ Crossed /\ VgaPlace /\ VgaWords /\ Lines

LEMMA LineInvStep ==
  ASSUME RoomToCross, ReaderInRow, Facts, Facts', LineInv, [Next]_vars
  PROVE  LineInv'
<1>1. Modes' /\ (mode_en' => fills = FILLS)
  BY ModesStep DEF LineInv
<1>2. Crossed'
  BY CrossedStep DEF LineInv, Facts, MasterInv
<1>3. CASE UNCHANGED vars
  <2>1. VgaPlace' /\ VgaWords'
    BY <1>3 DEF vars, ctrlVars, pins, chipVars, LineInv, VgaPlace, VgaWords, VgaTravels, Coming, Writing, BurstCol
  <2>2. Lines'
    BY <1>3 DEF vars, lineVars, fetchVars, boardVars, chipVars, LineInv, Lines, BufType, InStep, Holds, After,
                Late, LineTravels
  <2> QED
    BY <1>1, <1>2, <2>1, <2>2 DEF LineInv
<1>4. ASSUME NEW pop \in BOOLEAN, Controller(pop)
      PROVE  VgaPlace' /\ VgaWords'
  <2>1. VgaPlace'
    BY <1>1, <1>4, VgaPlaceStep DEF LineInv
  <2> QED
    BY <1>4, <2>1, VgaWordsStep DEF LineInv
<1>5. CASE FastEdge
  <2>1. Controller(FALSE)
    BY <1>5, EveryEdge
  <2>2. UNCHANGED <<fetchVars, lineVars, spoiled>>
    BY <1>5 DEF FastEdge, NoPixelEdge
  <2>3. spoiled <= 1 => mem' = mem
    <3>1. spoiled <= 1 => mode_en
      BY DEF LineInv, Modes
    <3>2. mode_en => gpu_state = "G_IDLE"
      BY DEF LineInv, Modes, GpuQuiet
    <3> QED
      BY <2>1, <3>1, <3>2, NoWriting
  <2>4. spoiled = 0 => spoiled <= 1
    OBVIOUS
  <2>5. Lines'
    BY <2>2, <2>3, <2>4 DEF lineVars, fetchVars, LineInv, Lines, BufType, InStep, Holds, After, Late, LineTravels
  <2> QED
    BY <1>1, <1>2, <1>4, <2>1, <2>5 DEF LineInv
<1>6. ASSUME NEW pop \in BOOLEAN, Edge50(pop)
      PROVE  LineInv'
  BY <1>1, <1>2, <1>4, <1>6, EveryEdge, LinesStep DEF LineInv
<1> QED
  BY <1>3, <1>5, <1>6, Edges

LEMMA LineInvAlways ==
  ASSUME WholeBursts, RoomToCross, ReaderInRow
  PROVE  Spec => []LineInv
<1>1. Init => LineInv
  BY ModesInit, CrossedInit, VgaInit, LinesInit DEF LineInv
<1>2. Facts /\ Facts' /\ LineInv /\ [Next]_vars => LineInv'
  BY LineInvStep
<1> QED
  BY <1>1, <1>2, FactsAlways, PTL DEF Spec

(***************************************************************************)
(* The line on the screen is the line of the memory, for every size of the *)
(* picture: but for a late fetch, p_bufswap, the fetch state machine, the  *)
(* two clock crossings, the FIFO and the bursts of the controller never    *)
(* show a word of another line, or at another place of this one.           *)
(***************************************************************************)
THEOREM LineSafe ==
  ASSUME WholeBursts, RoomToCross, ReaderInRow
  PROVE  Spec => []LineShown
<1>1. LineInv => LineShown
  BY DEF LineInv, Lines, Holds, LineShown
<1> QED
  BY <1>1, LineInvAlways, PTL

-----------------------------------------------------------------------------
(***************************************************************************)
(* The rectangle being filled.                                             *)
(***************************************************************************)

\* No burst of the engine crosses the end of a row.
EngineInRow ==
  \A r \in RECTS :
    LET c == Clipped(r)
    IN Accelerated(c) =>
         \A y \in 0 .. c.h - 1, k \in 0 .. (c.w \div 2) - 1 :
           k % BURST_WORDS = 0 => InRow(LineWord(c.y + y, c.x \div 2 + k))

\* gpu_wait looks at the busy flag late enough for the engine to have started
\* and for the flag to have crossed.
RoomToStart == POLL_GAP >= 5

RowWords     == reg_width \div 2
WordAt(y, k) == reg_dst + y * LINE_WORDS + k
InRect(y, k) == y \in 0 .. reg_height - 1 /\ k \in 0 .. RowWords - 1

Regs ==
  gfx # "idle" =>
    /\ reg_height >= 1 /\ reg_width >= 2 * BURST_WORDS /\ reg_width % (2 * BURST_WORDS) = 0
    /\ RowWords <= LINE_WORDS
    /\ \A y, k : InRect(y, k) => /\ WordAt(y, k) \in painted /\ WordAt(y, k) \in Adr
                                 /\ k % BURST_WORDS = 0 => InRow(WordAt(y, k))

\* A row is a whole number of bursts.
LEMMA BurstsOfRow ==
  ASSUME NEW w \in Int, NEW m \in 1 .. 8, w >= 2 * m, w % (2 * m) = 0
  PROVE  /\ w = 2 * (w \div 2) /\ w \div 2 \in Nat /\ w \div 2 >= m
         /\ \A k \in 0 .. (w \div 2) - 1 : k % m = 0 => (k + m <= w \div 2) /\ (k + m) % m = 0
<1>1. m \in {1, 2, 3, 4, 5, 6, 7, 8}
  OBVIOUS
<1>2. CASE m = 1
  BY <1>2
<1>3. CASE m = 2
  BY <1>3
<1>4. CASE m = 3
  BY <1>4
<1>5. CASE m = 4
  BY <1>5
<1>6. CASE m = 5
  BY <1>6
<1>7. CASE m = 6
  BY <1>7
<1>8. CASE m = 7
  BY <1>8
<1>9. CASE m = 8
  BY <1>9
<1> QED
  BY <1>1, <1>2, <1>3, <1>4, <1>5, <1>6, <1>7, <1>8, <1>9

\* The words of a rectangle, row by row.
LEMMA WordsOfRect ==
  ASSUME NEW c, OnScreen(c)
  PROVE  /\ c.w \div 2 <= LINE_WORDS
         /\ \A y \in 0 .. c.h - 1, k \in 0 .. (c.w \div 2) - 1 :
              /\ LineWord(c.y, c.x \div 2) + y * LINE_WORDS + k = LineWord(c.y + y, c.x \div 2 + k)
              /\ LineWord(c.y + y, c.x \div 2 + k) \in Words(c)
              /\ LineWord(c.y + y, c.x \div 2 + k) \in Adr
         /\ \A a \in Words(c) :
              \E y \in 0 .. c.h - 1, k \in 0 .. (c.w \div 2) - 1 :
                a = LineWord(c.y, c.x \div 2) + y * LINE_WORDS + k
<1>1. /\ c.x \in Int /\ c.y \in Int /\ c.w \in Int /\ c.h \in Int
      /\ c.x >= 0 /\ c.x + c.w <= FB_W /\ c.y >= 0 /\ c.y + c.h <= LINES
      /\ c.x % 2 = 0
  BY DEF OnScreen, Rect
<1>2. c.w = 2 * (c.w \div 2) /\ c.w \div 2 \in Nat
  BY <1>1, Sizes, BurstsOfRow DEF OnScreen
<1>3. \A x \in Int : x % 2 = 0 => x = 2 * (x \div 2) /\ x \div 2 \in Int
  OBVIOUS
<1>4. c.x = 2 * (c.x \div 2) /\ c.x \div 2 \in Int
  BY <1>1, <1>3
<1>5. PICK m \in Int, w \in Int : c.x \div 2 = m /\ c.w \div 2 = w /\ c.x = 2 * m /\ c.w = 2 * w
  BY <1>2, <1>4
<1>6. m >= 0 /\ w >= 0 /\ m + w <= LINE_WORDS /\ FB_W = 2 * LINE_WORDS /\ LINE_WORDS \in Int /\ LINES \in Int
      /\ FB_BASE \in Int
  <2>1. LINE_WORDS \in Int /\ LINES \in Int /\ FB_BASE \in Int /\ FB_W = 2 * LINE_WORDS
    BY Sizes
  <2>2. w >= 0 /\ m >= 0
    BY <1>1, <1>2, <1>5
  <2>3. 2 * m + 2 * w <= 2 * LINE_WORDS
    BY <1>1, <1>5, <2>1
  <2>4. m + w <= LINE_WORDS
    BY <1>5, <2>1, <2>3
  <2> QED
    BY <2>1, <2>2, <2>4
<1>7. \A y \in Int, x \in Int :
        FB_BASE + (y * FB_W + x) \div 2 = FB_BASE + y * LINE_WORDS + x \div 2 /\ y * LINE_WORDS \in Int
  <2> TAKE y \in Int, x \in Int
  <2>1. \A b, l \in Int : b * (2 * l) = 2 * (b * l) /\ b * l \in Int
    OBVIOUS
  <2>2. PICK q \in Int : q = y * LINE_WORDS /\ y * FB_W = 2 * q
    BY <1>6, <2>1
  <2>3. \A b, l \in Int : (2 * b + l) \div 2 = b + l \div 2
    OBVIOUS
  <2>4. (y * FB_W + x) \div 2 = q + x \div 2
    BY <2>2, <2>3
  <2>5. x \div 2 \in Int
    OBVIOUS
  <2> QED
    BY <1>6, <2>2, <2>4, <2>5
<1>8. \A y \in 0 .. c.h - 1, k \in 0 .. w - 1 :
        /\ LineWord(c.y, m) + y * LINE_WORDS + k = LineWord(c.y + y, m + k)
        /\ LineWord(c.y + y, m + k) \in Words(c) /\ LineWord(c.y + y, m + k) \in Adr
  <2> TAKE y \in 0 .. c.h - 1, k \in 0 .. w - 1
  <2>1. y \in Int /\ k \in Int /\ c.y + y \in Int
    BY <1>1
  <2>2. \A a, b, l \in Int : (a + b) * l = a * l + b * l /\ a * l \in Int /\ b * l \in Int
    OBVIOUS
  <2>3. PICK p \in Int, q \in Int : p = c.y * LINE_WORDS /\ q = y * LINE_WORDS /\ (c.y + y) * LINE_WORDS = p + q
    BY <1>1, <1>6, <2>1, <2>2
  <2>4. LineWord(c.y, m) + y * LINE_WORDS + k = LineWord(c.y + y, m + k)
    BY <1>6, <2>1, <2>3 DEF LineWord
  <2>5. c.y + y \in Line /\ m + k \in 0 .. LINE_WORDS - 1
    BY <1>1, <1>6, <2>1 DEF Line
  <2>6. LineWord(c.y + y, m + k) \in Adr
    BY <2>5, WordsOfLines
  <2>7. /\ 2 * (m + k) \in c.x .. c.x + c.w - 1 /\ c.y + y \in c.y .. c.y + c.h - 1
        /\ (2 * (m + k)) \div 2 = m + k
    BY <1>1, <1>5, <1>6, <2>1
  <2>8. FB_BASE + ((c.y + y) * FB_W + 2 * (m + k)) \div 2 = LineWord(c.y + y, m + k)
    <3>1. c.y + y \in Int /\ 2 * (m + k) \in Int
      BY <1>5, <2>1
    <3>2. FB_BASE + ((c.y + y) * FB_W + 2 * (m + k)) \div 2
            = FB_BASE + (c.y + y) * LINE_WORDS + (2 * (m + k)) \div 2
      BY <1>7, <3>1
    <3> QED
      BY <2>7, <3>2 DEF LineWord
  <2>9. LineWord(c.y + y, m + k) \in Words(c)
    BY <2>7, <2>8 DEF Words
  <2> QED
    BY <2>4, <2>6, <2>9
<1>9. ASSUME NEW a \in Words(c)
      PROVE  \E y \in 0 .. c.h - 1, k \in 0 .. w - 1 : a = LineWord(c.y, m) + y * LINE_WORDS + k
  <2>1. PICK x \in c.x .. c.x + c.w - 1, v \in c.y .. c.y + c.h - 1 : a = FB_BASE + (v * FB_W + x) \div 2
    BY DEF Words
  <2>2. x \in Int /\ v \in Int /\ v - c.y \in 0 .. c.h - 1 /\ c.y + (v - c.y) = v
    BY <1>1, <2>1
  <2>3. x \div 2 - m \in 0 .. w - 1 /\ m + (x \div 2 - m) = x \div 2
    BY <1>5, <1>6, <2>1, <2>2
  <2>4. a = FB_BASE + v * LINE_WORDS + x \div 2
    BY <1>7, <2>1, <2>2
  <2>5. a = LineWord(c.y + (v - c.y), m + (x \div 2 - m))
    BY <2>2, <2>3, <2>4 DEF LineWord
  <2> QED
    BY <1>8, <2>2, <2>3, <2>5
<1>10. c.w \div 2 <= LINE_WORDS
  BY <1>5, <1>6
<1> QED
  BY <1>5, <1>8, <1>9, <1>10

-----------------------------------------------------------------------------
(***************************************************************************)
(* From the start pulse to the engine and back through the busy flag.      *)
(***************************************************************************)
Running   == gpu_state # "G_IDLE"
StartFlat == ~start_sync[1] /\ ~start_sync[2] /\ ~start_sync[3] /\ ~start_sync[4]

Driver ==
  /\ gfx \in {"idle", "start", "wait"} /\ poll_gap \in 0 .. POLL_GAP
  /\ start_toggle \in BOOLEAN /\ start_sync \in Chain
  /\ Running => gfx = "wait"

\* The edges of the 50 MHz clock are counted by poll_gap, those of the 100 MHz
\* one between them by phase.
Starting ==
  /\ gfx # "wait" => ~start_toggle /\ StartFlat
  /\ gfx = "wait" /\ poll_gap = POLL_GAP =>
       /\ start_toggle /\ ~Running /\ ~start_sync[3] /\ ~start_sync[4]
       /\ IF phase \in {1, 3} THEN ~start_sync[2] ELSE start_sync[1]
  /\ gfx = "wait" /\ poll_gap < POLL_GAP => ~start_toggle
  /\ gfx = "wait" /\ poll_gap = POLL_GAP - 1 /\ phase \in {1, 3} =>
       start_sync[2] /\ ~start_sync[4] /\ ~Running
  /\ gfx = "wait" /\ poll_gap = POLL_GAP - 1 /\ phase \in {0, 2} =>
       /\ ~start_sync[1] /\ start_sync[3] /\ (start_sync[4] <=> Running)
       /\ Running => gpu_state = "G_ROW_SETUP" /\ cur_row = reg_height
  /\ gfx = "wait" /\ poll_gap <= POLL_GAP - 2 /\ ~Running => StartFlat

\* The other end of the pulse is gone before the engine is idle again.
Flushing ==
  /\ gpu_state = "G_ROW_SETUP" => ~start_sync[1] /\ (cur_row # reg_height => StartFlat)
  /\ gpu_state = "G_BURST_REQ" => ~start_sync[1] /\ ~start_sync[2]
  /\ gpu_state = "G_BURST_WAIT" => /\ ~start_sync[1] /\ ~start_sync[2] /\ ~start_sync[3]
                                   /\ ~gpu_wr_req => StartFlat
  /\ gpu_state = "G_ROW_NEXT" => StartFlat

Busy ==
  /\ busy_100m \in BOOLEAN /\ busy_sync \in [1 .. 3 -> BOOLEAN]
  /\ Running =>
       /\ busy_100m
       /\ poll_gap <= POLL_GAP - 3 => busy_sync[1]
       /\ poll_gap <= POLL_GAP - 4 => busy_sync[2]
       /\ poll_gap <= POLL_GAP - 5 => busy_sync[3]

\* What an edge does to the driver.
Fast == phase \in {1, 3} /\ phase' \in {0, 2} /\ UNCHANGED <<driverVars, busy_sync, painted, mode_en>>
Slow == phase \in {0, 2} /\ phase' \in {1, 3} /\ P_cdc_busy

DriverEdge ==
  \/ Fast
  \/ Slow /\ \/ Gpu_none /\ UNCHANGED painted
             \/ \E r \in RECTS : Fill(r)
             \/ Gpu_start /\ UNCHANGED <<painted, mode_en>>
             \/ Gpu_wait /\ UNCHANGED <<painted, mode_en>>

LEMMA DriverEdges ==
  /\ FastEdge => DriverEdge
  /\ \A pop \in BOOLEAN : Edge50(pop) => DriverEdge
<1>1. ASSUME FastEdge PROVE DriverEdge
  BY <1>1 DEF FastEdge, DriverEdge, Fast
<1>2. ASSUME NEW pop \in BOOLEAN, Edge50(pop) PROVE DriverEdge
  <2>1. /\ phase \in {0, 2} /\ phase' = phase + 1 /\ P_cdc_busy /\ Program
    BY <1>2 DEF Edge50, VideoCpuEdge, VideoReturns
  <2>2. Slow
    BY <2>1 DEF Slow
  <2> QED
    BY <2>1, <2>2 DEF Program, Fb_init, DriverEdge
<1> QED
  BY <1>1, <1>2

LEMMA EngineGoes ==
  ASSUME P_gpu_fsm
  PROVE  /\ gpu_state = "G_IDLE" =>
              IF Fire(start_sync) THEN gpu_state' = "G_ROW_SETUP" /\ cur_row' = reg_height
                                  ELSE gpu_state' = "G_IDLE"
         /\ gpu_state = "G_ROW_SETUP" =>
              gpu_state' = (IF cur_row = 0 THEN "G_IDLE" ELSE "G_BURST_REQ")
         /\ gpu_state = "G_BURST_REQ" => gpu_state' = "G_BURST_WAIT" /\ gpu_wr_req'
         /\ gpu_state = "G_BURST_WAIT" =>
              ~gpu_wr_req' /\ IF gpu_done_r THEN gpu_state' \in {"G_BURST_REQ", "G_ROW_NEXT"}
                                            ELSE gpu_state' = "G_BURST_WAIT"
         /\ gpu_state = "G_ROW_NEXT" => gpu_state' = "G_ROW_SETUP"
<1>1. CASE G_idle
  BY <1>1 DEF G_idle
<1>2. CASE G_row_setup
  BY <1>2 DEF G_row_setup
<1>3. CASE G_burst_req
  BY <1>3 DEF G_burst_req
<1>4. CASE G_burst_wait
  BY <1>4 DEF G_burst_wait
<1>5. CASE G_row_next
  BY <1>5 DEF G_row_next
<1> QED
  BY <1>1, <1>2, <1>3, <1>4, <1>5 DEF P_gpu_fsm

LEMMA SyncSteps ==
  ASSUME NEW chain \in Chain, NEW b \in BOOLEAN
  PROVE  /\ Sync(chain, b)[1] = b /\ Sync(chain, b)[2] = chain[1]
         /\ Sync(chain, b)[3] = chain[2] /\ Sync(chain, b)[4] = chain[3]
  BY DEF Sync, Chain

\* While the engine runs the driver waits for it.
LEMMA RunningEdge ==
  ASSUME RoomToStart, Driver, Starting, Busy, DriverEdge, P_cdc_start, Running
  PROVE  /\ gfx = "wait" /\ gfx' = "wait" /\ ~start_toggle /\ ~start_toggle' /\ poll_gap < POLL_GAP
         /\ UNCHANGED <<regVars, painted, mode_en>> /\ start_sync' = Sync(start_sync, FALSE)
         /\ start_toggle' \in BOOLEAN
         /\ \/ Fast /\ poll_gap' = poll_gap
            \/ Slow /\ poll_gap' = IF poll_gap > 0 THEN poll_gap - 1 ELSE poll_gap
<1>1. gfx = "wait" /\ ~start_toggle /\ poll_gap \in 0 .. POLL_GAP - 1 /\ poll_gap < POLL_GAP
  BY VideoAssumption DEF Driver, Starting
<1>2. poll_gap = 0 => busy_sync[3]
  BY VideoAssumption DEF Busy, RoomToStart
<1>3. CASE Fast
  <2>1. start_toggle' = start_toggle /\ start_toggle = FALSE /\ gfx' = gfx /\ UNCHANGED <<poll_gap, regVars, painted, mode_en>>
    BY <1>1, <1>3 DEF Fast, driverVars, Driver
  <2>2. start_sync' = Sync(start_sync, FALSE)
    BY <2>1 DEF P_cdc_start
  <2> QED
    BY <1>1, <1>3, <2>1, <2>2
<1>4. CASE Slow /\ Gpu_wait /\ UNCHANGED <<painted, mode_en>>
  <2>1. /\ start_toggle' = FALSE /\ start_toggle = FALSE /\ UNCHANGED regVars
        /\ IF poll_gap > 0 THEN poll_gap' = poll_gap - 1 /\ UNCHANGED gfx
           ELSE gfx' = (IF busy_sync[3] THEN "wait" ELSE "idle") /\ UNCHANGED poll_gap
    BY <1>1, <1>4 DEF Gpu_wait, Driver
  <2>2. start_sync' = Sync(start_sync, FALSE)
    BY <2>1 DEF P_cdc_start
  <2>3. gfx' = "wait"
    BY <1>1, <1>2, <2>1
  <2> QED
    BY <1>1, <1>4, <2>1, <2>2, <2>3
<1>5. ~Gpu_none /\ ~Gpu_start /\ \A r \in RECTS : ~Fill(r)
  BY <1>1 DEF Gpu_none, Gpu_start, Fill, Gfx_fill_rect, Gpu_fill_rect
<1> QED
  BY <1>3, <1>4, <1>5 DEF DriverEdge

\* The engine starts when the pulse gets through, and at no other time.
LEMMA StartEdge ==
  ASSUME RoomToStart, Driver, Starting, DriverEdge, P_cdc_start, ~Running, Fire(start_sync)
  PROVE  /\ gfx = "wait" /\ gfx' = "wait" /\ poll_gap = POLL_GAP - 1 /\ ~start_toggle /\ ~start_toggle'
         /\ start_sync' = Sync(start_sync, FALSE) /\ ~start_sync[4] /\ start_sync[3]
         /\ UNCHANGED <<regVars, painted, mode_en>> /\ start_toggle' \in BOOLEAN
         /\ \/ Fast /\ poll_gap' = poll_gap
            \/ Slow /\ poll_gap' = poll_gap - 1 /\ ~start_sync[1]
<1>1. start_sync \in Chain /\ start_sync[3] # start_sync[4]
  BY DEF Driver, Fire
<1>2. ~StartFlat /\ ~(~start_sync[3] /\ ~start_sync[4])
  BY <1>1 DEF StartFlat, Chain
<1>3. gfx = "wait" /\ poll_gap \in Nat /\ poll_gap <= POLL_GAP /\ POLL_GAP \in Nat
  BY <1>2, VideoAssumption DEF Driver, Starting
<1>4. poll_gap # POLL_GAP /\ ~(poll_gap <= POLL_GAP - 2)
  BY <1>2, <1>3 DEF Starting
<1>5. poll_gap = POLL_GAP - 1 /\ poll_gap < POLL_GAP /\ poll_gap > 0
  BY <1>3, <1>4 DEF RoomToStart
<1>6. ~start_toggle
  BY <1>3, <1>5 DEF Starting
<1>7. CASE Fast
  <2>1. start_toggle' = start_toggle /\ start_toggle = FALSE /\ gfx' = gfx /\ UNCHANGED <<poll_gap, regVars, painted, mode_en>>
    BY <1>6, <1>7 DEF Fast, driverVars, Driver
  <2>2. start_sync' = Sync(start_sync, FALSE)
    BY <2>1 DEF P_cdc_start
  <2>3. ~start_sync[4]
    BY <1>3, <1>5, <1>7 DEF Fast, Starting
  <2>4. start_sync[3]
    BY <1>1, <2>3 DEF Chain
  <2> QED
    BY <1>3, <1>5, <1>7, <2>1, <2>2, <2>3, <2>4
<1>8. CASE Slow /\ Gpu_wait /\ UNCHANGED <<painted, mode_en>>
  <2>1. start_toggle' = FALSE /\ start_toggle = FALSE /\ UNCHANGED regVars /\ poll_gap' = poll_gap - 1 /\ UNCHANGED gfx
    BY <1>5, <1>6, <1>8 DEF Gpu_wait, Driver
  <2>2. start_sync' = Sync(start_sync, FALSE)
    BY <2>1 DEF P_cdc_start
  <2>3. ~start_sync[1] /\ ~start_sync[4] /\ start_sync[3]
    BY <1>3, <1>5, <1>8 DEF Slow, Starting
  <2> QED
    BY <1>3, <1>5, <1>8, <2>1, <2>2, <2>3
<1>9. ~Gpu_none /\ ~Gpu_start /\ \A r \in RECTS : ~Fill(r)
  BY <1>3 DEF Gpu_none, Gpu_start, Fill, Gfx_fill_rect, Gpu_fill_rect
<1> QED
  BY <1>7, <1>8, <1>9 DEF DriverEdge

LEMMA FlushingStep ==
  ASSUME RoomToStart, Facts, Driver, Starting, Flushing, Busy, NEW pop, Controller(pop), DriverEdge
  PROVE  Flushing'
<1>1. P_gpu_fsm /\ P_cdc_start /\ start_sync \in Chain
  BY DEF Controller, Driver
<1> DEFINE s == start_sync
<1>2. CASE Running
  <2>1. start_sync' = Sync(s, FALSE)
    BY <1>1, <1>2, RunningEdge
  <2>2. ~s'[1] /\ s'[2] = s[1] /\ s'[3] = s[2] /\ s'[4] = s[3]
    BY <1>1, <2>1, SyncSteps
  <2>3. gpu_done_r => ~gpu_wr_req
    BY DEF Facts, PathsOwned
  <2>4. gpu_state \in EngineStates
    BY DEF Facts, MasterInv, EngineType
  <2> HIDE DEF s
  <2>5. CASE gpu_state = "G_ROW_SETUP"
    BY <1>1, <2>2, <2>5, EngineGoes DEF Flushing, s
  <2>6. CASE gpu_state = "G_BURST_REQ"
    BY <1>1, <2>2, <2>6, EngineGoes DEF Flushing, StartFlat, s
  <2>7. CASE gpu_state = "G_BURST_WAIT"
    BY <1>1, <2>2, <2>3, <2>7, EngineGoes DEF Flushing, StartFlat, s
  <2>8. CASE gpu_state = "G_ROW_NEXT"
    BY <1>1, <2>2, <2>8, EngineGoes DEF Flushing, StartFlat, s
  <2> QED
    BY <1>2, <2>4, <2>5, <2>6, <2>7, <2>8 DEF Running, EngineStates
<1>3. CASE ~Running /\ Fire(s)
  <2>1. start_sync' = Sync(s, FALSE) /\ UNCHANGED regVars
    BY <1>1, <1>3, StartEdge
  <2>2. ~s'[1]
    BY <1>1, <2>1, SyncSteps
  <2> QED
    BY <1>1, <1>3, <2>1, <2>2, EngineGoes DEF Flushing, Running, regVars
<1>4. CASE ~Running /\ ~Fire(s)
  BY <1>1, <1>4, EngineGoes DEF Flushing, Running
<1> QED
  BY <1>2, <1>3, <1>4

LEMMA BusyStep ==
  ASSUME RoomToStart, Driver, Starting, Busy, NEW pop, Controller(pop), DriverEdge,
         P_cdc_busy \/ UNCHANGED busy_sync
  PROVE  Busy'
<1>1. P_gpu_fsm /\ P_cdc_start /\ poll_gap \in Nat /\ POLL_GAP \in Nat
  BY VideoAssumption DEF Controller, Driver
<1>2. /\ busy_100m' \in BOOLEAN
      /\ Running' => busy_100m' = TRUE
      /\ Running /\ Running' => busy_100m' = busy_100m
  BY <1>1 DEF Busy, Running, P_gpu_fsm, G_idle, G_row_setup, G_burst_req, G_burst_wait, G_row_next
<1>3. busy_sync' \in [1 .. 3 -> BOOLEAN]
  BY <1>2 DEF P_cdc_busy, Busy
<1>4. CASE Running /\ Running'
  <2>1. \/ Fast /\ poll_gap' = poll_gap
        \/ Slow /\ poll_gap' = IF poll_gap > 0 THEN poll_gap - 1 ELSE poll_gap
    BY <1>1, <1>4, RunningEdge
  <2>2. poll_gap < POLL_GAP
    BY <1>1, <1>4, RunningEdge
  <2>3. CASE Fast /\ poll_gap' = poll_gap
    <3>1. busy_sync' = busy_sync
      BY <2>3 DEF Fast
    <3> QED
      BY <1>2, <1>3, <1>4, <2>3, <3>1 DEF Busy
  <2>4. CASE Slow /\ poll_gap' = IF poll_gap > 0 THEN poll_gap - 1 ELSE poll_gap
    <3>1. busy_100m = TRUE /\ busy_100m' = TRUE
      BY <1>2, <1>4 DEF Busy
    <3>2. busy_sync'[1] = TRUE /\ busy_sync'[2] = busy_sync[1] /\ busy_sync'[3] = busy_sync[2]
      <4>1. PICK b \in {busy_100m, busy_100m'} :
              busy_sync' = [i \in 1 .. 3 |-> IF i = 1 THEN b ELSE busy_sync[i - 1]]
        BY <2>4 DEF Slow, P_cdc_busy
      <4>2. b = TRUE
        BY <3>1
      <4> QED
        BY <4>1, <4>2
    <3>3. /\ poll_gap' <= POLL_GAP - 4 => poll_gap <= POLL_GAP - 3
          /\ poll_gap' <= POLL_GAP - 5 => poll_gap <= POLL_GAP - 4
      BY <1>1, <2>4 DEF RoomToStart
    <3> QED
      BY <1>2, <1>3, <1>4, <3>2, <3>3 DEF Busy
  <2> QED
    BY <2>1, <2>3, <2>4
<1>5. CASE ~Running /\ Running'
  <2>1. Fire(start_sync)
    BY <1>1, <1>5, EngineGoes DEF Running
  <2>2. poll_gap = POLL_GAP - 1 /\ (poll_gap' = poll_gap \/ poll_gap' = poll_gap - 1)
    BY <1>1, <1>5, <2>1, StartEdge
  <2>3. ~(poll_gap' <= POLL_GAP - 3) /\ ~(poll_gap' <= POLL_GAP - 4) /\ ~(poll_gap' <= POLL_GAP - 5)
    BY <1>1, <2>2
  <2> QED
    BY <1>2, <1>3, <1>5, <2>3 DEF Busy
<1>6. CASE ~Running'
  BY <1>2, <1>3, <1>6 DEF Busy
<1> QED
  BY <1>4, <1>5, <1>6

LEMMA FlatStays ==
  ASSUME start_sync \in Chain, StartFlat, start_sync' = Sync(start_sync, FALSE)
  PROVE  StartFlat'
<1>1. start_sync'[1] = FALSE /\ start_sync'[2] = start_sync[1] /\ start_sync'[3] = start_sync[2]
      /\ start_sync'[4] = start_sync[3]
  BY SyncSteps
<1> QED
  BY <1>1 DEF StartFlat

\* What the driver does while the engine is idle and does not start.
LEMMA IdleEdge ==
  ASSUME RoomToStart, Driver, Starting, DriverEdge, P_gpu_fsm, P_cdc_start, phase \in 0 .. 3,
         ~Running, ~Fire(start_sync)
  PROVE  Driver' /\ Starting'
<1> DEFINE s == start_sync
<1>1. ~Running' /\ s \in Chain /\ gfx \in {"idle", "start", "wait"} /\ poll_gap \in 0 .. POLL_GAP
      /\ POLL_GAP \in Nat /\ start_toggle \in BOOLEAN
  BY EngineGoes, VideoAssumption DEF Running, Driver
<1>2. PICK b \in BOOLEAN : b \in {start_toggle, start_toggle'} /\ start_sync' = Sync(s, b)
  <2>1. start_toggle' \in BOOLEAN
    BY <1>1 DEF DriverEdge, Fast, driverVars, Gpu_none, Fill, Gfx_fill_rect, Gpu_fill_rect, Gpu_start, Gpu_wait
  <2> QED
    BY <1>1, <2>1 DEF P_cdc_start
<1>3. s' \in Chain /\ s'[1] = b /\ s'[2] = s[1] /\ s'[3] = s[2] /\ s'[4] = s[3]
  BY <1>1, <1>2, SyncChain, SyncSteps
<1>4. s[1] \in BOOLEAN /\ s[2] \in BOOLEAN /\ s[3] \in BOOLEAN /\ s[4] \in BOOLEAN /\ s[3] = s[4]
  BY <1>1 DEF Chain, Fire
<1> HIDE DEF s
<1>5. s' = start_sync' /\ s = start_sync
  BY DEF s
<1>6. CASE gfx # "wait"
  <2>1. ~start_toggle /\ StartFlat
    BY <1>6 DEF Starting
  <2>2. ~s'[2] /\ ~s'[3] /\ ~s'[4]
    BY <1>3, <1>5, <2>1 DEF StartFlat
  <2>3. CASE gfx' # "wait" /\ poll_gap' \in 0 .. POLL_GAP /\ start_toggle' = FALSE /\ gfx' \in {"idle", "start", "wait"}
    <3>1. b = FALSE
      BY <1>1, <1>2, <2>1, <2>3
    <3>2. StartFlat'
      BY <1>3, <1>5, <2>2, <3>1 DEF StartFlat
    <3> QED
      BY <1>1, <1>3, <1>5, <2>3, <3>2 DEF Driver, Starting
  <2>4. CASE Slow /\ Gpu_start
    <3>1. gfx' = "wait" /\ start_toggle' = TRUE /\ poll_gap' = POLL_GAP /\ phase' \in {1, 3}
      BY <2>4 DEF Slow, Gpu_start
    <3>2. poll_gap' # POLL_GAP - 1 /\ ~(poll_gap' < POLL_GAP) /\ ~(poll_gap' <= POLL_GAP - 2) /\ poll_gap' \in 0 .. POLL_GAP
      BY <1>1, <3>1
    <3> QED
      BY <1>1, <1>3, <1>5, <2>2, <3>1, <3>2 DEF Driver, Starting
  <2>5. Fast \/ (Slow /\ Gpu_start) \/ Gpu_none \/ \E r \in RECTS : Fill(r)
    BY <1>6 DEF DriverEdge, Gpu_wait
  <2>6. \/ Slow /\ Gpu_start
        \/ gfx' # "wait" /\ poll_gap' \in 0 .. POLL_GAP /\ start_toggle' = FALSE /\ gfx' \in {"idle", "start", "wait"}
    BY <1>1, <1>6, <2>1, <2>5 DEF Fast, driverVars, Gpu_none, Fill, Gfx_fill_rect, Gpu_fill_rect
  <2> QED
    BY <2>3, <2>4, <2>6
<1>7. CASE gfx = "wait"
  <2>1. ~Gpu_none /\ ~Gpu_start /\ \A r \in RECTS : ~Fill(r)
    BY <1>7 DEF Gpu_none, Gpu_start, Fill, Gfx_fill_rect, Gpu_fill_rect
  <2>2. \/ Fast /\ UNCHANGED <<gfx, poll_gap, start_toggle>>
        \/ /\ Slow /\ start_toggle' = FALSE
           /\ IF poll_gap > 0 THEN poll_gap' = poll_gap - 1 /\ gfx' = "wait"
              ELSE gfx' \in {"wait", "idle"} /\ UNCHANGED poll_gap
    BY <1>7, <2>1 DEF DriverEdge, Fast, driverVars, Gpu_wait
  <2>3. CASE poll_gap = POLL_GAP
    <3>1. start_toggle = TRUE /\ ~s[3] /\ ~s[4] /\ (phase \in {1, 3} => ~s[2]) /\ (phase \in {0, 2} => s[1])
      BY <1>1, <1>5, <1>7, <2>3 DEF Starting
    <3>2. CASE Fast /\ UNCHANGED <<gfx, poll_gap, start_toggle>>
      <4>1. ~s'[3] /\ ~s'[4] /\ s'[1] /\ ~(phase' \in {1, 3})
        <5>1. phase \in {1, 3} /\ ~(phase' \in {1, 3})
          BY <3>2 DEF Fast
        <5>2. b = TRUE
          BY <1>2, <3>1, <3>2
        <5> QED
          BY <1>3, <3>1, <5>1, <5>2
      <4>2. poll_gap' = POLL_GAP /\ poll_gap' # POLL_GAP - 1 /\ ~(poll_gap' < POLL_GAP) /\ ~(poll_gap' <= POLL_GAP - 2)
        BY <1>1, <2>3, <3>2
      <4> QED
        BY <1>1, <1>3, <1>5, <1>7, <3>1, <3>2, <4>1, <4>2 DEF Driver, Starting
    <3>3. CASE Slow /\ start_toggle' = FALSE /\ poll_gap' = poll_gap - 1 /\ gfx' = "wait"
      <4>1. s'[2] /\ ~s'[4] /\ phase' \in {1, 3} /\ ~(phase' \in {0, 2})
        BY <1>3, <3>1, <3>3 DEF Slow
      <4>2. poll_gap' # POLL_GAP /\ poll_gap' < POLL_GAP /\ ~(poll_gap' <= POLL_GAP - 2) /\ poll_gap' \in 0 .. POLL_GAP
        BY <1>1, <2>3, <3>3 DEF RoomToStart
      <4> QED
        BY <1>1, <1>3, <1>5, <3>3, <4>1, <4>2 DEF Driver, Starting
    <3>4. poll_gap > 0
      BY <1>1, <2>3 DEF RoomToStart
    <3> QED
      BY <2>2, <3>2, <3>3, <3>4
  <2>4. CASE poll_gap = POLL_GAP - 1
    <3>1. phase \in {1, 3}
      <4>1. ~(phase \in {0, 2})
        BY <1>1, <1>4, <1>5, <1>7, <2>4 DEF Starting
      <4> QED
        BY <4>1
    <3>2. s[2] /\ ~s[4] /\ ~s[3] /\ start_toggle = FALSE
      BY <1>1, <1>4, <1>5, <1>7, <2>4, <3>1 DEF Starting
    <3>3. Fast /\ UNCHANGED <<gfx, poll_gap, start_toggle>>
      BY <2>2, <3>1 DEF Slow
    <3>4. b = FALSE /\ ~s'[1] /\ s'[3] /\ ~s'[4] /\ phase' \in {0, 2} /\ ~(phase' \in {1, 3})
      BY <1>2, <1>3, <3>2, <3>3 DEF Fast
    <3>5. poll_gap' = POLL_GAP - 1 /\ poll_gap' # POLL_GAP /\ ~(poll_gap' <= POLL_GAP - 2)
      BY <1>1, <2>4, <3>3
    <3>6. ~start_toggle'
      BY <3>2, <3>3
    <3> QED
      BY <1>1, <1>3, <1>5, <1>7, <3>3, <3>4, <3>5, <3>6 DEF Driver, Starting
  <2>5. CASE poll_gap <= POLL_GAP - 2
    <3>1. StartFlat /\ start_toggle = FALSE
      BY <1>1, <1>7, <2>5 DEF Starting
    <3>2. start_toggle' = FALSE
      BY <2>2, <3>1
    <3>3. b = FALSE
      BY <1>2, <3>1, <3>2
    <3>4. StartFlat'
      BY <1>2, <1>5, <3>1, <3>3, <1>1, FlatStays
    <3>5. poll_gap' \in 0 .. POLL_GAP /\ poll_gap' <= POLL_GAP - 2 /\ gfx' \in {"idle", "start", "wait"}
      BY <1>1, <1>7, <2>2, <2>5
    <3>6. poll_gap' # POLL_GAP /\ poll_gap' # POLL_GAP - 1
      BY <1>1, <3>5
    <3> QED
      BY <1>1, <1>3, <1>5, <3>2, <3>4, <3>5, <3>6 DEF Driver, Starting
  <2> QED
    BY <1>1, <2>3, <2>4, <2>5
<1> QED
  BY <1>6, <1>7

LEMMA StartingStep ==
  ASSUME RoomToStart, Facts, Regs, Driver, Starting, Flushing, Busy,
         NEW pop, Controller(pop), DriverEdge
  PROVE  Driver' /\ Starting'
<1>1. P_gpu_fsm /\ P_cdc_start /\ phase \in 0 .. 3
  BY DEF Controller, Facts, MasterInv, FetchType
<1>2. start_sync \in Chain /\ poll_gap \in 0 .. POLL_GAP /\ POLL_GAP \in Nat
  BY VideoAssumption DEF Driver
<1>3. CASE Running
  <2>1. /\ gfx = "wait" /\ gfx' = "wait" /\ ~start_toggle' /\ start_toggle' \in BOOLEAN /\ poll_gap < POLL_GAP
        /\ start_sync' = Sync(start_sync, FALSE) /\ UNCHANGED regVars
        /\ \/ Fast /\ poll_gap' = poll_gap
           \/ Slow /\ poll_gap' = IF poll_gap > 0 THEN poll_gap - 1 ELSE poll_gap
    BY <1>1, <1>3, RunningEdge
  <2>2. start_sync' \in Chain
    BY <1>2, <2>1, SyncChain
  <2>3. poll_gap = POLL_GAP - 1 => /\ phase \in {0, 2} /\ gpu_state = "G_ROW_SETUP" /\ cur_row = reg_height
                                   /\ ~start_sync[1] /\ Slow
    BY <1>1, <1>2, <1>3, <2>1 DEF Starting, Fast
  <2>4. poll_gap' \in 0 .. POLL_GAP /\ poll_gap' <= POLL_GAP - 2
    <3>1. poll_gap # POLL_GAP - 1 => poll_gap <= POLL_GAP - 2
      BY <1>2, <2>1
    <3>2. poll_gap = POLL_GAP - 1 => poll_gap' = POLL_GAP - 2
      BY <1>2, <2>1, <2>3 DEF RoomToStart, Fast
    <3> QED
      BY <1>2, <2>1, <3>1, <3>2 DEF RoomToStart
  <2>5. ~Running' => StartFlat'
    <3> HAVE ~Running'
    <3>1. gpu_state = "G_ROW_SETUP" /\ cur_row = 0
      <4>1. gpu_state \in EngineStates
        BY DEF Facts, MasterInv, EngineType
      <4> QED
        BY <1>1, <1>3, <4>1, EngineGoes DEF Running, EngineStates
    <3>2. cur_row # reg_height
      BY <2>1, <3>1, VideoAssumption DEF Regs
    <3> QED
      BY <1>2, <2>1, <3>1, <3>2, FlatStays DEF Flushing
  <2>6. poll_gap' # POLL_GAP /\ poll_gap' # POLL_GAP - 1
    BY <1>2, <2>4
  <2> QED
    BY <2>1, <2>2, <2>4, <2>5, <2>6 DEF Driver, Starting
<1>4. CASE ~Running /\ Fire(start_sync)
  <2>1. /\ gfx' = "wait" /\ poll_gap = POLL_GAP - 1 /\ ~start_toggle' /\ start_toggle' \in BOOLEAN
        /\ start_sync' = Sync(start_sync, FALSE) /\ start_sync[3] /\ UNCHANGED regVars
        /\ \/ Fast /\ poll_gap' = poll_gap
           \/ Slow /\ poll_gap' = poll_gap - 1
    BY <1>1, <1>4, StartEdge
  <2>2. start_sync' \in Chain /\ ~start_sync'[1] /\ start_sync'[3] = start_sync[2] /\ start_sync'[4]
    BY <1>2, <2>1, SyncChain, SyncSteps
  <2>3. gpu_state' = "G_ROW_SETUP" /\ cur_row' = reg_height /\ Running'
    BY <1>1, <1>4, EngineGoes DEF Running
  <2>4. CASE Fast /\ poll_gap' = poll_gap
    <3>1. phase \in {1, 3} /\ phase' \in {0, 2} /\ ~(phase' \in {1, 3})
      BY <2>4 DEF Fast
    <3>2. start_sync'[3]
      BY <1>2, <2>1, <2>2, <3>1, StartEdge, <1>1, <1>4 DEF Starting
    <3>3. poll_gap' \in 0 .. POLL_GAP /\ poll_gap' # POLL_GAP /\ ~(poll_gap' <= POLL_GAP - 2)
      BY <1>2, <2>1, <2>4
    <3>4. reg_height' = reg_height
      BY <2>1 DEF regVars
    <3> QED
      BY <2>1, <2>2, <2>3, <3>1, <3>2, <3>3, <3>4 DEF Driver, Starting
  <2>5. CASE Slow /\ poll_gap' = poll_gap - 1
    <3>1. poll_gap' \in 0 .. POLL_GAP /\ poll_gap' # POLL_GAP /\ poll_gap' # POLL_GAP - 1
      BY <1>2, <2>1, <2>5 DEF RoomToStart
    <3> QED
      BY <2>1, <2>2, <2>3, <3>1 DEF Driver, Starting
  <2> QED
    BY <2>1, <2>4, <2>5
<1>5. CASE ~Running /\ ~Fire(start_sync)
  BY <1>1, <1>5, IdleEdge
<1> QED
  BY <1>3, <1>4, <1>5

-----------------------------------------------------------------------------
(***************************************************************************)
(* What a burst of the engine writes.                                      *)
(***************************************************************************)
Stored(n)    == \A i \in 0 .. n - 1 : mem[cur_addr + i] = GPU_DAT
Filled(y, k) == \A j, i : InRect(j, i) /\ (j < y \/ (j = y /\ i < k)) => mem[WordAt(j, i)] = GPU_DAT
RowAt        == reg_height - cur_row

Engine ==
  /\ Running => shadow_width = reg_width /\ 0 <= cur_row /\ cur_row <= reg_height
  /\ gpu_state = "G_ROW_SETUP" =>
       Filled(RowAt, 0) /\ (cur_row > 0 => cur_addr = WordAt(RowAt, 0))
  /\ gpu_state \in {"G_BURST_REQ", "G_BURST_WAIT"} =>
       /\ cur_row > 0
       /\ \E k \in 0 .. RowWords - 1 : /\ k % BURST_WORDS = 0 /\ cur_col_px = reg_width - 2 * k
                                       /\ cur_addr = WordAt(RowAt, k) /\ Filled(RowAt, k)
  /\ gpu_state = "G_ROW_NEXT" =>
       /\ cur_row > 0 /\ Filled(RowAt + 1, 0)
       /\ cur_row > 1 => cur_addr = WordAt(RowAt, RowWords)
  /\ gfx = "wait" /\ poll_gap <= POLL_GAP - 2 /\ ~Running => Filled(reg_height, 0)

Burst ==
  /\ gpu_state = "G_BURST_WAIT" => gpu_wr_adr = cur_addr
  /\ gpu_wr_valid => gpu_adr_r = gpu_wr_adr
  /\ gpu_done_r => Stored(BURST_WORDS)
  /\ ~mode_en /\ state = "S_ACTIVATE" => addr_r = gpu_adr_r /\ gpu_col_cnt = 0
  /\ state \in {"S_GPU_TRCD_WAIT", "S_GPU_WRITE", "S_GPU_PRECHARGE"} => addr_r = gpu_adr_r
  /\ state = "S_GPU_TRCD_WAIT" => gpu_col_cnt = 0
  /\ state = "S_GPU_WRITE" =>
       /\ gpu_col_cnt < BURST_WORDS /\ (cmd = "WRITE" <=> gpu_col_cnt > 0)
       /\ gpu_col_cnt > 0 => dram_addr = BurstCol(gpu_col_cnt - 1) /\ Stored(gpu_col_cnt - 1)
  /\ state = "S_GPU_PRECHARGE" =>
       cmd = "WRITE" /\ dram_addr = BurstCol(BURST_WORDS - 1) /\ Stored(BURST_WORDS - 1)
  /\ state = "S_GPU_TRP_WAIT" => Stored(BURST_WORDS)
  /\ cmd = "WRITE" => dq_oe /\ wr_data_r = GPU_DAT

Painted ==
  /\ painted \subseteq Adr
  /\ \A a \in Adr \ painted : mem[a] = POWER_UP_MEM[a]
  /\ \A a \in painted : mem[a] = GPU_DAT \/ (gfx # "idle" /\ \E y, k : InRect(y, k) /\ a = WordAt(y, k))

\* Which step leads to which state of a GPU burst.
LEMMA GpuRoute ==
  ASSUME Facts, NEW pop, Controller(pop)
  PROVE  /\ state' = "S_GPU_TRCD_WAIT" =>
              /\ (state = "S_ACTIVATE" /\ ~vga_valid /\ gpu_wr_valid) \/ state = "S_GPU_TRCD_WAIT"
              /\ UNCHANGED <<addr_r, gpu_col_cnt>>
         /\ state' = "S_GPU_WRITE" =>
              /\ UNCHANGED addr_r
              /\ \/ state = "S_GPU_TRCD_WAIT" /\ cmd' = "NOP" /\ UNCHANGED gpu_col_cnt
                 \/ /\ state = "S_GPU_WRITE" /\ gpu_col_cnt # BURST_WORDS - 1
                    /\ gpu_col_cnt' = (gpu_col_cnt + 1) % 8
                    /\ cmd' = "WRITE" /\ dram_addr' = BurstCol(gpu_col_cnt)
         /\ state' = "S_GPU_PRECHARGE" =>
              /\ UNCHANGED addr_r /\ state = "S_GPU_WRITE" /\ gpu_col_cnt = BURST_WORDS - 1
              /\ cmd' = "WRITE" /\ dram_addr' = BurstCol(gpu_col_cnt)
         /\ state' = "S_GPU_TRP_WAIT" => state \in {"S_GPU_PRECHARGE", "S_GPU_TRP_WAIT"}
         /\ cmd' = "WRITE" => state = "S_GPU_WRITE" /\ wr_data_r' = GPU_DAT /\ dq_oe' = TRUE
<1> USE DEF Goto, adrVars, colVars
<1>1. P_sdram /\ (state = "S_GPU_WRITE" => dq_oe' = TRUE)
  BY DEF Controller, SdramEdge, P_data
<1>2. CASE Idle
  <2>1. state = "S_IDLE" /\ (Pick \/ state' = "S_AUTO_REFRESH") /\ cmd' = "NOP"
    BY <1>2 DEF Idle, Nop
  <2>2. CASE Pick
    BY <2>1, <2>2 DEF Pick, Facts, PathsOwned
  <2> QED
    BY <2>1, <2>2
<1>3. CASE Activate
  BY <1>3 DEF Activate, Command3
<1>4. CASE Trcd_wait
  BY <1>4 DEF Trcd_wait, TrcdNext, Nop
<1>5. CASE Read_wait
  BY <1>5 DEF Read_wait, Command3, Nop
<1>6. CASE Vga_capture
  BY <1>6 DEF Vga_capture, Nop
<1>7. CASE Init_wait \/ Prechg_all \/ Prechg_wait \/ Init_refresh \/ Ref_wait \/ Load_mode \/ Mode_wait
           \/ Auto_refresh
  BY <1>7 DEF Init_wait, Prechg_all, Prechg_wait, Init_refresh, Ref_wait, Load_mode, Mode_wait,
              Auto_refresh, Wait, Nop, Command3
<1>8. CASE Read_capture \/ Write_setup \/ Write_cmd \/ Write_wait \/ Write_recovery
  BY <1>8 DEF Read_capture, Write_setup, Write_cmd, Write_wait, Write_recovery, Step, Nop, Facts, PathsOwned
<1>9. CASE Gpu_write
  BY <1>1, <1>9 DEF Gpu_write, Command3
<1>10. CASE \/ Precharge("S_PRECHARGE", "S_TRP_WAIT")
            \/ Precharge("S_VGA_PRECHARGE", "S_VGA_TRP_WAIT")
            \/ Precharge("S_GPU_PRECHARGE", "S_GPU_TRP_WAIT")
            \/ Trp_wait
  BY <1>10 DEF Precharge, Trp_wait, Nop, Command3
<1> QED
  BY <1>1, <1>2, <1>3, <1>4, <1>5, <1>6, <1>7, <1>8, <1>9, <1>10 DEF P_sdram

\* The words of the burst the engine is at.
LEMMA BurstInRect ==
  ASSUME Facts, Regs, Driver, Engine, gpu_state \in {"G_BURST_REQ", "G_BURST_WAIT"}
  PROVE  /\ gfx = "wait" /\ InRow(cur_addr)
         /\ \E k \in 0 .. RowWords - 1 :
              /\ k % BURST_WORDS = 0 /\ cur_col_px = reg_width - 2 * k
              /\ cur_addr = WordAt(RowAt, k) /\ Filled(RowAt, k)
              /\ k + BURST_WORDS <= RowWords /\ (k + BURST_WORDS) % BURST_WORDS = 0
              /\ \A j \in 0 .. BURST_WORDS - 1 :
                   InRect(RowAt, k + j) /\ WordAt(RowAt, k + j) = cur_addr + j
         /\ RowAt \in 0 .. reg_height - 1
<1>1. gfx = "wait" /\ reg_height \in Int /\ reg_width \in Int /\ cur_row \in Int /\ BURST_WORDS \in 1 .. 8
      /\ LINE_WORDS \in Nat /\ reg_dst \in Nat
  BY Sizes DEF Driver, Running, Facts, MasterInv, EngineType
<1>2. reg_width >= 2 * BURST_WORDS /\ reg_width % (2 * BURST_WORDS) = 0
  BY <1>1 DEF Regs
<1>3. RowWords \in Nat /\ \A k \in 0 .. RowWords - 1 :
        k % BURST_WORDS = 0 => (k + BURST_WORDS <= RowWords) /\ (k + BURST_WORDS) % BURST_WORDS = 0
  BY <1>1, <1>2, BurstsOfRow DEF RowWords
<1>4. RowAt \in 0 .. reg_height - 1
  BY <1>1 DEF Engine, Running, RowAt
<1>5. PICK k \in 0 .. RowWords - 1 : /\ k % BURST_WORDS = 0 /\ cur_col_px = reg_width - 2 * k
                                     /\ cur_addr = WordAt(RowAt, k) /\ Filled(RowAt, k)
  BY DEF Engine
<1>6. k + BURST_WORDS <= RowWords /\ (k + BURST_WORDS) % BURST_WORDS = 0
  BY <1>3, <1>5
<1>7. PICK p \in Int : \A i \in Int : WordAt(RowAt, i) = p + i
  <2>1. \A y, l \in Int : y * l \in Int
    OBVIOUS
  <2>2. reg_dst + RowAt * LINE_WORDS \in Int
    BY <1>1, <1>4, <2>1
  <2> QED
    BY <2>2 DEF WordAt
<1>8. \A j \in 0 .. BURST_WORDS - 1 : InRect(RowAt, k + j) /\ WordAt(RowAt, k + j) = cur_addr + j
  <2> TAKE j \in 0 .. BURST_WORDS - 1
  <2>1. k + j \in 0 .. RowWords - 1 /\ k \in Int /\ j \in Int
    BY <1>1, <1>3, <1>6
  <2>2. cur_addr = p + k /\ WordAt(RowAt, k + j) = p + (k + j)
    BY <1>5, <1>7, <2>1
  <2> QED
    BY <1>4, <2>1, <2>2 DEF InRect
<1>9. InRow(cur_addr)
  <2>1. InRect(RowAt, k)
    BY <1>4, <1>5 DEF InRect
  <2> QED
    BY <1>1, <1>5, <2>1 DEF Regs
<1> QED
  BY <1>1, <1>4, <1>5, <1>6, <1>8, <1>9

\* The engine stands still during its burst.
LEMMA BurstHeld ==
  ASSUME Facts, NEW pop, Controller(pop), gpu_wr_valid
  PROVE  /\ gpu_state = "G_BURST_WAIT" /\ gpu_state' = "G_BURST_WAIT" /\ ~gpu_wr_req /\ ~gpu_done_r
         /\ UNCHANGED <<cur_addr, gpu_adr_r, gpu_wr_adr, cur_row, cur_col_px, shadow_width>>
<1>1. gpu_state = "G_BURST_WAIT" /\ ~gpu_done_r /\ ~gpu_wr_req
  BY DEF Facts, PathsOwned
<1>2. G_burst_wait
  BY <1>1 DEF Controller, P_gpu_fsm, G_idle, G_row_setup, G_burst_req, G_row_next
<1>3. UNCHANGED gpu_adr_r
  BY DEF Controller, SdramEdge, P_gpu_latch
<1> QED
  BY <1>1, <1>2, <1>3 DEF G_burst_wait

LEMMA BurstWrites ==
  ASSUME Facts, Regs, Driver, Engine, Burst, NEW pop, Controller(pop), cmd = "WRITE"
  PROVE  /\ gpu_wr_valid /\ gpu_state = "G_BURST_WAIT" /\ UNCHANGED cur_addr
         /\ \E j \in 0 .. BURST_WORDS - 1 :
              /\ state = "S_GPU_WRITE" => gpu_col_cnt > 0 /\ j = gpu_col_cnt - 1
              /\ state = "S_GPU_PRECHARGE" => j = BURST_WORDS - 1
              /\ cur_addr + j \in Adr /\ mem' = [mem EXCEPT ![cur_addr + j] = GPU_DAT]
<1>1. state \in {"S_GPU_WRITE", "S_GPU_PRECHARGE"} /\ gpu_wr_valid
  BY DEF Facts, Commanded, PathsOwned, GpuPath
<1>2. gpu_state = "G_BURST_WAIT" /\ UNCHANGED cur_addr
  BY <1>1, BurstHeld
<1>3. addr_r = cur_addr
  BY <1>1, <1>2 DEF Burst
<1>4. InRow(cur_addr)
  BY <1>2, BurstInRect
<1>5. PICK j \in 0 .. BURST_WORDS - 1 :
        /\ state = "S_GPU_WRITE" => gpu_col_cnt > 0 /\ j = gpu_col_cnt - 1
        /\ state = "S_GPU_PRECHARGE" => j = BURST_WORDS - 1
        /\ dram_addr = BurstCol(j)
  <2>1. CASE state = "S_GPU_WRITE"
    <3>1. gpu_col_cnt < BURST_WORDS /\ gpu_col_cnt > 0 /\ dram_addr = BurstCol(gpu_col_cnt - 1)
      BY <2>1 DEF Burst
    <3>2. gpu_col_cnt - 1 \in 0 .. BURST_WORDS - 1
      BY <3>1, Sizes DEF Facts, RegisterTypes
    <3> QED
      BY <2>1, <3>1, <3>2
  <2>2. CASE state = "S_GPU_PRECHARGE"
    <3>1. dram_addr = BurstCol(BURST_WORDS - 1) /\ BURST_WORDS - 1 \in 0 .. BURST_WORDS - 1
      BY <2>2, Sizes DEF Burst
    <3> QED
      BY <2>2, <3>1
  <2> QED
    BY <1>1, <2>1, <2>2
<1>6. dram_ba = BankOf(cur_addr) /\ open[dram_ba] = RowOf(cur_addr)
  BY <1>3 DEF Facts, Commanded
<1>7. Addressed = cur_addr + j /\ cur_addr + j \in Adr
  BY <1>3, <1>4, <1>5, <1>6, CellOfBurst DEF Addressed, BurstCol
<1>8. open[dram_ba] # CLOSED
  <2>1. Board!RowOf(cur_addr) \in Board!Row
    BY <1>4, SameAddresses, Board!FieldsInRange, GeometryHolds, MemoryHolds, CtrlHolds, MastersHold DEF InRow
  <2> QED
    BY <1>6, <2>1, SameAddresses, Sizes DEF Board!Row, CLOSED
<1>9. mem' = [mem EXCEPT ![cur_addr + j] = GPU_DAT]
  <2>1. dq_oe /\ wr_data_r = GPU_DAT
    BY DEF Burst
  <2>2. Access
    BY DEF Controller, SdramEdge, ChipStep
  <2> QED
    BY <1>7, <1>8, <2>1, <2>2 DEF Access
<1> QED
  BY <1>1, <1>2, <1>5, <1>7, <1>9

\* A step writes the colour into a word of the rectangle, or nothing.
LEMMA MemPaint ==
  ASSUME Facts, Regs, Driver, Engine, Burst, NEW pop, Controller(pop)
  PROVE  /\ \A a \in Adr : mem[a] = GPU_DAT => mem'[a] = GPU_DAT
         /\ \A a \in Adr : mem'[a] # mem[a] => Running /\ \E y, k : InRect(y, k) /\ a = WordAt(y, k)
         /\ cmd # "WRITE" => mem' = mem
<1>1. cmd # "WRITE" => mem' = mem
  BY DEF Controller, SdramEdge, ChipStep, Access
<1>2. CASE cmd = "WRITE"
  <2>1. gpu_state = "G_BURST_WAIT"
    BY <1>2, BurstWrites
  <2>2. PICK j \in 0 .. BURST_WORDS - 1 : cur_addr + j \in Adr /\ mem' = [mem EXCEPT ![cur_addr + j] = GPU_DAT]
    BY <1>2, BurstWrites
  <2>3. \A a \in Adr : mem'[a] = IF a = cur_addr + j THEN GPU_DAT ELSE mem[a]
    BY <2>2 DEF Facts, RegisterTypes
  <2>4. \E y, k : InRect(y, k) /\ cur_addr + j = WordAt(y, k)
    BY <2>1, BurstInRect
  <2> QED
    BY <1>2, <2>1, <2>3, <2>4 DEF Running
<1> QED
  BY <1>1, <1>2

\* The words stored stay, and the one on the pins joins them.
LEMMA StoredStep ==
  ASSUME Facts, Regs, Driver, Engine, Burst, NEW pop, Controller(pop), gpu_wr_valid,
         NEW n \in 0 .. BURST_WORDS, Stored(n)
  PROVE  /\ Stored(n)'
         /\ cmd = "WRITE" /\ n < BURST_WORDS /\ (state = "S_GPU_WRITE" => n = gpu_col_cnt - 1)
              /\ (state = "S_GPU_PRECHARGE" => n = BURST_WORDS - 1) => Stored(n + 1)'
<1>1. UNCHANGED cur_addr /\ gpu_state = "G_BURST_WAIT"
  BY BurstHeld
<1>2. \A i \in 0 .. BURST_WORDS - 1 : cur_addr + i \in Adr
  BY <1>1, BurstInRect, CellOfBurst
<1>3. \A i \in 0 .. n - 1 : i \in 0 .. BURST_WORDS - 1
  BY Sizes
<1>4. \A i \in 0 .. n - 1 : mem'[cur_addr + i] = GPU_DAT
  BY <1>2, <1>3, MemPaint DEF Stored
<1>5. Stored(n)'
  BY <1>1, <1>4 DEF Stored
<1>6. ASSUME cmd = "WRITE", n < BURST_WORDS, state = "S_GPU_WRITE" => n = gpu_col_cnt - 1,
             state = "S_GPU_PRECHARGE" => n = BURST_WORDS - 1
      PROVE  Stored(n + 1)'
  <2>1. PICK j \in 0 .. BURST_WORDS - 1 :
          /\ state = "S_GPU_WRITE" => gpu_col_cnt > 0 /\ j = gpu_col_cnt - 1
          /\ state = "S_GPU_PRECHARGE" => j = BURST_WORDS - 1
          /\ cur_addr + j \in Adr /\ mem' = [mem EXCEPT ![cur_addr + j] = GPU_DAT]
    BY <1>6, BurstWrites
  <2>2. state \in {"S_GPU_WRITE", "S_GPU_PRECHARGE"}
    BY <1>6 DEF Facts, Commanded
  <2>3. j = n
    BY <1>6, <2>1, <2>2
  <2>4. mem'[cur_addr + n] = GPU_DAT
    BY <2>1, <2>3 DEF Facts, RegisterTypes
  <2>5. \A i \in 0 .. (n + 1) - 1 : i \in 0 .. n - 1 \/ i = n
    BY Sizes
  <2> QED
    BY <1>1, <1>4, <2>4, <2>5 DEF Stored
<1> QED
  BY <1>5, <1>6

LEMMA BurstStep ==
  ASSUME Facts, Facts', Modes, Regs, Driver, Engine, Burst, NEW pop, Controller(pop), mode_en => mode_en'
  PROVE  Burst'
<1>1. P_gpu_fsm /\ P_gpu_latch(gpu_wr_req, gpu_wr_adr)
  BY DEF Controller, SdramEdge
<1>2. gpu_state' = "G_BURST_WAIT" => gpu_wr_adr' = cur_addr'
  <2>1. CASE G_burst_req
    BY <2>1 DEF G_burst_req
  <2>2. CASE G_burst_wait
    BY <2>2 DEF G_burst_wait, Burst
  <2>3. CASE G_idle \/ G_row_setup \/ G_row_next
    BY <2>3 DEF G_idle, G_row_setup, G_row_next
  <2> QED
    BY <1>1, <2>1, <2>2, <2>3 DEF P_gpu_fsm
<1>3. gpu_wr_valid' => gpu_adr_r' = gpu_wr_adr'
  <2> HAVE gpu_wr_valid'
  <2>1. CASE gpu_wr_valid
    BY <2>1, BurstHeld DEF Burst
  <2>2. CASE ~gpu_wr_valid
    <3>1. gpu_wr_req /\ gpu_adr_r' = gpu_wr_adr
      BY <1>1, <2>2, Zenon DEF P_gpu_latch
    <3>2. gpu_state = "G_BURST_WAIT"
      BY <3>1 DEF Facts, PathsOwned
    <3>3. UNCHANGED gpu_wr_adr
      BY <1>1, <3>2 DEF P_gpu_fsm, G_idle, G_row_setup, G_burst_req, G_burst_wait, G_row_next
    <3> QED
      BY <3>1, <3>3
  <2> QED
    BY <2>1, <2>2
<1>4. gpu_wr_valid => ~mode_en /\ ~vga_valid
  BY DEF Facts, PathsOwned, Modes, GpuQuiet, VgaQuiet
<1>5. state \in GpuPath => gpu_wr_valid
  BY DEF Facts, PathsOwned
<1>6. BURST_WORDS \in 0 .. BURST_WORDS /\ BURST_WORDS - 1 \in 0 .. BURST_WORDS /\ BURST_WORDS \in 1 .. 8
      /\ gpu_col_cnt \in 0 .. 7 /\ (BURST_WORDS - 1) + 1 = BURST_WORDS /\ BURST_WORDS - 1 < BURST_WORDS
  BY Sizes DEF Facts, RegisterTypes
<1>7. gpu_done_r' => Stored(BURST_WORDS)'
  <2> HAVE gpu_done_r'
  <2>1. state = "S_GPU_TRP_WAIT"
    BY <1>1 DEF P_gpu_latch, TrpDone
  <2>2. gpu_wr_valid /\ Stored(BURST_WORDS)
    BY <1>5, <2>1 DEF GpuPath, Burst
  <2> QED
    BY <1>6, <2>2, StoredStep
<1>8. ~mode_en' /\ state' = "S_ACTIVATE" => addr_r' = gpu_adr_r' /\ gpu_col_cnt' = 0
  <2> HAVE ~mode_en' /\ state' = "S_ACTIVATE"
  <2>1. ~vga_valid
    BY DEF Modes, VgaQuiet
  <2>2. gpu_wr_valid /\ addr_r' = gpu_adr_r /\ gpu_col_cnt' = 0
    BY <2>1, VgaRoute
  <2> QED
    BY <2>2, BurstHeld
<1>9. state' = "S_GPU_TRCD_WAIT" => addr_r' = gpu_adr_r' /\ gpu_col_cnt' = 0
  <2> HAVE state' = "S_GPU_TRCD_WAIT"
  <2>1. gpu_wr_valid /\ UNCHANGED <<addr_r, gpu_col_cnt>> /\ state \in {"S_ACTIVATE", "S_GPU_TRCD_WAIT"}
    BY <1>5, GpuRoute DEF GpuPath
  <2>2. addr_r = gpu_adr_r /\ gpu_col_cnt = 0
    BY <1>4, <2>1 DEF Burst
  <2> QED
    BY <2>1, <2>2, BurstHeld
\* What has been stored once the command on the pins is taken, in S_GPU_WRITE.
<1>10. ASSUME state = "S_GPU_WRITE"
       PROVE  /\ gpu_wr_valid /\ gpu_col_cnt \in 0 .. BURST_WORDS - 1 /\ addr_r = gpu_adr_r
              /\ \A c \in 0 .. BURST_WORDS - 1 : c = gpu_col_cnt => Stored(c)'
  <2>1. /\ gpu_wr_valid /\ addr_r = gpu_adr_r /\ gpu_col_cnt \in 0 .. BURST_WORDS - 1
        /\ cmd = "WRITE" <=> gpu_col_cnt > 0
        /\ gpu_col_cnt > 0 => Stored(gpu_col_cnt - 1)
    BY <1>5, <1>6, <1>10 DEF GpuPath, Burst
  <2>2. ASSUME NEW c \in 0 .. BURST_WORDS - 1, c = gpu_col_cnt, c = 0 PROVE Stored(c)'
    BY <2>2 DEF Stored
  <2>3. ASSUME NEW c \in 0 .. BURST_WORDS - 1, c = gpu_col_cnt, c > 0 PROVE Stored(c)'
    <3>1. PICK n \in 0 .. BURST_WORDS : n = c - 1 /\ n < BURST_WORDS /\ n + 1 = c
      BY <1>6, <2>3
    <3>2. Stored(n) /\ cmd = "WRITE" /\ n = gpu_col_cnt - 1
      BY <2>1, <2>3, <3>1
    <3>3. Stored(n + 1)'
      BY <1>10, <2>1, <3>1, <3>2, StoredStep
    <3> QED
      BY <3>1, <3>3
  <2>4. \A c \in 0 .. BURST_WORDS - 1 : c = 0 \/ c > 0
    BY <1>6
  <2> QED
    BY <2>1, <2>2, <2>3, <2>4
<1>11. state' = "S_GPU_WRITE" =>
         /\ addr_r' = gpu_adr_r'
         /\ gpu_col_cnt' < BURST_WORDS /\ (cmd' = "WRITE" <=> gpu_col_cnt' > 0)
         /\ gpu_col_cnt' > 0 => dram_addr' = BurstCol(gpu_col_cnt - 1)' /\ Stored(gpu_col_cnt - 1)'
  <2> HAVE state' = "S_GPU_WRITE"
  <2>1. CASE state = "S_GPU_TRCD_WAIT" /\ cmd' = "NOP" /\ UNCHANGED <<addr_r, gpu_col_cnt>>
    <3>1. gpu_wr_valid /\ addr_r = gpu_adr_r /\ gpu_col_cnt = 0
      BY <1>5, <2>1 DEF GpuPath, Burst
    <3> QED
      BY <1>6, <2>1, <3>1, BurstHeld
  <2>2. CASE /\ state = "S_GPU_WRITE" /\ gpu_col_cnt # BURST_WORDS - 1 /\ UNCHANGED addr_r
             /\ gpu_col_cnt' = (gpu_col_cnt + 1) % 8 /\ cmd' = "WRITE" /\ dram_addr' = BurstCol(gpu_col_cnt)
    <3>1. PICK c \in 0 .. BURST_WORDS - 1 : c = gpu_col_cnt /\ Stored(c)'
      BY <1>10, <2>2
    <3>2. gpu_col_cnt' = c + 1 /\ c + 1 < BURST_WORDS /\ c + 1 > 0 /\ gpu_col_cnt' - 1 = c
      BY <1>6, <2>2, <3>1
    <3>3. Stored(gpu_col_cnt - 1)'
      BY <3>1, <3>2 DEF Stored
    <3>4. dram_addr' = BurstCol(gpu_col_cnt - 1)'
      BY <2>2, <3>1, <3>2 DEF BurstCol
    <3>5. addr_r' = gpu_adr_r'
      BY <1>10, <2>2, BurstHeld
    <3> QED
      BY <2>2, <3>2, <3>3, <3>4, <3>5
  <2> QED
    BY <2>1, <2>2, GpuRoute
<1>12. state' = "S_GPU_PRECHARGE" =>
         /\ addr_r' = gpu_adr_r' /\ cmd' = "WRITE" /\ dram_addr' = BurstCol(BURST_WORDS - 1)'
         /\ Stored(BURST_WORDS - 1)'
  <2> HAVE state' = "S_GPU_PRECHARGE"
  <2>1. /\ UNCHANGED addr_r /\ state = "S_GPU_WRITE" /\ gpu_col_cnt = BURST_WORDS - 1
        /\ cmd' = "WRITE" /\ dram_addr' = BurstCol(gpu_col_cnt)
    BY GpuRoute
  <2>2. BURST_WORDS - 1 \in 0 .. BURST_WORDS - 1
    BY <1>6
  <2>3. Stored(BURST_WORDS - 1)'
    BY <1>10, <2>1, <2>2
  <2>4. dram_addr' = BurstCol(BURST_WORDS - 1)'
    BY <2>1 DEF BurstCol
  <2>5. addr_r' = gpu_adr_r'
    BY <1>10, <2>1, BurstHeld
  <2> QED
    BY <2>1, <2>3, <2>4, <2>5
<1>13. state' = "S_GPU_TRP_WAIT" => Stored(BURST_WORDS)'
  <2> HAVE state' = "S_GPU_TRP_WAIT"
  <2>1. state \in {"S_GPU_PRECHARGE", "S_GPU_TRP_WAIT"} /\ gpu_wr_valid
    BY <1>5, GpuRoute DEF GpuPath
  <2>2. CASE state = "S_GPU_TRP_WAIT"
    BY <1>6, <2>1, <2>2, StoredStep DEF Burst
  <2>3. CASE state = "S_GPU_PRECHARGE"
    <3>1. PICK n \in 0 .. BURST_WORDS : n = BURST_WORDS - 1 /\ n < BURST_WORDS /\ n + 1 = BURST_WORDS
      BY <1>6
    <3>2. Stored(n) /\ cmd = "WRITE"
      BY <2>3, <3>1 DEF Burst
    <3>3. Stored(n + 1)'
      BY <2>1, <2>3, <3>1, <3>2, StoredStep
    <3> QED
      BY <3>1, <3>3
  <2> QED
    BY <2>1, <2>2, <2>3
<1>14. cmd' = "WRITE" => dq_oe' /\ wr_data_r' = GPU_DAT
  BY GpuRoute
<1> QED
  BY <1>2, <1>3, <1>7, <1>8, <1>9, <1>11, <1>12, <1>13, <1>14 DEF Burst

-----------------------------------------------------------------------------
(***************************************************************************)
(* The engine goes through the rectangle word by word.                     *)
(***************************************************************************)
LEMMA RowsOfWords ==
  ASSUME EngineType, NEW y \in Int
  PROVE  \E p \in Int : \A i \in Int :
           WordAt(y, i) = p + i /\ WordAt(y + 1, i) = p + LINE_WORDS + i
<1>1. reg_dst \in Int /\ LINE_WORDS \in Int
  BY Sizes DEF EngineType
<1>2. \A v, l \in Int : v * l \in Int /\ (v + 1) * l = v * l + l
  OBVIOUS
<1>3. PICK q \in Int : q = y * LINE_WORDS /\ (y + 1) * LINE_WORDS = q + LINE_WORDS
  BY <1>1, <1>2
<1>4. reg_dst + q \in Int
  BY <1>1, <1>3
<1>5. \A i \in Int : WordAt(y, i) = (reg_dst + q) + i /\ WordAt(y + 1, i) = (reg_dst + q) + LINE_WORDS + i
  <2> TAKE i \in Int
  <2>1. WordAt(y, i) = reg_dst + q + i /\ WordAt(y + 1, i) = reg_dst + (q + LINE_WORDS) + i
    BY <1>3 DEF WordAt
  <2> QED
    BY <1>1, <1>3, <2>1
<1> QED
  BY <1>4, <1>5

\* What has been filled stays so.
LEMMA FilledStep ==
  ASSUME Facts, Regs, Driver, Engine, Burst, NEW pop, Controller(pop), gfx # "idle", UNCHANGED regVars,
         NEW y, NEW k, Filled(y, k)
  PROVE  Filled(y, k)'
<1>1. \A j, i : InRect(j, i) => WordAt(j, i) \in Adr
  BY DEF Regs
<1>2. \A j, i : (InRect(j, i)' <=> InRect(j, i)) /\ WordAt(j, i)' = WordAt(j, i)
  BY DEF regVars, InRect, WordAt, RowWords
<1>3. \A a \in Adr : mem[a] = GPU_DAT => mem'[a] = GPU_DAT
  BY MemPaint
<1>4. SUFFICES ASSUME NEW j, NEW i, InRect(j, i)', j < y \/ (j = y /\ i < k)
               PROVE  mem'[WordAt(j, i)'] = GPU_DAT
  BY DEF Filled
<1>5. InRect(j, i) /\ WordAt(j, i)' = WordAt(j, i)
  BY <1>2, <1>4
<1>6. mem[WordAt(j, i)] = GPU_DAT
  BY <1>4, <1>5 DEF Filled
<1> QED
  BY <1>1, <1>3, <1>5, <1>6

\* A burst that is done has filled its words.
LEMMA BurstDone ==
  ASSUME Facts, Regs, Driver, Engine, Burst, gpu_state = "G_BURST_WAIT", gpu_done_r
  PROVE  \E k \in 0 .. RowWords - 1 :
           /\ k % BURST_WORDS = 0 /\ cur_col_px = reg_width - 2 * k /\ cur_addr = WordAt(RowAt, k)
           /\ k + BURST_WORDS <= RowWords /\ (k + BURST_WORDS) % BURST_WORDS = 0
           /\ Filled(RowAt, k + BURST_WORDS)
<1>1. PICK k \in 0 .. RowWords - 1 :
        /\ k % BURST_WORDS = 0 /\ cur_col_px = reg_width - 2 * k
        /\ cur_addr = WordAt(RowAt, k) /\ Filled(RowAt, k)
        /\ k + BURST_WORDS <= RowWords /\ (k + BURST_WORDS) % BURST_WORDS = 0
        /\ \A j \in 0 .. BURST_WORDS - 1 :
             InRect(RowAt, k + j) /\ WordAt(RowAt, k + j) = cur_addr + j
  BY BurstInRect
<1>2. \A j \in 0 .. BURST_WORDS - 1 : mem[WordAt(RowAt, k + j)] = GPU_DAT
  BY <1>1 DEF Burst, Stored
<1>3. SUFFICES ASSUME NEW j, NEW i, InRect(j, i), j < RowAt \/ (j = RowAt /\ i < k + BURST_WORDS)
               PROVE  mem[WordAt(j, i)] = GPU_DAT
  BY <1>1 DEF Filled
<1>4. CASE j < RowAt \/ (j = RowAt /\ i < k)
  BY <1>1, <1>3, <1>4 DEF Filled
<1>5. CASE j = RowAt /\ ~(i < k)
  <2>1. i \in Int /\ k \in Int /\ BURST_WORDS \in Int
    BY <1>3, Sizes DEF InRect
  <2>2. i < k + BURST_WORDS
    <3>1. RowAt \in Int
      BY BurstInRect
    <3> QED
      BY <1>3, <1>5, <3>1
  <2>3. i - k \in 0 .. BURST_WORDS - 1 /\ k + (i - k) = i
    BY <1>5, <2>1, <2>2
  <2> QED
    BY <1>2, <1>5, <2>3
<1> QED
  BY <1>3, <1>4, <1>5

LEMMA EngineRuns ==
  ASSUME RoomToStart, Facts, Regs, Driver, Starting, Busy, Engine, Burst, NEW pop, Controller(pop),
         DriverEdge, Running
  PROVE  Engine'
<1>1. /\ gfx = "wait" /\ gfx' = "wait" /\ UNCHANGED regVars
      /\ P_gpu_fsm /\ EngineType
  BY RunningEdge DEF Controller, Facts, MasterInv
<1>2. \A y, k : Filled(y, k) => Filled(y, k)'
  BY <1>1, FilledStep
<1>3. /\ reg_height' = reg_height /\ reg_width' = reg_width /\ RowWords' = RowWords
      /\ \A y, k : WordAt(y, k)' = WordAt(y, k)
  BY <1>1 DEF regVars, RowWords, WordAt
<1>4. /\ reg_height \in Int /\ reg_width \in Int /\ cur_row \in Int /\ BURST_WORDS \in 1 .. 8
      /\ reg_height >= 1 /\ shadow_width = reg_width /\ 0 <= cur_row /\ cur_row <= reg_height
      /\ RowAt \in Int /\ cur_addr \in Adr /\ LINE_WORDS \in Nat
  BY <1>1, Sizes DEF EngineType, Regs, Engine, RowAt
<1>5. RowWords \in Nat /\ RowWords >= BURST_WORDS /\ reg_width = 2 * RowWords /\ RowWords <= LINE_WORDS
  <2>1. reg_width >= 2 * BURST_WORDS /\ reg_width % (2 * BURST_WORDS) = 0 /\ RowWords <= LINE_WORDS
    BY <1>1 DEF Regs
  <2> QED
    BY <1>4, <2>1, BurstsOfRow DEF RowWords
<1>6. PICK p \in Int : \A i \in Int : WordAt(RowAt, i) = p + i /\ WordAt(RowAt + 1, i) = p + LINE_WORDS + i
  BY <1>1, <1>4, RowsOfWords
<1>7. \A a \in Adr : a % ADRS = a
  <2>1. \A m \in Nat \ {0} : \A n \in 0 .. m - 1 : n % m = n
    OBVIOUS
  <2> QED
    BY <2>1, Sizes
<1>8. CASE G_row_setup
  <2>1. /\ gpu_state = "G_ROW_SETUP" /\ UNCHANGED <<shadow_width, cur_row, cur_addr>>
        /\ gpu_state' = IF cur_row = 0 THEN "G_IDLE" ELSE "G_BURST_REQ"
        /\ cur_row # 0 => cur_col_px' = shadow_width
    BY <1>8 DEF G_row_setup
  <2>2. RowAt' = RowAt /\ Filled(RowAt, 0)
    BY <1>3, <2>1 DEF RowAt, Engine
  <2>3. Filled(RowAt, 0)'
    BY <1>2, <2>2 DEF Filled
  <2>4. CASE cur_row = 0
    <3>1. RowAt = reg_height
      BY <1>4, <2>4 DEF RowAt
    <3>2. Filled(reg_height, 0)'
      BY <1>3, <2>2, <2>3, <3>1 DEF Filled
    <3> QED
      BY <2>1, <2>4, <3>2 DEF Engine, Running
  <2>5. CASE cur_row # 0
    <3>1. cur_row > 0 /\ cur_addr = WordAt(RowAt, 0)
      BY <1>4, <2>1, <2>5 DEF Engine
    <3>2. 0 \in 0 .. RowWords - 1 /\ 0 % BURST_WORDS = 0 /\ reg_width = reg_width - 2 * 0
      BY <1>4, <1>5
    <3>3. gpu_state' = "G_BURST_REQ" /\ cur_col_px' = reg_width' - 2 * 0 /\ cur_row' > 0 /\ 0 \in 0 .. RowWords' - 1
      BY <1>3, <1>4, <2>1, <2>5, <3>1, <3>2
    <3>4. cur_addr' = WordAt(RowAt, 0)'
      BY <1>3, <2>1, <2>2, <3>1 DEF WordAt
    <3> QED
      BY <1>1, <1>3, <1>4, <2>1, <2>3, <3>2, <3>3, <3>4 DEF Engine, Running
  <2> QED
    BY <2>4, <2>5
<1>9. CASE G_burst_req \/ (G_burst_wait /\ ~gpu_done_r)
  <2>1. /\ gpu_state \in {"G_BURST_REQ", "G_BURST_WAIT"} /\ gpu_state' = "G_BURST_WAIT"
        /\ UNCHANGED <<shadow_width, cur_row, cur_col_px, cur_addr>>
    BY <1>9 DEF G_burst_req, G_burst_wait
  <2>2. PICK k \in 0 .. RowWords - 1 : /\ k % BURST_WORDS = 0 /\ cur_col_px = reg_width - 2 * k
                                       /\ cur_addr = WordAt(RowAt, k) /\ Filled(RowAt, k)
    BY <2>1 DEF Engine
  <2>3. RowAt' = RowAt /\ cur_row' > 0
    BY <1>3, <2>1 DEF RowAt, Engine
  <2>4. Filled(RowAt, k)'
    BY <1>2, <2>2, <2>3 DEF Filled
  <2>5. cur_addr' = WordAt(RowAt, k)' /\ cur_col_px' = reg_width' - 2 * k /\ k \in 0 .. RowWords' - 1
    BY <1>3, <2>1, <2>2, <2>3 DEF WordAt
  <2> QED
    BY <1>1, <1>3, <1>4, <2>1, <2>2, <2>3, <2>4, <2>5 DEF Engine, Running
<1>10. CASE G_burst_wait /\ gpu_done_r
  <2>1. /\ gpu_state = "G_BURST_WAIT" /\ gpu_done_r /\ UNCHANGED <<shadow_width, cur_row>>
        /\ cur_addr' = (cur_addr + BURST_WORDS) % ADRS
        /\ IF cur_col_px > 2 * BURST_WORDS
           THEN cur_col_px' = cur_col_px - 2 * BURST_WORDS /\ gpu_state' = "G_BURST_REQ"
           ELSE gpu_state' = "G_ROW_NEXT" /\ UNCHANGED cur_col_px
    BY <1>10 DEF G_burst_wait
  <2>2. PICK k \in 0 .. RowWords - 1 :
          /\ k % BURST_WORDS = 0 /\ cur_col_px = reg_width - 2 * k /\ cur_addr = WordAt(RowAt, k)
          /\ k + BURST_WORDS <= RowWords /\ (k + BURST_WORDS) % BURST_WORDS = 0
          /\ Filled(RowAt, k + BURST_WORDS)
    BY <2>1, BurstDone
  <2>3. RowAt' = RowAt /\ cur_row > 0 /\ RowAt \in 0 .. reg_height - 1
    BY <1>3, <2>1, BurstInRect DEF RowAt, Engine
  <2>4. k \in Nat /\ cur_addr = p + k /\ cur_addr + BURST_WORDS = p + (k + BURST_WORDS)
        /\ cur_addr \in Nat
    <3>1. k \in Nat
      BY <1>5
    <3>2. cur_addr = p + k
      BY <1>6, <2>2, <3>1
    <3>3. cur_addr \in Nat
      BY <1>4, Sizes
    <3> QED
      BY <1>4, <3>1, <3>2, <3>3
  <2>5. PICK m \in Nat : m = k + BURST_WORDS
    BY <1>4, <2>4
  <2>6. CASE cur_col_px > 2 * BURST_WORDS
    <3>1. m \in 0 .. RowWords - 1 /\ reg_width - 2 * m = cur_col_px - 2 * BURST_WORDS
      BY <1>4, <1>5, <2>2, <2>4, <2>5, <2>6
    <3>2. InRect(RowAt, m)
      BY <2>3, <3>1 DEF InRect
    <3>3. WordAt(RowAt, m) \in Adr /\ WordAt(RowAt, m) = cur_addr + BURST_WORDS
      BY <1>1, <1>6, <2>4, <2>5, <3>2 DEF Regs
    <3>4. cur_addr' = WordAt(RowAt, m)
      BY <1>7, <2>1, <3>3
    <3>5. Filled(RowAt, m)'
      BY <1>2, <2>2, <2>3, <2>5 DEF Filled
    <3>6. cur_addr' = WordAt(RowAt, m)' /\ cur_col_px' = reg_width' - 2 * m /\ m \in 0 .. RowWords' - 1
      BY <1>3, <2>1, <2>3, <2>6, <3>1, <3>4 DEF WordAt
    <3> QED
      BY <1>1, <1>3, <1>4, <2>1, <2>2, <2>3, <2>5, <2>6, <3>5, <3>6 DEF Engine, Running
  <2>7. CASE ~(cur_col_px > 2 * BURST_WORDS)
    <3>1. m = RowWords
      BY <1>4, <1>5, <2>2, <2>4, <2>5, <2>7
    <3>2. Filled(RowAt + 1, 0)'
      <4>1. Filled(RowAt + 1, 0)
        <5> SUFFICES ASSUME NEW j, NEW i, InRect(j, i), j < RowAt + 1 \/ (j = RowAt + 1 /\ i < 0)
                     PROVE  mem[WordAt(j, i)] = GPU_DAT
          BY DEF Filled
        <5>1. j \in Int /\ i \in Int /\ i >= 0 /\ i < RowWords
          BY <1>4, <1>5 DEF InRect
        <5>2. j < RowAt \/ (j = RowAt /\ i < m)
          BY <1>4, <3>1, <5>1
        <5> QED
          BY <2>2, <2>5, <5>2 DEF Filled
      <4> QED
        BY <1>2, <2>3, <4>1 DEF Filled
    <3>3. cur_row > 1 => cur_addr' = WordAt(RowAt, RowWords)'
      <4> HAVE cur_row > 1
      <4>1. InRect(RowAt + 1, 0)
        BY <1>4, <1>5 DEF InRect, RowAt
      <4>2. WordAt(RowAt + 1, 0) \in Adr
        BY <1>1, <4>1 DEF Regs
      <4>3. cur_addr + BURST_WORDS <= WordAt(RowAt + 1, 0) /\ cur_addr + BURST_WORDS = WordAt(RowAt, RowWords)
        BY <1>4, <1>5, <1>6, <2>4, <2>5, <3>1
      <4>4. cur_addr + BURST_WORDS \in Adr
        BY <1>4, <2>4, <4>2, <4>3, Sizes
      <4>5. cur_addr' = WordAt(RowAt, RowWords)
        BY <1>7, <2>1, <4>3, <4>4
      <4> QED
        BY <1>3, <2>3, <4>5 DEF WordAt
    <3> QED
      BY <1>1, <1>3, <1>4, <2>1, <2>3, <2>7, <3>2, <3>3 DEF Engine, Running
  <2> QED
    BY <2>6, <2>7
<1>11. CASE G_row_next
  <2>1. /\ gpu_state = "G_ROW_NEXT" /\ gpu_state' = "G_ROW_SETUP" /\ cur_row' = cur_row - 1
        /\ cur_addr' = (cur_addr + FB_W \div 2 - shadow_width \div 2) % ADRS /\ UNCHANGED shadow_width
    BY <1>11 DEF G_row_next
  <2>2. cur_row > 0 /\ Filled(RowAt + 1, 0) /\ (cur_row > 1 => cur_addr = WordAt(RowAt, RowWords))
    BY <2>1 DEF Engine
  <2>3. RowAt' = RowAt + 1 /\ cur_row' \in Int /\ 0 <= cur_row' /\ cur_row' <= reg_height'
    BY <1>3, <1>4, <2>1, <2>2 DEF RowAt
  <2>4. Filled(RowAt, 0)'
    BY <1>2, <2>2, <2>3 DEF Filled
  <2>5. cur_row' > 0 => cur_addr' = WordAt(RowAt, 0)'
    <3> HAVE cur_row' > 0
    <3>1. cur_row > 1
      BY <1>4, <2>1
    <3>2. InRect(RowAt + 1, 0)
      BY <1>4, <1>5, <3>1 DEF InRect, RowAt
    <3>3. WordAt(RowAt + 1, 0) \in Adr
      BY <1>1, <3>2 DEF Regs
    <3>4. shadow_width \div 2 = RowWords /\ FB_W \div 2 = LINE_WORDS
      BY <1>4, Sizes DEF RowWords
    <3>5. cur_addr + LINE_WORDS - RowWords = WordAt(RowAt + 1, 0)
      BY <1>4, <1>5, <1>6, <2>2, <3>1
    <3>6. cur_addr' = WordAt(RowAt + 1, 0)
      BY <1>7, <2>1, <3>3, <3>4, <3>5
    <3> QED
      BY <1>3, <2>3, <3>6 DEF WordAt
  <2> QED
    BY <1>1, <1>3, <1>4, <2>1, <2>3, <2>4, <2>5 DEF Engine, Running
<1> QED
  BY <1>1, <1>8, <1>9, <1>10, <1>11 DEF P_gpu_fsm, G_idle, Running

\* What an edge of the driver leaves of a rectangle.
LEMMA DriverKeeps ==
  ASSUME RoomToStart, Driver, Starting, Busy, Engine, DriverEdge, P_cdc_start, phase \in 0 .. 3
  PROVE  \/ \E r \in RECTS : Fill(r)
         \/ /\ UNCHANGED <<regVars, painted>>
            /\ gfx' = "idle" => gfx = "idle" \/ (~Running /\ Filled(reg_height, 0))
            /\ gfx' # "idle" => gfx # "idle"
            /\ gfx' = "wait" /\ poll_gap' <= POLL_GAP - 2 /\ ~Running /\ ~Fire(start_sync) =>
                 Filled(reg_height, 0)
<1>1. poll_gap \in 0 .. POLL_GAP /\ POLL_GAP \in Nat /\ POLL_GAP >= 5 /\ start_sync \in Chain
  BY VideoAssumption DEF Driver, RoomToStart
<1>2. ASSUME gfx = "wait", poll_gap <= POLL_GAP - 2, ~Running PROVE Filled(reg_height, 0)
  BY <1>2 DEF Engine
<1>3. CASE Fast
  BY <1>2, <1>3 DEF Fast, driverVars
<1>4. CASE Gpu_none /\ UNCHANGED painted
  BY <1>4 DEF Gpu_none
<1>5. CASE Gpu_start /\ UNCHANGED painted
  <2>1. poll_gap' = POLL_GAP /\ ~(poll_gap' <= POLL_GAP - 2)
    BY <1>1, <1>5 DEF Gpu_start
  <2> QED
    BY <1>5, <2>1 DEF Gpu_start
<1>6. CASE Slow /\ Gpu_wait /\ UNCHANGED painted
  <2>1. /\ gfx = "wait" /\ UNCHANGED regVars
        /\ IF poll_gap > 0 THEN poll_gap' = poll_gap - 1 /\ UNCHANGED gfx
           ELSE gfx' = (IF busy_sync[3] THEN "wait" ELSE "idle") /\ UNCHANGED poll_gap
    BY <1>6 DEF Gpu_wait
  <2>2. gfx' = "idle" => ~Running /\ Filled(reg_height, 0)
    <3> HAVE gfx' = "idle"
    <3>1. poll_gap = 0 /\ ~busy_sync[3] /\ poll_gap <= POLL_GAP - 2 /\ poll_gap <= POLL_GAP - 5
      BY <1>1, <2>1
    <3> QED
      BY <1>2, <2>1, <3>1 DEF Busy
  <2>3. ASSUME gfx' = "wait", poll_gap' <= POLL_GAP - 2, ~Running, ~Fire(start_sync)
        PROVE  Filled(reg_height, 0)
    <3>1. poll_gap <= POLL_GAP - 2 \/ poll_gap = POLL_GAP - 1
      BY <1>1, <2>1, <2>3
    <3>2. poll_gap # POLL_GAP - 1
      <4> SUFFICES ASSUME poll_gap = POLL_GAP - 1 PROVE FALSE
        OBVIOUS
      <4>1. start_sync[3] /\ ~start_sync[4]
        BY <1>6, <2>1, <2>3 DEF Slow, Starting
      <4> QED
        BY <1>1, <2>3, <4>1 DEF Fire, Chain
    <3> QED
      BY <1>2, <2>1, <2>3, <3>1, <3>2
  <2> QED
    BY <1>6, <2>1, <2>2, <2>3
<1> QED
  BY <1>3, <1>4, <1>5, <1>6 DEF DriverEdge

LEMMA EngineStep ==
  ASSUME RoomToStart, Facts, Regs, Driver, Starting, Busy, Engine, Burst, NEW pop, Controller(pop),
         DriverEdge
  PROVE  Engine'
<1>1. P_gpu_fsm /\ P_cdc_start /\ EngineType /\ phase \in 0 .. 3
  BY DEF Controller, Facts, MasterInv, FetchType
<1>2. CASE Running
  BY <1>2, EngineRuns
<1>3. CASE ~Running /\ Fire(start_sync)
  <2>1. gfx = "wait" /\ UNCHANGED regVars /\ gfx' = "wait"
    BY <1>1, <1>3, StartEdge
  <2>2. /\ shadow_width' = reg_width /\ cur_row' = reg_height /\ cur_addr' = reg_dst
        /\ gpu_state' = "G_ROW_SETUP"
    BY <1>1, <1>3 DEF P_gpu_fsm, G_idle, G_row_setup, G_burst_req, G_burst_wait, G_row_next, Running
  <2>3. reg_height \in Int /\ reg_height >= 1 /\ reg_dst \in Int /\ LINE_WORDS \in Int
    BY <1>1, <2>1, Sizes DEF EngineType, Regs
  <2>4. RowAt' = 0
    BY <2>1, <2>2, <2>3 DEF RowAt, regVars
  <2>5. cur_addr' = WordAt(RowAt, 0)'
    <3>1. \A d, l \in Int : d + 0 * l + 0 = d
      OBVIOUS
    <3>2. WordAt(RowAt, 0)' = reg_dst + 0 * LINE_WORDS + 0
      BY <2>1, <2>4 DEF WordAt, regVars
    <3> QED
      BY <2>2, <2>3, <3>1, <3>2
  <2>6. Filled(RowAt, 0)'
    <3>1. \A j, i : ~(InRect(j, i)' /\ (j < 0 \/ (j = 0 /\ i < 0)))
      BY DEF InRect
    <3> QED
      BY <2>4, <3>1 DEF Filled
  <2> QED
    BY <2>1, <2>2, <2>3, <2>5, <2>6 DEF Engine, Running, regVars
<1>4. CASE ~Running /\ ~Fire(start_sync)
  <2>1. ~Running' /\ gpu_state' = "G_IDLE"
    BY <1>1, <1>4, EngineGoes DEF Running
  <2>2. gfx' = "wait" /\ poll_gap' <= POLL_GAP - 2 => Filled(reg_height, 0)'
    <3> HAVE gfx' = "wait" /\ poll_gap' <= POLL_GAP - 2
    <3>1. UNCHANGED regVars /\ gfx # "idle" /\ Filled(reg_height, 0)
      BY <1>1, <1>4, DriverKeeps DEF Fill, Gfx_fill_rect, Gpu_fill_rect
    <3>2. PICK h : h = reg_height
      OBVIOUS
    <3>3. Filled(h, 0)'
      BY <3>1, <3>2, FilledStep
    <3> QED
      BY <3>1, <3>2, <3>3 DEF Filled, regVars
  <2> QED
    BY <2>1, <2>2 DEF Engine
<1> QED
  BY <1>2, <1>3, <1>4

\* A rectangle asked for.
LEMMA NewRect ==
  ASSUME EngineInRow, NEW r \in RECTS, Fill(r)
  PROVE  /\ Words(Clipped(r)) \subseteq Adr
         /\ \A a \in Words(Clipped(r)) : \E y, k : InRect(y, k)' /\ a = WordAt(y, k)'
         /\ Regs'
<1> DEFINE c == Clipped(r)
<1>1. Accelerated(c) /\ Gpu_fill_rect(c) /\ painted' = painted \cup Words(c)
  BY DEF Fill, Gfx_fill_rect
<1>2. OnScreen(c)
  BY <1>1, ClippedFits
<1>3. \A y \in 0 .. c.h - 1, k \in 0 .. (c.w \div 2) - 1 :
        k % BURST_WORDS = 0 => InRow(LineWord(c.y + y, c.x \div 2 + k))
  BY <1>1 DEF EngineInRow
<1> HIDE DEF c
<1>4. /\ reg_dst' = LineWord(c.y, c.x \div 2) /\ reg_width' = c.w /\ reg_height' = c.h
      /\ RowWords' = c.w \div 2
  BY <1>1, <1>2, FirstWord DEF Gpu_fill_rect, RowWords
<1>5. \A y, k : /\ InRect(y, k)' <=> y \in 0 .. c.h - 1 /\ k \in 0 .. (c.w \div 2) - 1
                /\ WordAt(y, k)' = LineWord(c.y, c.x \div 2) + y * LINE_WORDS + k
  BY <1>4 DEF InRect, WordAt
<1>6. \A y, k : InRect(y, k)' =>
        /\ WordAt(y, k)' = LineWord(c.y + y, c.x \div 2 + k)
        /\ WordAt(y, k)' \in Words(c) /\ WordAt(y, k)' \in Adr
  BY <1>2, <1>5, WordsOfRect
<1>7. \A a \in Words(c) : \E y, k : InRect(y, k)' /\ a = WordAt(y, k)'
  <2> TAKE a \in Words(c)
  <2>1. PICK y \in 0 .. c.h - 1, k \in 0 .. (c.w \div 2) - 1 :
          a = LineWord(c.y, c.x \div 2) + y * LINE_WORDS + k
    BY <1>2, WordsOfRect
  <2> QED
    BY <1>5, <2>1
<1>8. Words(c) \subseteq Adr
  BY <1>6, <1>7
<1>9. Regs'
  <2>1. reg_height' >= 1 /\ reg_width' >= 2 * BURST_WORDS /\ reg_width' % (2 * BURST_WORDS) = 0
    BY <1>2, <1>4 DEF OnScreen
  <2>2. RowWords' <= LINE_WORDS
    BY <1>2, <1>4, WordsOfRect
  <2>3. \A y, k : InRect(y, k)' => /\ WordAt(y, k)' \in painted' /\ WordAt(y, k)' \in Adr
                                   /\ k % BURST_WORDS = 0 => InRow(WordAt(y, k)')
    BY <1>1, <1>3, <1>5, <1>6
  <2> QED
    BY <2>1, <2>2, <2>3 DEF Regs, InRow
<1> QED
  BY <1>7, <1>8, <1>9 DEF c

LEMMA RectStep ==
  ASSUME RoomToStart, EngineInRow, Facts, Regs, Driver, Starting, Busy, Engine, Burst, Painted,
         NEW pop, Controller(pop), DriverEdge
  PROVE  Regs' /\ Painted'
<1>1. P_cdc_start /\ phase \in 0 .. 3 /\ (Running => gfx = "wait")
  BY DEF Controller, Facts, MasterInv, FetchType, Driver
<1>2. CASE \E r \in RECTS : Fill(r)
  <2>1. PICK r \in RECTS : Fill(r)
    BY <1>2
  <2> DEFINE w == Words(Clipped(r))
  <2>2. w \subseteq Adr /\ Regs' /\ \A a \in w : \E y, k : InRect(y, k)' /\ a = WordAt(y, k)'
    BY <2>1, NewRect
  <2> HIDE DEF w
  <2>3. gfx = "idle" /\ gfx' # "idle" /\ painted' = painted \cup w
    BY <2>1 DEF Fill, Gfx_fill_rect, Gpu_fill_rect, w
  <2>4. ~Running
    BY <1>1, <2>3
  <2>5. mem' = mem
    BY <2>4, NoWriting DEF Running
  <2> QED
    BY <2>2, <2>3, <2>5 DEF Painted
<1>3. CASE /\ UNCHANGED <<regVars, painted>>
           /\ gfx' = "idle" => gfx = "idle" \/ (~Running /\ Filled(reg_height, 0))
           /\ gfx' # "idle" => gfx # "idle"
  <2>1. Regs'
    <3> SUFFICES ASSUME gfx' # "idle" PROVE Regs'
      BY DEF Regs
    <3>1. gfx # "idle"
      BY <1>3
    <3> QED
      BY <1>3, <3>1 DEF Regs, regVars, InRect, WordAt, RowWords, InRow
  <2>2. ASSUME NEW a \in Adr \ painted PROVE mem'[a] = POWER_UP_MEM[a]
    <3>1. mem[a] = POWER_UP_MEM[a]
      BY <2>2 DEF Painted
    <3>2. CASE mem'[a] # mem[a]
      <4>1. Running /\ \E y, k : InRect(y, k) /\ a = WordAt(y, k)
        BY <2>2, <3>2, MemPaint
      <4> QED
        BY <1>1, <2>2, <4>1 DEF Regs
    <3> QED
      BY <3>1, <3>2
  <2>3. ASSUME NEW a \in painted
        PROVE  mem'[a] = GPU_DAT \/ (gfx' # "idle" /\ \E y, k : InRect(y, k)' /\ a = WordAt(y, k)')
    <3>1. mem[a] = GPU_DAT => mem'[a] = GPU_DAT
      BY <2>3, MemPaint DEF Painted
    <3>2. CASE gfx # "idle" /\ \E y, k : InRect(y, k) /\ a = WordAt(y, k)
      <4>1. PICK y, k : InRect(y, k) /\ a = WordAt(y, k)
        BY <3>2
      <4>2. CASE gfx' # "idle"
        BY <1>3, <4>1, <4>2 DEF regVars, InRect, WordAt, RowWords
      <4>3. CASE gfx' = "idle"
        <5>1. Filled(reg_height, 0)
          BY <1>3, <3>2, <4>3
        <5>2. y < reg_height
          BY <4>1 DEF InRect, Facts, MasterInv, EngineType
        <5> QED
          BY <3>1, <4>1, <5>1, <5>2 DEF Filled
      <4> QED
        BY <4>2, <4>3
    <3> QED
      BY <2>3, <3>1, <3>2 DEF Painted
  <2> QED
    BY <1>3, <2>1, <2>2, <2>3 DEF Painted
<1> QED
  BY <1>1, <1>2, <1>3, DriverKeeps

(***************************************************************************)
(* The inductive invariant for the rectangles.                             *)
(***************************************************************************)
FillInv == Regs /\ Driver /\ Starting /\ Flushing /\ Busy /\ Engine /\ Burst /\ Painted

LEMMA FillInit == Init => FillInv
<1> SUFFICES ASSUME Init PROVE FillInv
  OBVIOUS
<1>1. /\ gfx = "idle" /\ poll_gap = 0 /\ start_toggle = FALSE /\ start_sync = Flat(FALSE)
      /\ busy_sync = [i \in 1 .. 3 |-> FALSE] /\ busy_100m = FALSE /\ gpu_state = "G_IDLE"
      /\ painted = {} /\ mem = POWER_UP_MEM /\ state = "S_INIT" /\ cmd = "NOP"
      /\ gpu_wr_valid = FALSE /\ gpu_done_r = FALSE
  BY DEF Init, Gpu2DInit, CtrlInit, ChipInit
<1>2. Driver
  <2>1. Flat(FALSE) \in Chain
    BY DEF Flat, Chain
  <2>2. 0 \in 0 .. POLL_GAP
    BY VideoAssumption
  <2> QED
    BY <1>1, <2>1, <2>2 DEF Driver, Running
<1>3. Starting
  BY <1>1 DEF Starting, StartFlat, Flat
<1>4. Busy
  BY <1>1 DEF Busy, Running
<1>5. Burst
  BY <1>1 DEF Burst
<1> QED
  BY <1>1, <1>2, <1>3, <1>4, <1>5 DEF FillInv, Regs, Flushing, Engine, Running, Painted

LEMMA FillInvStep ==
  ASSUME RoomToStart, EngineInRow, Facts, Facts', Modes, FillInv, [Next]_vars
  PROVE  FillInv'
<1>1. CASE UNCHANGED vars
  <2>1. Regs' /\ Driver' /\ Starting' /\ Flushing' /\ Busy'
    BY <1>1 DEF vars, driverVars, regVars, gpuVars, boardVars, FillInv, Regs, Driver, Starting, Flushing, Busy,
                Running, StartFlat, InRect, WordAt, RowWords, InRow
  <2>2. Engine'
    BY <1>1 DEF vars, driverVars, regVars, gpuVars, chipVars, boardVars, FillInv, Engine, Running, Filled, RowAt,
                InRect, WordAt, RowWords
  <2>3. Burst'
    BY <1>1 DEF vars, ctrlVars, pins, gpuVars, chipVars, FillInv, Burst, Stored, BurstCol
  <2>4. Painted'
    BY <1>1 DEF vars, driverVars, regVars, chipVars, boardVars, FillInv, Painted, InRect, WordAt, RowWords
  <2> QED
    BY <2>1, <2>2, <2>3, <2>4 DEF FillInv
<1>2. ASSUME NEW pop \in BOOLEAN, Controller(pop), DriverEdge, P_cdc_busy \/ UNCHANGED busy_sync,
             mode_en => mode_en'
      PROVE  FillInv'
  <2>1. Driver' /\ Starting'
    BY <1>2, StartingStep DEF FillInv
  <2>2. Flushing'
    BY <1>2, FlushingStep DEF FillInv
  <2>3. Busy'
    BY <1>2, BusyStep DEF FillInv
  <2>4. Engine'
    BY <1>2, EngineStep DEF FillInv
  <2>5. Burst'
    BY <1>2, BurstStep DEF FillInv
  <2>6. Regs' /\ Painted'
    BY <1>2, RectStep DEF FillInv
  <2> QED
    BY <2>1, <2>2, <2>3, <2>4, <2>5, <2>6 DEF FillInv
<1>3. CASE FastEdge
  <2>1. Controller(FALSE) /\ DriverEdge /\ UNCHANGED <<busy_sync, mode_en>>
    BY <1>3, EveryEdge, DriverEdges DEF FastEdge
  <2> QED
    BY <1>2, <2>1
<1>4. ASSUME NEW pop \in BOOLEAN, Edge50(pop) PROVE FillInv'
  <2>1. Controller(pop) /\ DriverEdge /\ P_cdc_busy
    BY <1>4, EveryEdge, DriverEdges DEF Edge50, VideoReturns
  <2>2. mode_en => mode_en'
    BY <1>4 DEF Edge50, VideoCpuEdge, Program, Fill, Fb_init
  <2> QED
    BY <1>2, <2>1, <2>2
<1> QED
  BY <1>1, <1>3, <1>4, Edges

LEMMA ModesAlways ==
  ASSUME WholeBursts
  PROVE  Spec => []Modes
<1>1. Facts /\ Facts' /\ Modes /\ [Next]_vars => Modes'
  BY ModesStep
<1> QED
  BY <1>1, ModesInit, FactsAlways, PTL DEF Spec

(***************************************************************************)
(* The rectangles are filled, and nothing else is, for every size of the   *)
(* screen and every list of rectangles: gfx_fill_rect clips, the pulse of  *)
(* start_toggle crosses and starts the engine once, the engine steps by    *)
(* differences through its bursts and rows, each burst of the controller   *)
(* stores eight words at its address, and gpu_wait does not return before  *)
(* the last one is stored.                                                 *)
(***************************************************************************)
THEOREM FillSafe ==
  ASSUME WholeBursts, EngineInRow, RoomToStart
  PROVE  Spec => []FillExact
<1>1. Facts /\ Facts' /\ Modes /\ FillInv /\ [Next]_vars => FillInv'
  BY FillInvStep
<1>2. FillInv => FillExact
  BY DEF FillInv, Painted, FillExact
<1> QED
  BY <1>1, <1>2, FillInit, FactsAlways, ModesAlways, PTL DEF Spec

-----------------------------------------------------------------------------
(***************************************************************************)
(* When no burst crosses the end of a row: a row is a whole number of      *)
(* bursts, and all that is shown and painted starts at a multiple of one.  *)
(***************************************************************************)
Aligned == COLS % BURST_WORDS = 0 /\ FB_BASE % BURST_WORDS = 0

AlignedRects ==
  \A r \in RECTS : Accelerated(Clipped(r)) => Clipped(r).x % (2 * BURST_WORDS) = 0

LEMMA Multiples ==
  ASSUME NEW m \in 1 .. 8
  PROVE  /\ \A a \in Int : a % m = 0 => a = m * (a \div m) /\ a \div m \in Int
         /\ \A a \in Int : (m * a) % m = 0
         /\ \A a \in Int : a % (2 * m) = 0 => (a \div 2) % m = 0
         /\ \A a, b \in Int : a >= 0 /\ a < b /\ a % m = 0 /\ b % m = 0 => a + m <= b
         /\ \A a, b \in Int : a % m = 0 /\ b % m = 0 => (a + b) % m = 0 /\ (a - b) % m = 0
<1>1. m \in {1, 2, 3, 4, 5, 6, 7, 8}
  OBVIOUS
<1>2. CASE m = 1
  BY <1>2
<1>3. CASE m = 2
  BY <1>3
<1>4. CASE m = 3
  BY <1>4
<1>5. CASE m = 4
  BY <1>5
<1>6. CASE m = 5
  BY <1>6
<1>7. CASE m = 6
  BY <1>7
<1>8. CASE m = 7
  BY <1>8
<1>9. CASE m = 8
  BY <1>9
<1> QED
  BY <1>1, <1>2, <1>3, <1>4, <1>5, <1>6, <1>7, <1>8, <1>9

LEMMA MultipleTimes ==
  ASSUME NEW m \in 1 .. 8, NEW a \in Int, NEW b \in Int, a % m = 0
  PROVE  (a * b) % m = 0 /\ a * b \in Int
<1>1. PICK k \in Int : a = m * k
  BY Multiples
<1>2. \A x, y, z \in Int : (x * y) * z = x * (y * z) /\ y * z \in Int
  OBVIOUS
<1>3. a * b = m * (k * b) /\ k * b \in Int
  BY <1>1, <1>2
<1>4. (m * (k * b)) % m = 0
  BY <1>3, Multiples
<1>5. a * b \in Int
  OBVIOUS
<1> QED
  BY <1>3, <1>4, <1>5

LEMMA Division ==
  ASSUME NEW n \in Nat \ {0}, NEW x \in Nat
  PROVE  x % n \in 0 .. n - 1 /\ x \div n \in Int /\ (x \div n) * n + (x % n) = x
<1>1. x % n \in 0 .. n - 1
  OBVIOUS
<1>2. x \div n \in Int
  OBVIOUS
<1>3. (x \div n) * n + (x % n) = x
  OBVIOUS
<1> QED
  BY <1>1, <1>2, <1>3

LEMMA AlignedInRow ==
  ASSUME Aligned, NEW a \in Adr, a % BURST_WORDS = 0
  PROVE  InRow(a)
<1>1. COLS \in Nat \ {0} /\ BURST_WORDS \in 1 .. 8 /\ a \in Nat
  BY Sizes
<1>2. a \div COLS \in Int /\ (a \div COLS) * COLS + (a % COLS) = a /\ a % COLS \in 0 .. COLS - 1
  BY <1>1, Division
<1>3. PICK q \in Int, r \in 0 .. COLS - 1 : a = COLS * q + r /\ r = a % COLS
  <2>1. PICK q \in Int, r \in 0 .. COLS - 1 : q * COLS + r = a /\ r = a % COLS
    BY <1>2
  <2>2. \A x, y \in Int : x * y = y * x
    OBVIOUS
  <2>3. q * COLS = COLS * q
    BY <1>1, <2>2
  <2>4. a = COLS * q + r
    BY <2>1, <2>3
  <2> QED
    BY <2>1, <2>4
<1>4. (COLS * q) % BURST_WORDS = 0 /\ COLS * q \in Int
  <2>1. COLS \in Int /\ q \in Int /\ COLS % BURST_WORDS = 0
    BY <1>1 DEF Aligned
  <2> QED
    BY <1>1, <2>1, MultipleTimes
<1>5. r = a - COLS * q
  BY <1>1, <1>3, <1>4
<1>6. r % BURST_WORDS = 0
  <2>1. a \in Int
    BY <1>1
  <2> QED
    BY <1>1, <1>4, <1>5, <2>1, Multiples
<1>7. r + BURST_WORDS <= COLS
  <2>1. r \in Int /\ COLS \in Int /\ r >= 0 /\ r < COLS /\ COLS % BURST_WORDS = 0
    BY <1>1, <1>3 DEF Aligned
  <2> QED
    BY <1>1, <1>6, <2>1, Multiples
<1> QED
  BY <1>3, <1>7 DEF InRow, ColOf

LEMMA AlignedWord ==
  ASSUME WholeBursts, Aligned, NEW l \in Line, NEW i \in 0 .. LINE_WORDS - 1, i % BURST_WORDS = 0
  PROVE  InRow(LineWord(l, i))
<1>1. l \in Int /\ i \in Int /\ BURST_WORDS \in 1 .. 8 /\ LINE_WORDS \in Int /\ FB_BASE \in Int
  BY Sizes DEF Line
<1>2. (LINE_WORDS * l) % BURST_WORDS = 0 /\ LINE_WORDS * l \in Int
  BY <1>1, MultipleTimes DEF WholeBursts
<1>3. PICK q \in Int : q = LINE_WORDS * l /\ l * LINE_WORDS = q /\ q % BURST_WORDS = 0
  <2>1. \A x, y \in Int : x * y = y * x
    OBVIOUS
  <2> QED
    BY <1>1, <1>2, <2>1
<1>4. FB_BASE + q \in Int /\ (FB_BASE + q) % BURST_WORDS = 0
  <2>1. FB_BASE \in Int /\ FB_BASE % BURST_WORDS = 0
    BY <1>1 DEF Aligned
  <2>2. (FB_BASE + q) % BURST_WORDS = 0
    BY <1>1, <1>3, <2>1, Multiples
  <2> QED
    BY <1>1, <2>2
<1>5. ((FB_BASE + q) + i) % BURST_WORDS = 0
  BY <1>1, <1>4, Multiples
<1>6. LineWord(l, i) % BURST_WORDS = 0
  BY <1>3, <1>5 DEF LineWord
<1> QED
  BY <1>6, WordsOfLines, AlignedInRow

(***************************************************************************)
(* On the board a row has 1024 columns, a line 320 words, and the frame    *)
(* buffer is at the word address 0x01800000: the reader never meets the    *)
(* end of a row, nor does the engine for x at a multiple of 16 pixels.     *)
(***************************************************************************)
THEOREM BurstsInRow ==
  ASSUME WholeBursts, Aligned
  PROVE  ReaderInRow /\ (AlignedRects => EngineInRow)
<1>1. ReaderInRow
  BY AlignedWord DEF ReaderInRow
<1>2. ASSUME AlignedRects PROVE EngineInRow
  <2> SUFFICES ASSUME NEW r \in RECTS, Accelerated(Clipped(r)),
                      NEW y \in 0 .. Clipped(r).h - 1, NEW k \in 0 .. (Clipped(r).w \div 2) - 1,
                      k % BURST_WORDS = 0
               PROVE  InRow(LineWord(Clipped(r).y + y, Clipped(r).x \div 2 + k))
    BY DEF EngineInRow
  <2> DEFINE c == Clipped(r)
  <2>1. OnScreen(c) /\ c.x % (2 * BURST_WORDS) = 0
    BY <1>2, ClippedFits DEF AlignedRects
  <2>2. y \in 0 .. c.h - 1 /\ k \in 0 .. (c.w \div 2) - 1
    OBVIOUS
  <2> HIDE DEF c
  <2>3. /\ c.x \in Int /\ c.y \in Int /\ c.w \in Int /\ c.h \in Int /\ c.x >= 0 /\ c.y >= 0
        /\ c.x % 2 = 0 /\ c.w >= 2 * BURST_WORDS /\ c.w % (2 * BURST_WORDS) = 0
        /\ c.x + c.w <= FB_W /\ c.y + c.h <= LINES
    BY <2>1 DEF OnScreen, Rect
  <2>4. BURST_WORDS \in 1 .. 8 /\ FB_W = 2 * LINE_WORDS /\ LINE_WORDS \in Int /\ LINES \in Int
    BY Sizes
  <2>5. c.w = 2 * (c.w \div 2) /\ c.w \div 2 \in Nat
    BY <2>3, <2>4, BurstsOfRow
  <2>6. PICK m \in Int : m = c.x \div 2 /\ c.x = 2 * m
    <3>1. \A x \in Int : x % 2 = 0 => x = 2 * (x \div 2) /\ x \div 2 \in Int
      OBVIOUS
    <3> QED
      BY <2>3, <3>1
  <2>7. m % BURST_WORDS = 0
    BY <2>1, <2>3, <2>4, <2>6, Multiples
  <2>8. (m + k) % BURST_WORDS = 0
    <3>1. k \in Int /\ k % BURST_WORDS = 0
      BY <2>2, <2>5
    <3> QED
      BY <2>4, <2>6, <2>7, <3>1, Multiples
  <2>9. c.y + y \in Line /\ m + k \in 0 .. LINE_WORDS - 1
    BY <2>2, <2>3, <2>4, <2>5, <2>6 DEF Line
  <2>10. InRow(LineWord(c.y + y, m + k))
    BY <2>8, <2>9, AlignedWord
  <2> QED
    BY <2>6, <2>10 DEF c
<1> QED
  BY <1>1, <1>2
=============================================================================
