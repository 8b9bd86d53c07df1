------------------------------- MODULE Gpu2D -------------------------------
(***************************************************************************)
(* gpu_2d.vhd, the engine that fills rectangles, and the driver above it,  *)
(* gfx_fill_rect of gfx.c with gpu_fill_rect and gpu_wait of gpu.c.  The   *)
(* registers are 50 MHz, the engine 100 MHz.  There is one colour, the     *)
(* controller's GPU_DAT.                                                   *)
(***************************************************************************)
EXTENDS SdramCtrl

CONSTANTS
  FB_W, FB_H,  \* size of the screen in pixels, two to a word
  FB_ADR,      \* FRAMEBUFFER_BASE as a word address
  POLL_GAP     \* 50 MHz edges from the store to CONTROL to the next load of STATUS

ADRS == 4 * ROWS * COLS    \* word addresses wrap here (25 bits on the board)

VARIABLES
  \* registers of the engine, 50 MHz
  reg_dst, reg_width, reg_height,    \* word address, pixels, rows
  start_toggle, busy_sync,
  \* engine, 100 MHz
  start_sync, busy_100m, gpu_state, shadow_width, cur_row, cur_col_px, cur_addr,
  gpu_wr_req, gpu_wr_adr,
  \* driver
  gfx,         \* "idle", "start": registers written, "wait": in gpu_wait
  poll_gap

regVars == <<reg_dst, reg_width, reg_height>>
gpuVars == <<start_sync, busy_100m, gpu_state, shadow_width, cur_row, cur_col_px,
             cur_addr, gpu_wr_req, gpu_wr_adr>>

Gpu2DInit ==
  /\ reg_dst = 0 /\ reg_width = 0 /\ reg_height = 0
  /\ start_toggle = FALSE /\ busy_sync = [i \in 1 .. 3 |-> FALSE]
  /\ start_sync = Flat(FALSE) /\ busy_100m = FALSE /\ gpu_state = "G_IDLE"
  /\ shadow_width = 0 /\ cur_row = 0 /\ cur_col_px = 0 /\ cur_addr = 0
  /\ gpu_wr_req = FALSE /\ gpu_wr_adr = 0
  /\ gfx = "idle" /\ poll_gap = 0

-----------------------------------------------------------------------------
(***************************************************************************)
(* The driver.                                                             *)
(***************************************************************************)

\* gfx_fill_rect clips the rectangle to the screen.
Clipped(r) ==
  LET x0 == IF r.x < 0 THEN 0 ELSE r.x
      y0 == IF r.y < 0 THEN 0 ELSE r.y
      x1 == IF r.x + r.w > FB_W THEN FB_W ELSE r.x + r.w
      y1 == IF r.y + r.h > FB_H THEN FB_H ELSE r.y + r.h
  IN [x |-> x0, y |-> y0, w |-> x1 - x0, h |-> y1 - y0]

\* What goes to the engine; the rest is drawn pixel by pixel.
Accelerated(r) ==
  /\ r.w >= 2 * BURST_WORDS /\ r.h >= 1
  /\ r.x % 2 = 0 /\ r.w % (2 * BURST_WORDS) = 0

\* The stores to the registers, then the one to CONTROL.
Gpu_fill_rect(r) ==
  /\ gfx = "idle" /\ gfx' = "start"
  /\ reg_dst' = FB_ADR + (r.y * FB_W + r.x) \div 2
  /\ reg_width' = r.w /\ reg_height' = r.h
  /\ start_toggle' = FALSE
  /\ UNCHANGED poll_gap

Gfx_fill_rect(r) ==
  /\ Accelerated(Clipped(r))
  /\ Gpu_fill_rect(Clipped(r))

\* start_toggle is high for one cycle.
Gpu_start ==
  /\ gfx = "start" /\ gfx' = "wait"
  /\ start_toggle' = TRUE
  /\ poll_gap' = POLL_GAP
  /\ UNCHANGED regVars

\* gpu_wait returns when busy_sync(2) reads as 0.
Gpu_wait ==
  /\ gfx = "wait"
  /\ start_toggle' = FALSE
  /\ IF poll_gap > 0
     THEN poll_gap' = poll_gap - 1 /\ UNCHANGED gfx
     ELSE gfx' = (IF busy_sync[3] THEN "wait" ELSE "idle") /\ UNCHANGED poll_gap
  /\ UNCHANGED regVars

Gpu_none ==
  /\ gfx = "idle" /\ start_toggle' = FALSE
  /\ UNCHANGED <<regVars, gfx, poll_gap>>

P_cdc_busy ==
  \E b \in {busy_100m, busy_100m'} :
    busy_sync' = [i \in 1 .. 3 |-> IF i = 1 THEN b ELSE busy_sync[i - 1]]

-----------------------------------------------------------------------------
(***************************************************************************)
(* The engine.  start_fire is an edge detector on a pulse: it is high at   *)
(* both ends of it, and looked at in G_IDLE only.                          *)
(***************************************************************************)
P_cdc_start ==
  \E b \in {start_toggle, start_toggle'} : start_sync' = Sync(start_sync, b)

G_idle ==
  /\ gpu_state = "G_IDLE"
  /\ IF Fire(start_sync)
     THEN /\ shadow_width' = reg_width
          /\ cur_row' = reg_height /\ cur_addr' = reg_dst
          /\ busy_100m' = TRUE /\ gpu_state' = "G_ROW_SETUP"
     ELSE /\ busy_100m' = FALSE
          /\ UNCHANGED <<shadow_width, cur_row, cur_addr, gpu_state>>
  /\ gpu_wr_req' = FALSE
  /\ UNCHANGED <<cur_col_px, gpu_wr_adr>>

G_row_setup ==
  /\ gpu_state = "G_ROW_SETUP"
  /\ gpu_state' = IF cur_row = 0 THEN "G_IDLE" ELSE "G_BURST_REQ"
  /\ cur_col_px' = IF cur_row = 0 THEN cur_col_px ELSE shadow_width
  /\ gpu_wr_req' = FALSE
  /\ UNCHANGED <<busy_100m, shadow_width, cur_row, cur_addr, gpu_wr_adr>>

G_burst_req ==
  /\ gpu_state = "G_BURST_REQ" /\ gpu_state' = "G_BURST_WAIT"
  /\ gpu_wr_adr' = cur_addr /\ gpu_wr_req' = TRUE
  /\ UNCHANGED <<busy_100m, shadow_width, cur_row, cur_col_px, cur_addr>>

G_burst_wait ==
  /\ gpu_state = "G_BURST_WAIT"
  /\ gpu_wr_req' = FALSE
  /\ IF ~gpu_done_r
     THEN UNCHANGED <<cur_addr, cur_col_px, gpu_state>>
     ELSE /\ cur_addr' = (cur_addr + BURST_WORDS) % ADRS
          /\ IF cur_col_px > 2 * BURST_WORDS
             THEN cur_col_px' = cur_col_px - 2 * BURST_WORDS /\ gpu_state' = "G_BURST_REQ"
             ELSE gpu_state' = "G_ROW_NEXT" /\ UNCHANGED cur_col_px
  /\ UNCHANGED <<busy_100m, shadow_width, cur_row, gpu_wr_adr>>

\* Defect: the next row starts a stride after the end of this one.
G_row_nextFar ==
  /\ gpu_state = "G_ROW_NEXT" /\ gpu_state' = "G_ROW_SETUP"
  /\ cur_row' = cur_row - 1
  /\ cur_addr' = (cur_addr + FB_W \div 2) % ADRS
  /\ gpu_wr_req' = FALSE
  /\ UNCHANGED <<busy_100m, shadow_width, cur_col_px, gpu_wr_adr>>

\* The stride of a row less the width, in words, from where the last burst
\* of the row has left the address.
G_row_next ==
  /\ gpu_state = "G_ROW_NEXT" /\ gpu_state' = "G_ROW_SETUP"
  /\ cur_row' = cur_row - 1
  /\ cur_addr' = (cur_addr + FB_W \div 2 - shadow_width \div 2) % ADRS
  /\ gpu_wr_req' = FALSE
  /\ UNCHANGED <<busy_100m, shadow_width, cur_col_px, gpu_wr_adr>>

P_gpu_fsm == G_idle \/ G_row_setup \/ G_burst_req \/ G_burst_wait \/ G_row_next
=============================================================================
