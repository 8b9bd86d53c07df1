----------------------------- MODULE VideoBoard -----------------------------
(***************************************************************************)
(* The picture, end to end: the frame buffer in the SDRAM, the controller, *)
(* the reader that shows it and the engine that paints it, on their three  *)
(* clocks.  The PLL gives 25, 50 and 100 MHz in phase.  The program paints *)
(* a few rectangles, or turns the picture on: not both, and it does not    *)
(* reach for the SDRAM itself, because with two masters an access may take *)
(* the other's place (module VideoCpu, where it does).                     *)
(***************************************************************************)
EXTENDS FbReader, Gpu2D

CONSTANTS
  RECTS,  \* rectangles the program may paint, [x, y, w, h]
  FILLS,  \* how many it paints
  LATES   \* how many lines may start before their fetch is done

ASSUME VideoAssumption ==
  /\ LINES \in Nat \ {0} /\ LINE_WORDS \in Nat \ {0}
  /\ FB_ADR = FB_BASE /\ FB_W = 2 * LINE_WORDS /\ FB_H = LINES
  /\ FB_BASE \in Nat /\ FB_BASE + LINES * LINE_WORDS \in 1 .. ADRS
  /\ LINE_GAP \in Nat /\ POLL_GAP \in Nat /\ FILLS \in Nat /\ LATES \in Nat
  /\ RECTS \subseteq [x : Int, y : Int, w : Int, h : Int]

VARIABLES
  phase,    \* 0: an edge of all clocks, 2: of 50 and 100 MHz, 1 and 3: of 100 MHz
  fills,    \* rectangles left to paint
  painted,  \* history: the words of the rectangles asked for
  spoiled,  \* history: lines that cannot be right because a fetch came too late
  lates     \* late fetches left

boardVars  == <<phase, fills, painted, spoiled, lates>>
driverVars == <<gfx, poll_gap, start_toggle, regVars>>
vars == <<ctrlVars, pins, dq_oe, wr_data_r, chipVars, lineVars, mode_en, fetchVars,
          gpuVars, busy_sync, driverVars, boardVars>>

Init ==
  /\ CtrlInit /\ ChipInit /\ FbReaderInit /\ Gpu2DInit
  /\ phase = 0 /\ fills = FILLS /\ painted = {} /\ spoiled = 2 /\ lates = LATES

-----------------------------------------------------------------------------
\* The words of a rectangle.
Words(r) ==
  {FB_BASE + (y * FB_W + x) \div 2 : x \in r.x .. r.x + r.w - 1, y \in r.y .. r.y + r.h - 1}

\* The program, at a 50 MHz edge.
Fill(r) ==
  /\ ~mode_en /\ fills > 0
  /\ Gfx_fill_rect(r)
  /\ fills' = fills - 1 /\ painted' = painted \cup Words(Clipped(r))
  /\ UNCHANGED mode_en

\* fb_init: the base, then the mode.
Fb_init ==
  /\ ~mode_en /\ fills = FILLS
  /\ mode_en' = TRUE
  /\ Gpu_none /\ UNCHANGED <<fills, painted>>

Program ==
  \/ \E r \in RECTS : Fill(r)
  \/ Fb_init
  \/ (Gpu_start \/ Gpu_wait \/ Gpu_none) /\ UNCHANGED <<mode_en, fills, painted>>

Late == fetch_state \notin {"F_IDLE", "F_LINE_DONE"}

\* A fetch that is not done when its line starts spoils this line, and the
\* next one, whose request it may have missed.
Lateness(start) ==
  /\ start /\ Late => lates > 0
  /\ lates' = IF start /\ Late THEN lates - 1 ELSE lates
  /\ spoiled' = CASE ~start -> spoiled
                  [] start /\ (~mode_en \/ Late) -> 2
                  [] OTHER -> IF spoiled > 0 THEN spoiled - 1 ELSE 0

PixelEdge(start) == P_bufswap(start) /\ Lateness(start)
NoPixelEdge      == UNCHANGED <<lineVars, spoiled, lates>>

\* op is the SDRAM operation that the CPU strobes.
VideoCpuEdge(op, pop) ==
  /\ pop => VgaPop
  /\ Program
  /\ CpuEdge(op, vga_rd_req, pop)
  /\ P_sync_line_req /\ P_fetch(pop)

VideoSdramEdge(pop) ==
  /\ SdramEdge(gpu_wr_req, gpu_wr_adr, pop) /\ P_sync_req
  /\ P_cdc_start /\ P_gpu_fsm

\* What the 50 MHz side samples of the 100 MHz one.
VideoReturns == P_sync_ack /\ P_cdc_busy

AllEdges(op, start, pop) ==
  /\ phase = 0 /\ phase' = 1
  /\ PixelEdge(start) /\ VideoCpuEdge(op, pop) /\ VideoSdramEdge(pop) /\ VideoReturns

BothEdges(op, pop) ==
  /\ phase = 2 /\ phase' = 3
  /\ NoPixelEdge /\ VideoCpuEdge(op, pop) /\ VideoSdramEdge(pop) /\ VideoReturns

FastEdge ==
  /\ phase \in {1, 3} /\ phase' = (phase + 1) % 4
  /\ NoPixelEdge
  /\ UNCHANGED <<reqCpuVars, vgaCpuVars, accept_sync, ack_sync, rd_data_cpu, mode_en,
                 fetchVars, busy_sync, driverVars, fills, painted>>
  /\ VideoSdramEdge(FALSE)

Next ==
  \/ FastEdge
  \/ \E pop \in BOOLEAN :
       BothEdges(NoOp, pop) \/ \E start \in BOOLEAN : AllEdges(NoOp, start, pop)

Spec == Init /\ [][Next]_vars

\* The clocks never stop, and a word in the FIFO becomes visible to the reader:
\* a 50 MHz edge comes that pops it.
Tick == phase' = (phase + 1) % 4

Popped ==
  /\ phase \in {0, 2} /\ VgaPop /\ Tick
  /\ vga_fifo_pop_cnt' = (vga_fifo_pop_cnt + 1) % BURST_WORDS

FairSpec == Spec /\ WF_phase(Tick) /\ SF_phase(Popped)

-----------------------------------------------------------------------------
(***************************************************************************)
(* The line on the screen is the line of the memory, unless a fetch has    *)
(* come too late for it or for the line before: p_bufswap swaps the        *)
(* buffers whether or not the fetch is done, and p_fetch drops a request   *)
(* that finds it busy.  So one late fetch costs two lines and no more:     *)
(* the reader is back in step without a reset, and no word of a burst is   *)
(* left to shift the lines that follow.                                    *)
(***************************************************************************)
LineShown ==
  spoiled = 0 =>
    \A i \in 0 .. LINE_WORDS - 1 : linebuf[buf_sel][i] = mem[LineWord(line, i)]

(***************************************************************************)
(* No word outside the rectangles asked for is ever touched, and when      *)
(* gpu_wait has returned every word inside has the colour.  The engine     *)
(* steps from row to row by differences, its start is a pulse taken for a  *)
(* toggle, a start it does not see is lost without a sign, and its busy    *)
(* flag crosses back through three flops.                                  *)
(***************************************************************************)
FillExact ==
  /\ \A a \in Adr \ painted : mem[a] = POWER_UP_MEM[a]
  /\ gfx = "idle" => \A a \in painted : mem[a] = GPU_DAT

(***************************************************************************)
(* Every fetch and every gpu_wait comes to an end: the reader waits for    *)
(* the words of its burst and the driver for the engine, which waits for   *)
(* done, without a timeout anywhere.  This holds of Spec, in which the CPU *)
(* does not reach for the SDRAM, and fails in VideoCpu, in which it does.  *)
(***************************************************************************)
RequestsEnd ==
  /\ fetch_state # "F_IDLE" ~> fetch_state = "F_IDLE"
  /\ gfx # "idle" ~> gfx = "idle"
=============================================================================
