----------------------------- MODULE SdramBoard -----------------------------
(***************************************************************************)
(* sdram_ctrl.vhd on the board: the controller, the device and the three   *)
(* masters that share it.  The PLL gives the 50 MHz and the 100 MHz clock  *)
(* in phase, so every second 100 MHz edge is also a 50 MHz edge.  The      *)
(* masters are as free as their handshakes let them be: the CPU strobes    *)
(* one operation and waits for its acknowledge, the frame buffer reader    *)
(* asks for a burst and waits for its words, the 2D engine asks for a      *)
(* burst and waits for done.                                               *)
(***************************************************************************)
EXTENDS SdramCtrl

CONSTANTS
  CPU_OPS,   \* operations the CPU may strobe
  VGA_ADRS,  \* addresses the frame buffer reader may ask for
  GPU_ADRS   \* addresses the 2D engine may ask for

ASSUME MastersAssumption ==
  /\ CPU_OPS \subseteq Op
  /\ VGA_ADRS \subseteq Adr
  /\ GPU_ADRS \subseteq Adr

VARIABLES
  phase,       \* 0 when the next edge is one of both clocks
  cpu,         \* the operation the CPU waits for, or NoOp
  cpu_dat,     \* the word its last read returned
  gpu_wait,    \* the 2D engine waits for done
  gpu_wr_req,  \* gpu_wr_req_i, a one-cycle pulse
  gpu_wr_adr   \* gpu_wr_adr_i, held

vars == <<ctrlVars, pins, dq_oe, wr_data_r, chipVars,
          phase, cpu, cpu_dat, gpu_wait, gpu_wr_req, gpu_wr_adr>>

Init ==
  /\ CtrlInit /\ ChipInit
  /\ phase = 0
  /\ cpu = NoOp /\ cpu_dat = POWER_UP_MEM[0]
  /\ gpu_wait = FALSE /\ gpu_wr_req = FALSE /\ gpu_wr_adr = 0

-----------------------------------------------------------------------------
\* The CPU's bus master: a strobe lasts one cycle, then it waits for wb_ack_o.
Cpu(op) ==
  \/ /\ AckFire /\ op = NoOp
     /\ cpu' = NoOp
     /\ cpu_dat' = IF cpu # NoOp /\ ~cpu.we THEN rd_data_cpu[2] ELSE cpu_dat
  \/ /\ ~AckFire /\ (cpu # NoOp => op = NoOp)
     /\ cpu' = IF cpu = NoOp THEN op ELSE cpu
     /\ UNCHANGED cpu_dat

\* gpu_2d's G_BURST_REQ and G_BURST_WAIT.
Gpu ==
  \/ /\ ~gpu_wait
     /\ \E a \in GPU_ADRS : gpu_wr_adr' = a
     /\ gpu_wr_req' = TRUE /\ gpu_wait' = TRUE
  \/ /\ gpu_wr_req' = FALSE
     /\ gpu_wait' = (gpu_wait /\ ~gpu_done_r)
     /\ UNCHANGED gpu_wr_adr

\* An edge of both clocks.  adr is the VGA request, pop the FIFO pop; a word
\* in the FIFO may not be visible yet to the reading side.
BothEdges(op, adr, pop) ==
  /\ phase = 0 /\ phase' = 1
  /\ pop => VgaPop
  /\ vga_req_pending => adr = NoOp
  /\ Cpu(op) /\ CpuEdge(op, adr, pop)
  /\ Gpu
  /\ SdramEdge(gpu_wr_req, gpu_wr_adr, pop)
  /\ P_sync_req /\ P_sync_ack

\* An edge of the 100 MHz clock alone.
FastEdge ==
  /\ phase = 1 /\ phase' = 0
  /\ UNCHANGED <<cpu, cpu_dat, reqCpuVars, vgaCpuVars, accept_sync, ack_sync, rd_data_cpu>>
  /\ Gpu
  /\ SdramEdge(gpu_wr_req, gpu_wr_adr, FALSE)
  /\ P_sync_req

Next ==
  \/ FastEdge
  \/ \E op \in CPU_OPS \cup {NoOp}, adr \in VGA_ADRS \cup {NoOp}, pop \in BOOLEAN :
       BothEdges(op, adr, pop)

Spec == Init /\ [][Next]_vars

\* The clocks never stop.
FairSpec == Spec /\ WF_vars(Next)

-----------------------------------------------------------------------------
(***************************************************************************)
(* The type invariant: every register stays in the range its VHDL type     *)
(* has, and the device is left in a state it can be in.                    *)
(***************************************************************************)
MastersType ==
  /\ phase \in {0, 1} /\ cpu \in CPU_OPS \cup {NoOp} /\ cpu_dat \in DATA
  /\ gpu_wait \in BOOLEAN /\ gpu_wr_req \in BOOLEAN /\ gpu_wr_adr \in Adr

ReqType ==
  /\ req_toggle_cpu \in BOOLEAN /\ req_busy_cpu \in BOOLEAN /\ req_shadow \in Op
  /\ accept_sync \in Chain /\ ack_sync \in Chain /\ rd_data_cpu \in DATA \X DATA
  /\ req_sync \in Chain /\ req_valid \in BOOLEAN /\ req \in Op
  /\ req_accept_toggle \in BOOLEAN /\ ack_toggle \in BOOLEAN /\ rd_data_hold \in DATA

VgaType ==
  /\ vga_toggle_cpu \in BOOLEAN /\ vga_req_pending \in BOOLEAN
  /\ vga_shadow_adr \in Adr /\ vga_fifo_pop_cnt \in 0 .. BURST_WORDS - 1
  /\ vga_sync \in Chain /\ vga_valid \in BOOLEAN /\ vga_adr \in Adr
  /\ vga_fifo_wr \in DATA \cup {NoOp} /\ vga_fifo \in Seq(DATA)

GpuType == gpu_wr_valid \in BOOLEAN /\ gpu_adr_r \in Adr /\ gpu_done_r \in BOOLEAN

InitCounts == 0 .. 32767
RefCounts  == 0 .. 1023

FsmType ==
  /\ state \in State /\ init_cnt \in InitCounts /\ refresh_cnt \in 0 .. 15
  /\ wait_cnt \in 0 .. 7 /\ ref_init \in BOOLEAN /\ ref_cnt \in RefCounts
  /\ cas_cnt \in 0 .. 7 /\ trcd_cnt \in 0 .. 3

AccessType ==
  /\ addr_r \in Adr /\ we_r \in BOOLEAN /\ wr_data_r \in DATA
  /\ vga_col_cnt \in 0 .. 7 /\ gpu_col_cnt \in 0 .. 7

PinsType ==
  /\ cmd \in Command /\ dram_ba \in Bank /\ dram_addr \in Pins /\ dq_oe \in BOOLEAN

ChipType ==
  /\ open \in [Bank -> Row \cup {CLOSED}] /\ mode \in BOOLEAN
  /\ mem \in [Adr -> DATA] /\ dq \in DATA /\ age \in [Timed -> Nat]

TypeOK == MastersType /\ ReqType /\ VgaType /\ GpuType
          /\ FsmType /\ AccessType /\ PinsType /\ ChipType

(***************************************************************************)
(* Row discipline: a row is opened only in a closed bank; a READ or WRITE  *)
(* goes to the bank and row of the address picked in S_IDLE, which is      *)
(* open, on a configured device; a refresh or mode load finds every bank   *)
(* closed.  The three access paths share S_ACTIVATE and the address        *)
(* registers, S_PRECHARGE closes one bank only, and a reset of the board   *)
(* leaves rows of the interrupted access open.                             *)
(***************************************************************************)
RowDiscipline ==
  /\ cmd = "ACTIVE" => open[dram_ba] = CLOSED
  /\ cmd \in {"READ", "WRITE"} => /\ dram_ba = BankOf(addr_r)
                                  /\ open[dram_ba] = RowOf(addr_r)
                                  /\ mode
  /\ cmd \in {"AUTO_REF", "LOAD_MOD"} => AllClosed

(***************************************************************************)
(* Timing: the wait states (S_TRCD_WAIT, S_TRP_WAIT, S_REF_WAIT,           *)
(* S_MODE_WAIT, the cas_cnt loop and their VGA and GPU copies) keep the    *)
(* minimum distances of the device on every path of the state machine, and *)
(* captured words are on the pins.                                         *)
(***************************************************************************)
TimingMet ==
  /\ CommandSpacing
  /\ state \in {"S_READ_CAPTURE", "S_VGA_CAPTURE"} => age["READ"] >= CL

(***************************************************************************)
(* No request is lost or overwritten: each pulse that crosses finds its    *)
(* latch empty and not being cleared.  The three latches (p_req_latch and  *)
(* the VGA and GPU latches of p_sdram) have no queue behind them, and the  *)
(* acceptance of a single-word request is reported before it is done.      *)
(***************************************************************************)
RequestsSurvive ==
  /\ ReqFire => ~req_valid
  /\ VgaFire => ~vga_valid
  /\ gpu_wr_req => ~gpu_wr_valid

(***************************************************************************)
(* The request payload, which crosses without synchronizers, is stable     *)
(* from the flip of its toggle until the 100 MHz side has taken it.        *)
(***************************************************************************)
PayloadHeld ==
  [][/\ req_toggle_cpu # req_sync[4] => UNCHANGED req_shadow
     /\ vga_toggle_cpu # vga_sync[4] => UNCHANGED vga_shadow_adr]_vars

(***************************************************************************)
(* Every operation the CPU strobes is acknowledged: p_req_cpu ignores a    *)
(* strobe while req_busy_cpu is set, and S_IDLE prefers the frame buffer   *)
(* reader, which may ask again and again.                                  *)
(***************************************************************************)
CpuAnswered == cpu # NoOp ~> cpu = NoOp

-----------------------------------------------------------------------------
(***************************************************************************)
(* Refinement: for the CPU the controller is a memory of words.  The       *)
(* operation has taken effect once its WRITE is stored or its read data    *)
(* captured, and until the acknowledge has reached the CPU.                *)
(***************************************************************************)
Done ==
  \/ state \in {"S_WRITE_RECOVERY", "S_PRECHARGE", "S_TRP_WAIT"}
  \/ ack_toggle # ack_sync[4]

Memory == INSTANCE WordMemory WITH
  Cells <- Adr, Ops <- CPU_OPS, InitMem <- POWER_UP_MEM,
  memory <- mem, pending <- cpu, done <- Done, answer <- cpu_dat,
  word <- IF Done /\ cpu # NoOp /\ ~cpu.we THEN rd_data_hold ELSE NoOp

\* The controller implements WordMemory: no CPU operation is lost, done twice
\* or reordered, and no read returns a stale word.
ImplementsMemory == Memory!Spec
=============================================================================
