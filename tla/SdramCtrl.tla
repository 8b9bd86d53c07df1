----------------------------- MODULE SdramCtrl -----------------------------
(***************************************************************************)
(* sdram_ctrl.vhd: the SDRAM controller.  One action per VHDL process and  *)
(* one per state of p_sdram; every primed value is computed from unprimed  *)
(* ones, as registers clocked on one edge are.  The 50 MHz processes       *)
(* (single-word requests, VGA port) hand requests to the 100 MHz side as   *)
(* toggles through three synchronizer flops.  Left out: CPU burst reads,   *)
(* which need wb_cti_i = "010", a code no top level ever drives (the       *)
(* instruction cache is off in all of them), and byte enables.             *)
(***************************************************************************)
EXTENDS SdramChip, Sequences

CONSTANTS
  BURST_WORDS,       \* words of a VGA or GPU burst, and depth of the FIFO (8)
  INIT_WAIT_CYCLES,  \* 20000: 200 us
  REFRESH_INTERVAL,  \* 781
  NoOp,              \* no operation, no address, no word
  GPU_DAT            \* the fill colour on gpu_wr_dat_i

Op == [we : BOOLEAN, adr : Adr, dat : DATA]

ASSUME CtrlAssumption ==
  /\ BURST_WORDS \in 1 .. 8
  /\ INIT_WAIT_CYCLES \in Nat \ {0} /\ INIT_WAIT_CYCLES <= 32767
  /\ REFRESH_INTERVAL \in Nat \ {0} /\ REFRESH_INTERVAL <= 1023
  /\ GPU_DAT \in DATA
  /\ NoOp \notin Op /\ NoOp \notin Adr /\ NoOp \notin DATA

State ==
  {"S_INIT", "S_PRECHG_ALL", "S_INIT_REFRESH", "S_LOAD_MODE", "S_IDLE",
   "S_AUTO_REFRESH", "S_ACTIVATE", "S_TRCD_WAIT", "S_READ_WAIT",
   "S_READ_CAPTURE", "S_WRITE_SETUP", "S_WRITE_CMD", "S_WRITE_WAIT",
   "S_WRITE_RECOVERY", "S_PRECHARGE", "S_TRP_WAIT", "S_PRECHG_WAIT",
   "S_REF_WAIT", "S_MODE_WAIT",
   "S_VGA_TRCD_WAIT", "S_VGA_READ", "S_VGA_CAPTURE", "S_VGA_PRECHARGE",
   "S_VGA_TRP_WAIT",
   "S_GPU_TRCD_WAIT", "S_GPU_WRITE", "S_GPU_PRECHARGE", "S_GPU_TRP_WAIT"}

VARIABLES
  \* single-word port, 50 MHz side
  req_toggle_cpu, req_busy_cpu, req_shadow, accept_sync, ack_sync, rd_data_cpu,
  \* single-word port, 100 MHz side
  req_sync, req_valid, req, req_accept_toggle, ack_toggle, rd_data_hold,
  \* VGA port, 50 MHz side
  vga_toggle_cpu, vga_req_pending, vga_shadow_adr, vga_fifo_pop_cnt,
  \* VGA port, 100 MHz side, and its FIFO
  vga_sync, vga_valid, vga_adr, vga_col_cnt, vga_fifo_wr, vga_fifo,
  \* GPU port
  gpu_wr_valid, gpu_adr_r, gpu_col_cnt, gpu_done_r,
  \* state machine
  state, init_cnt, refresh_cnt, wait_cnt, ref_init, ref_cnt, cas_cnt, trcd_cnt,
  addr_r, we_r

reqCpuVars == <<req_toggle_cpu, req_busy_cpu, req_shadow>>
reqVars    == <<req_valid, req, req_accept_toggle>>
vgaCpuVars == <<vga_toggle_cpu, vga_req_pending, vga_shadow_adr, vga_fifo_pop_cnt>>
initVars   == <<init_cnt, refresh_cnt, ref_init>>
adrVars    == <<addr_r, we_r, wr_data_r>>
colVars    == <<vga_col_cnt, gpu_col_cnt>>
ctrlVars   == <<req_toggle_cpu, req_busy_cpu, req_shadow, accept_sync, ack_sync,
                rd_data_cpu, req_sync, req_valid, req, req_accept_toggle,
                ack_toggle, rd_data_hold, vga_toggle_cpu, vga_req_pending,
                vga_shadow_adr, vga_fifo_pop_cnt, vga_sync, vga_valid, vga_adr,
                vga_col_cnt, vga_fifo_wr, vga_fifo, gpu_wr_valid, gpu_adr_r,
                gpu_col_cnt, gpu_done_r, state, init_cnt, refresh_cnt, wait_cnt,
                ref_init, ref_cnt, cas_cnt, trcd_cnt, addr_r, we_r>>

-----------------------------------------------------------------------------
(***************************************************************************)
(* Toggle synchronizers: three flops and the "seen" flop, in the order the *)
(* toggle travels.  An edge of the toggle is a one-cycle pulse at the end. *)
(***************************************************************************)
Chain == [1 .. 4 -> BOOLEAN]
Flat(b) == [i \in 1 .. 4 |-> b]
Fire(chain) == chain[3] # chain[4]
Sync(chain, first) == [i \in 1 .. 4 |-> IF i = 1 THEN first ELSE chain[i - 1]]

ReqFire    == Fire(req_sync)       \* req_fire_100m
VgaFire    == Fire(vga_sync)       \* vga_fire_100m
AcceptFire == Fire(accept_sync)    \* req_accept_pulse_cpu
AckFire    == Fire(ack_sync)       \* wb_ack_pulse, wb_ack_o

SomeOp == [we |-> FALSE, adr |-> 0, dat |-> POWER_UP_MEM[0]]

CtrlInit ==
  /\ req_toggle_cpu = FALSE /\ req_busy_cpu = FALSE /\ req_shadow = SomeOp
  /\ accept_sync = Flat(FALSE) /\ ack_sync = Flat(FALSE)
  /\ rd_data_cpu = <<POWER_UP_MEM[0], POWER_UP_MEM[0]>>
  /\ req_sync = Flat(FALSE) /\ req_valid = FALSE /\ req = SomeOp
  /\ req_accept_toggle = FALSE /\ ack_toggle = FALSE
  /\ rd_data_hold = POWER_UP_MEM[0]
  /\ vga_toggle_cpu = FALSE /\ vga_req_pending = FALSE /\ vga_shadow_adr = 0
  /\ vga_fifo_pop_cnt = 0
  /\ vga_sync = Flat(FALSE) /\ vga_valid = FALSE /\ vga_adr = 0
  /\ vga_col_cnt = 0 /\ vga_fifo_wr = NoOp /\ vga_fifo = << >>
  /\ gpu_wr_valid = FALSE /\ gpu_adr_r = 0 /\ gpu_col_cnt = 0 /\ gpu_done_r = FALSE
  /\ state = "S_INIT" /\ init_cnt = 0 /\ refresh_cnt = 0 /\ wait_cnt = 0
  /\ ref_init = FALSE /\ ref_cnt = REFRESH_INTERVAL /\ cas_cnt = 0 /\ trcd_cnt = 0
  /\ addr_r = 0 /\ we_r = FALSE
  /\ cmd = "NOP" /\ dram_ba = 0 /\ dram_addr = 0
  /\ dq_oe = FALSE /\ wr_data_r = POWER_UP_MEM[0]

-----------------------------------------------------------------------------
(***************************************************************************)
(* 50 MHz processes.                                                       *)
(***************************************************************************)

\* Defect: the accept pulse does not free the port.
P_req_cpuNoAccept(op) ==
  \/ /\ op # NoOp /\ ~req_busy_cpu
     /\ req_shadow' = op /\ req_toggle_cpu' = ~req_toggle_cpu /\ req_busy_cpu' = TRUE
  \/ /\ op = NoOp \/ req_busy_cpu
     /\ UNCHANGED <<req_shadow, req_toggle_cpu, req_busy_cpu>>

\* Defect: the payload follows the bus without a strobe.
P_req_cpuNoStrobe(op) ==
  /\ req_shadow' = IF op = NoOp THEN SomeOp ELSE op
  /\ req_toggle_cpu' = (req_toggle_cpu # (op # NoOp))
  /\ req_busy_cpu' = (op # NoOp \/ (req_busy_cpu /\ ~AcceptFire))

\* p_req_cpu: the strobed operation op (NoOp without a strobe) is latched
\* and its toggle flipped unless the last one has not been accepted yet.
P_req_cpu(op) ==
  LET busy == req_busy_cpu /\ ~AcceptFire
  IN \/ /\ op # NoOp /\ ~busy
        /\ req_shadow' = op
        /\ req_toggle_cpu' = ~req_toggle_cpu
        /\ req_busy_cpu' = TRUE
     \/ /\ op = NoOp \/ busy
        /\ req_busy_cpu' = busy
        /\ UNCHANGED <<req_shadow, req_toggle_cpu>>

\* p_sync_req_accept, p_sync_ack.  A flop that samples a toggle flipped on
\* the very edge it is clocked on takes the old value or the new one: the
\* constraints cut the paths between the two clocks.
P_sync_ack ==
  /\ \E b \in {req_accept_toggle, req_accept_toggle'} :
       accept_sync' = Sync(accept_sync, b)
  /\ \E b \in {ack_toggle, ack_toggle'} : ack_sync' = Sync(ack_sync, b)
  /\ \E d \in IF rd_data_hold' = rd_data_hold THEN {rd_data_hold} ELSE DATA :
       rd_data_cpu' = <<d, rd_data_cpu[1]>>

\* p_vga_req and p_vga_pop: a request at adr (NoOp for none), and the pop of
\* the FIFO's first word once its write pointer has crossed.
VgaPop == vga_req_pending /\ vga_fifo # << >>

\* Defect: the pop counter is not reset after the last word.
P_vgaNoWrap(adr, pop) ==
  LET new  == adr # NoOp /\ ~vga_req_pending
      last == vga_fifo_pop_cnt = BURST_WORDS - 1
  IN /\ vga_shadow_adr' = IF new THEN adr ELSE vga_shadow_adr
     /\ vga_toggle_cpu' = (vga_toggle_cpu # new)
     /\ vga_req_pending' = (new \/ (vga_req_pending /\ ~(pop /\ last)))
     /\ vga_fifo_pop_cnt' = IF new THEN 0
                            ELSE IF pop THEN vga_fifo_pop_cnt + 1
                            ELSE vga_fifo_pop_cnt

P_vga(adr, pop) ==
  LET new  == adr # NoOp /\ ~vga_req_pending
      last == vga_fifo_pop_cnt = BURST_WORDS - 1
  IN /\ vga_shadow_adr' = IF new THEN adr ELSE vga_shadow_adr
     /\ vga_toggle_cpu' = (vga_toggle_cpu # new)
     /\ vga_req_pending' = (new \/ (vga_req_pending /\ ~(pop /\ last)))
     /\ vga_fifo_pop_cnt' = IF new \/ (pop /\ last) THEN 0
                            ELSE IF pop THEN vga_fifo_pop_cnt + 1
                            ELSE vga_fifo_pop_cnt

-----------------------------------------------------------------------------
(***************************************************************************)
(* 100 MHz processes.                                                      *)
(***************************************************************************)

\* p_sync_req, p_sync_vga.
P_sync_req ==
  /\ \E b \in {req_toggle_cpu, req_toggle_cpu'} : req_sync' = Sync(req_sync, b)
  /\ \E b \in {vga_toggle_cpu, vga_toggle_cpu'} : vga_sync' = Sync(vga_sync, b)

TrpDone(s) == state = s /\ trcd_cnt = 1

\* Defect: the request stays valid after its access.
P_req_latchSticky ==
  \/ /\ ReqFire
     /\ req_valid' = TRUE /\ req' = req_shadow
     /\ req_accept_toggle' = ~req_accept_toggle
  \/ ~ReqFire /\ UNCHANGED <<req_valid, req, req_accept_toggle>>

\* p_req_latch: a request that crosses is taken and accepted at once.
P_req_latch ==
  \/ /\ ReqFire
     /\ req_valid' = TRUE
     /\ req' = req_shadow
     /\ req_accept_toggle' = ~req_accept_toggle
  \/ /\ ~ReqFire
     /\ req_valid' = (req_valid /\ ~TrpDone("S_TRP_WAIT"))
     /\ UNCHANGED <<req, req_accept_toggle>>

\* Defect: the end of a burst does not clear its request.
P_vga_latchSticky ==
  /\ vga_valid' = (vga_valid \/ VgaFire)
  /\ vga_adr' = IF VgaFire THEN vga_shadow_adr ELSE vga_adr

\* Defect: the request pulse is looked at in S_IDLE only.
P_vga_latchIdleOnly ==
  /\ vga_valid' = ((vga_valid \/ (VgaFire /\ state = "S_IDLE")) /\ ~TrpDone("S_VGA_TRP_WAIT"))
  /\ vga_adr' = IF VgaFire THEN vga_shadow_adr ELSE vga_adr

\* The VGA and GPU request latches of p_sdram; the end of a burst clears
\* them, whatever arrives on that edge.
P_vga_latch ==
  /\ vga_valid' = ((vga_valid \/ VgaFire) /\ ~TrpDone("S_VGA_TRP_WAIT"))
  /\ vga_adr' = IF VgaFire THEN vga_shadow_adr ELSE vga_adr

P_gpu_latch(wr_req, wr_adr) ==
  /\ gpu_wr_valid' = ((gpu_wr_valid \/ wr_req) /\ ~TrpDone("S_GPU_TRP_WAIT"))
  /\ gpu_adr_r' = IF wr_req /\ ~gpu_wr_valid THEN wr_adr ELSE gpu_adr_r
  /\ gpu_done_r' = TrpDone("S_GPU_TRP_WAIT")

\* The data registers p_sdram writes in a few states, and the FIFO behind
\* them (popped on the 50 MHz side; a write to a full FIFO is dropped).
P_data(pop) ==
  /\ dq_oe' = (state \in {"S_WRITE_SETUP", "S_WRITE_CMD", "S_WRITE_WAIT", "S_GPU_WRITE"})
  /\ rd_data_hold' = IF state = "S_READ_CAPTURE" THEN dq ELSE rd_data_hold
  /\ ack_toggle' = (ack_toggle # TrpDone("S_TRP_WAIT"))
  /\ vga_fifo_wr' = IF state = "S_VGA_CAPTURE" THEN dq ELSE NoOp
  /\ LET left == IF pop THEN Tail(vga_fifo) ELSE vga_fifo
     IN vga_fifo' = IF vga_fifo_wr = NoOp \/ Len(vga_fifo) = BURST_WORDS
                    THEN left ELSE Append(left, vga_fifo_wr)

-----------------------------------------------------------------------------
(***************************************************************************)
(* The states of p_sdram.                                                  *)
(***************************************************************************)
Goto(s) == state' = s
Nop == cmd' = "NOP" /\ UNCHANGED <<dram_ba, dram_addr>>
Command3(c, ba, a) == cmd' = c /\ dram_ba' = ba /\ dram_addr' = a

\* wait n further cycles in the current state, counting in wait_cnt
Wait(n, next) ==
  /\ Nop
  /\ wait_cnt' = (wait_cnt + 1) % 8
  /\ state' = IF wait_cnt = n THEN next ELSE state
  /\ UNCHANGED <<cas_cnt, trcd_cnt, adrVars, colVars>>

Init_wait ==
  /\ state = "S_INIT"
  /\ init_cnt' = (init_cnt + 1) % 32768
  /\ state' = IF init_cnt = INIT_WAIT_CYCLES - 1 THEN "S_PRECHG_ALL" ELSE state
  /\ Nop
  /\ UNCHANGED <<refresh_cnt, ref_init, wait_cnt, ref_cnt, cas_cnt, trcd_cnt, adrVars, colVars>>

\* Defect: A10 low, only bank 0 is closed.
Prechg_one ==
  /\ state = "S_PRECHG_ALL" /\ Goto("S_PRECHG_WAIT")
  /\ Command3("PRECHG", 0, 0)
  /\ wait_cnt' = 0 /\ refresh_cnt' = 0
  /\ UNCHANGED <<init_cnt, ref_init, ref_cnt, cas_cnt, trcd_cnt, adrVars, colVars>>

Prechg_all ==
  /\ state = "S_PRECHG_ALL" /\ Goto("S_PRECHG_WAIT")
  /\ Command3("PRECHG", 0, A10)
  /\ wait_cnt' = 0 /\ refresh_cnt' = 0
  /\ UNCHANGED <<init_cnt, ref_init, ref_cnt, cas_cnt, trcd_cnt, adrVars, colVars>>

Prechg_wait ==
  /\ state = "S_PRECHG_WAIT"
  /\ Wait(1, "S_INIT_REFRESH")
  /\ UNCHANGED <<initVars, ref_cnt>>

Init_refresh ==
  /\ state = "S_INIT_REFRESH" /\ Goto("S_REF_WAIT")
  /\ cmd' = "AUTO_REF" /\ UNCHANGED <<dram_ba, dram_addr>>
  /\ refresh_cnt' = (refresh_cnt + 1) % 16
  /\ wait_cnt' = 0 /\ ref_init' = TRUE
  /\ UNCHANGED <<init_cnt, ref_cnt, cas_cnt, trcd_cnt, adrVars, colVars>>

\* Defect: a refresh is given three cycles.
Ref_waitShort ==
  /\ state = "S_REF_WAIT"
  /\ Wait(2, CASE ~ref_init       -> "S_IDLE"
               [] refresh_cnt = 8 -> "S_LOAD_MODE"
               [] OTHER           -> "S_INIT_REFRESH")
  /\ UNCHANGED <<initVars, ref_cnt>>

Ref_wait ==
  /\ state = "S_REF_WAIT"
  /\ Wait(6, CASE ~ref_init       -> "S_IDLE"
               [] refresh_cnt = 8 -> "S_LOAD_MODE"
               [] OTHER           -> "S_INIT_REFRESH")
  /\ UNCHANGED <<initVars, ref_cnt>>

Load_mode ==
  /\ state = "S_LOAD_MODE" /\ Goto("S_MODE_WAIT")
  /\ Command3("LOAD_MOD", 0, 48)
  /\ wait_cnt' = 0
  /\ UNCHANGED <<initVars, ref_cnt, cas_cnt, trcd_cnt, adrVars, colVars>>

Mode_wait ==
  /\ state = "S_MODE_WAIT"
  /\ Wait(1, "S_IDLE")
  /\ ref_cnt' = REFRESH_INTERVAL
  /\ UNCHANGED initVars

\* S_IDLE picks by the requests latched so far: VGA > GPU > single word,
\* after a refresh that is due.  ref_cnt counts idle cycles only.
Pick ==
  CASE vga_valid ->
         /\ addr_r' = vga_adr /\ we_r' = FALSE
         /\ vga_col_cnt' = 0 /\ Goto("S_ACTIVATE")
         /\ UNCHANGED <<wr_data_r, gpu_col_cnt>>
    [] ~vga_valid /\ gpu_wr_valid ->
         /\ addr_r' = gpu_adr_r /\ we_r' = TRUE /\ wr_data_r' = GPU_DAT
         /\ gpu_col_cnt' = 0 /\ Goto("S_ACTIVATE")
         /\ UNCHANGED vga_col_cnt
    [] ~vga_valid /\ ~gpu_wr_valid /\ req_valid ->
         /\ addr_r' = req.adr /\ we_r' = req.we /\ wr_data_r' = req.dat
         /\ Goto("S_ACTIVATE")
         /\ UNCHANGED colVars
    [] OTHER -> UNCHANGED <<state, adrVars, colVars>>

Idle ==
  /\ state = "S_IDLE"
  /\ ref_cnt' = (ref_cnt + 1023) % 1024
  /\ IF ref_cnt = 0 THEN Goto("S_AUTO_REFRESH") /\ UNCHANGED <<adrVars, colVars>>
                    ELSE Pick
  /\ Nop
  /\ UNCHANGED <<initVars, wait_cnt, cas_cnt, trcd_cnt>>

Auto_refresh ==
  /\ state = "S_AUTO_REFRESH" /\ Goto("S_REF_WAIT")
  /\ cmd' = "AUTO_REF" /\ UNCHANGED <<dram_ba, dram_addr>>
  /\ wait_cnt' = 0 /\ ref_init' = FALSE /\ ref_cnt' = REFRESH_INTERVAL
  /\ UNCHANGED <<init_cnt, refresh_cnt, cas_cnt, trcd_cnt, adrVars, colVars>>

\* S_ACTIVATE opens the row picked in S_IDLE, and chooses the path by the
\* requests latched by now.
Activate ==
  /\ state = "S_ACTIVATE"
  /\ Goto(CASE vga_valid                  -> "S_VGA_TRCD_WAIT"
            [] ~vga_valid /\ gpu_wr_valid -> "S_GPU_TRCD_WAIT"
            [] OTHER                      -> "S_TRCD_WAIT")
  /\ Command3("ACTIVE", BankOf(addr_r), RowOf(addr_r))
  /\ trcd_cnt' = 0
  /\ UNCHANGED <<initVars, wait_cnt, ref_cnt, cas_cnt, adrVars, colVars>>

\* S_TRCD_WAIT, S_VGA_TRCD_WAIT, S_GPU_TRCD_WAIT
TrcdNext ==
  CASE state = "S_VGA_TRCD_WAIT" -> "S_VGA_READ"
    [] state = "S_GPU_TRCD_WAIT" -> "S_GPU_WRITE"
    [] state = "S_TRCD_WAIT" /\ we_r -> "S_WRITE_SETUP"
    [] OTHER                     -> "S_READ_WAIT"

Trcd_wait ==
  /\ state \in {"S_TRCD_WAIT", "S_VGA_TRCD_WAIT", "S_GPU_TRCD_WAIT"}
  /\ trcd_cnt' = (trcd_cnt + 1) % 4
  /\ state' = IF trcd_cnt = 1 THEN TrcdNext ELSE state
  /\ cas_cnt' = IF trcd_cnt = 1 /\ TrcdNext \in {"S_READ_WAIT", "S_VGA_READ"}
                THEN 0 ELSE cas_cnt
  /\ Nop
  /\ UNCHANGED <<initVars, wait_cnt, ref_cnt, adrVars, colVars>>

\* The column of word k of a burst wraps inside the row.
BurstCol(k) == (ColOf(addr_r) + k) % COLS

ReadCol == IF state = "S_VGA_READ" THEN BurstCol(vga_col_cnt) ELSE ColOf(addr_r)

\* S_READ_WAIT, S_VGA_READ
Read_wait ==
  /\ state \in {"S_READ_WAIT", "S_VGA_READ"}
  /\ cas_cnt' = (cas_cnt + 1) % 8
  /\ IF cas_cnt = 0 THEN Command3("READ", BankOf(addr_r), ReadCol) ELSE Nop
  /\ state' = IF cas_cnt # 4 THEN state
              ELSE IF state = "S_VGA_READ" THEN "S_VGA_CAPTURE" ELSE "S_READ_CAPTURE"
  /\ UNCHANGED <<initVars, wait_cnt, ref_cnt, trcd_cnt, adrVars, colVars>>

Step(s, next) ==
  /\ state = s /\ Goto(next) /\ Nop
  /\ UNCHANGED <<initVars, wait_cnt, ref_cnt, cas_cnt, trcd_cnt, adrVars, colVars>>

Read_capture   == Step("S_READ_CAPTURE", "S_PRECHARGE")
Write_setup    == Step("S_WRITE_SETUP", "S_WRITE_CMD")
Write_wait     == Step("S_WRITE_WAIT", "S_WRITE_RECOVERY")
Write_recovery == Step("S_WRITE_RECOVERY", "S_PRECHARGE")

Write_cmd ==
  /\ state = "S_WRITE_CMD" /\ Goto("S_WRITE_WAIT")
  /\ Command3("WRITE", BankOf(addr_r), ColOf(addr_r))
  /\ UNCHANGED <<initVars, wait_cnt, ref_cnt, cas_cnt, trcd_cnt, adrVars, colVars>>

Vga_capture ==
  /\ state = "S_VGA_CAPTURE" /\ Nop
  /\ IF vga_col_cnt = BURST_WORDS - 1
     THEN Goto("S_VGA_PRECHARGE") /\ UNCHANGED <<vga_col_cnt, cas_cnt>>
     ELSE /\ Goto("S_VGA_READ")
          /\ vga_col_cnt' = (vga_col_cnt + 1) % 8 /\ cas_cnt' = 0
  /\ UNCHANGED <<initVars, wait_cnt, ref_cnt, trcd_cnt, adrVars, gpu_col_cnt>>

Gpu_write ==
  /\ state = "S_GPU_WRITE"
  /\ wr_data_r' = GPU_DAT
  /\ Command3("WRITE", BankOf(addr_r), BurstCol(gpu_col_cnt))
  /\ IF gpu_col_cnt = BURST_WORDS - 1
     THEN Goto("S_GPU_PRECHARGE") /\ UNCHANGED gpu_col_cnt
     ELSE gpu_col_cnt' = (gpu_col_cnt + 1) % 8 /\ UNCHANGED state
  /\ UNCHANGED <<initVars, wait_cnt, ref_cnt, cas_cnt, trcd_cnt, addr_r, we_r, vga_col_cnt>>

\* S_PRECHARGE, S_VGA_PRECHARGE, S_GPU_PRECHARGE
Precharge(s, next) ==
  /\ state = s /\ Goto(next)
  /\ Command3("PRECHG", BankOf(addr_r), 0)
  /\ trcd_cnt' = 0
  /\ UNCHANGED <<initVars, wait_cnt, ref_cnt, cas_cnt, adrVars, colVars>>

\* S_TRP_WAIT, S_VGA_TRP_WAIT, S_GPU_TRP_WAIT
Trp_wait ==
  /\ state \in {"S_TRP_WAIT", "S_VGA_TRP_WAIT", "S_GPU_TRP_WAIT"}
  /\ trcd_cnt' = (trcd_cnt + 1) % 4
  /\ state' = IF trcd_cnt = 1 THEN "S_IDLE" ELSE state
  /\ Nop
  /\ UNCHANGED <<initVars, wait_cnt, ref_cnt, cas_cnt, adrVars, colVars>>

P_sdram ==
  \/ Init_wait \/ Prechg_all \/ Prechg_wait \/ Init_refresh \/ Ref_wait
  \/ Load_mode \/ Mode_wait \/ Idle \/ Auto_refresh \/ Activate
  \/ Trcd_wait \/ Read_wait \/ Read_capture
  \/ Write_setup \/ Write_cmd \/ Write_wait \/ Write_recovery
  \/ Vga_capture \/ Gpu_write
  \/ Precharge("S_PRECHARGE", "S_TRP_WAIT")
  \/ Precharge("S_VGA_PRECHARGE", "S_VGA_TRP_WAIT")
  \/ Precharge("S_GPU_PRECHARGE", "S_GPU_TRP_WAIT")
  \/ Trp_wait

\* One 100 MHz edge: every process of the domain and the device.
SdramEdge(wr_req, wr_adr, pop) ==
  /\ P_req_latch /\ P_vga_latch /\ P_gpu_latch(wr_req, wr_adr)
  /\ P_data(pop) /\ P_sdram /\ ChipStep

\* One 50 MHz edge.
CpuEdge(op, adr, pop) == P_req_cpu(op) /\ P_vga(adr, pop)
=============================================================================
