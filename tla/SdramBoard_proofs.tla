------------------------- MODULE SdramBoard_proofs -------------------------
(***************************************************************************)
(* Type correctness, row discipline and timing of the SDRAM controller,    *)
(* for every geometry of the device, burst length, wait and interval, and  *)
(* for every choice of the addresses the three masters use.                *)
(***************************************************************************)
EXTENDS SdramBoard, SequenceTheorems, TLAPS

-----------------------------------------------------------------------------
(***************************************************************************)
(* The address fields.                                                     *)
(***************************************************************************)

\* Dividing a number below 2k by k.
LEMMA HalfDiv ==
  ASSUME NEW k \in Nat \ {0}, NEW a \in 0 .. 2 * k - 1
  PROVE  a \div k \in {0, 1}
OBVIOUS

LEMMA ModRange ==
  ASSUME NEW k \in Nat \ {0}, NEW a \in Nat
  PROVE  a % k \in 0 .. k - 1 /\ a \div k \in Nat
OBVIOUS

LEMMA Geometry ==
  /\ COLS \in Nat \ {0} /\ ROWS \in Nat \ {0}
  /\ ROWS * COLS \in Nat \ {0}
  /\ 2 * ROWS * COLS = 2 * (ROWS * COLS)
  /\ 4 * ROWS * COLS = 2 * (2 * ROWS * COLS)
  /\ Adr \subseteq Nat /\ 0 \in Adr
<1>1. COLS \in Nat \ {0} /\ ROWS \in Nat \ {0}
  BY GeometryAssumption
<1>2. ROWS * COLS \in Nat \ {0}
  BY <1>1
<1>3. 2 * ROWS * COLS = 2 * (ROWS * COLS) /\ 4 * ROWS * COLS = 4 * (ROWS * COLS)
  BY <1>1
<1> QED
  BY <1>1, <1>2, <1>3 DEF Adr

\* The controller splits every word address into fields that fit the device's
\* bank and address pins (dram_ba, dram_addr in S_ACTIVATE and the accesses).
LEMMA FieldsInRange ==
  ASSUME NEW a \in Adr
  PROVE  BankOf(a) \in Bank /\ RowOf(a) \in Row /\ ColOf(a) \in Col
<1> DEFINE K == 2 * ROWS * COLS
<1>1. a \in Nat /\ K \in Nat \ {0} /\ a \in 0 .. 2 * K - 1
  BY Geometry DEF Adr
<1>2. a \div K \in {0, 1}
  BY <1>1, HalfDiv
<1>3. a \div COLS \in Nat /\ a % COLS \in 0 .. COLS - 1
  BY <1>1, Geometry, ModRange
<1>4. (a \div COLS) % 2 \in 0 .. 1
  BY <1>3
<1>5. 2 * COLS \in Nat \ {0}
  BY Geometry
<1>6. a \div (2 * COLS) \in Nat
  BY <1>1, <1>5, ModRange
<1>7. (a \div (2 * COLS)) % ROWS \in 0 .. ROWS - 1
  BY <1>6, Geometry, ModRange
<1> QED
  BY <1>2, <1>3, <1>4, <1>7 DEF BankOf, RowOf, ColOf, Bank, Row, Col

LEMMA CellInRange ==
  ASSUME NEW b \in Bank, NEW r \in Row, NEW c \in Col
  PROVE  Cell(b, r, c) \in Adr
<1> DEFINE P == ROWS * COLS
<1> DEFINE Q == r * COLS
<1>1. b \div 2 \in {0, 1} /\ b % 2 \in {0, 1} /\ r \in Nat /\ c \in Nat
  BY DEF Bank, Row, Col
<1>2. P \in Nat /\ Q \in Nat /\ COLS \in Nat
  BY <1>1, Geometry
<1>3. Q + COLS <= P
  <2>1. r + 1 <= ROWS
    BY Geometry, <1>1 DEF Row
  <2>2. (r + 1) * COLS <= ROWS * COLS
    BY <2>1, <1>1, Geometry
  <2> QED
    BY <2>2, <1>1, Geometry
<1>4. 2 * ROWS * COLS * (b \div 2) \in {0, 2 * P}
  BY <1>1, Geometry, <1>2
<1>5. COLS * (b % 2) \in {0, COLS}
  BY <1>1, <1>2
<1>6. 2 * COLS * r = 2 * Q
  BY <1>1, <1>2
<1>7. c < COLS
  BY Geometry DEF Col
<1>8. Cell(b, r, c) \in 0 .. 4 * P - 1
  BY <1>1, <1>2, <1>3, <1>4, <1>5, <1>6, <1>7 DEF Cell
<1> QED
  BY <1>8, Geometry DEF Adr

-----------------------------------------------------------------------------
(***************************************************************************)
(* The inductive invariant.  TypeOK is not inductive alone: a READ fetches *)
(* a cell, so the pins must name one; and RowDiscipline speaks of the      *)
(* command on the pins only, so the rows that will be open behind it have  *)
(* to be known in every state of the state machine.                        *)
(***************************************************************************)
OpenStates ==
  {"S_TRCD_WAIT", "S_READ_WAIT", "S_READ_CAPTURE", "S_WRITE_SETUP",
   "S_WRITE_CMD", "S_WRITE_WAIT", "S_WRITE_RECOVERY", "S_PRECHARGE",
   "S_VGA_TRCD_WAIT", "S_VGA_READ", "S_VGA_CAPTURE", "S_VGA_PRECHARGE",
   "S_GPU_TRCD_WAIT", "S_GPU_WRITE", "S_GPU_PRECHARGE"}

BootStates == {"S_INIT", "S_PRECHG_ALL"}

ClosedStates == State \ (OpenStates \cup BootStates)

Configured ==
  /\ state \notin {"S_INIT", "S_PRECHG_ALL", "S_PRECHG_WAIT", "S_INIT_REFRESH", "S_LOAD_MODE"}
  /\ state = "S_REF_WAIT" => ~ref_init

NoRow   == [b \in Bank |-> CLOSED]
OnlyRow == [b \in Bank |-> IF b = BankOf(addr_r) THEN RowOf(addr_r) ELSE CLOSED]

PinsName ==
  /\ cmd = "ACTIVE" => dram_addr \in Row
  /\ cmd \in {"READ", "WRITE"} => dram_addr \in Col

Rows ==
  /\ state \in ClosedStates => OpenNext = NoRow
  /\ state \in OpenStates => OpenNext = OnlyRow
  /\ Configured => mode \/ cmd = "LOAD_MOD"

IInv == TypeOK /\ PinsName /\ Rows /\ RowDiscipline

-----------------------------------------------------------------------------
(***************************************************************************)
(* The initial states.                                                     *)
(***************************************************************************)
LEMMA InitTypeOK == Init => TypeOK
<1> SUFFICES ASSUME Init PROVE TypeOK
  OBVIOUS
<1> USE DEF Init, CtrlInit, ChipInit
<1>1. POWER_UP_MEM[0] \in DATA /\ 0 \in Adr /\ SomeOp \in Op
  BY Geometry, MemoryAssumption DEF SomeOp, Op
<1>2. Flat(FALSE) \in Chain
  BY DEF Flat, Chain
<1>3. MastersType
  BY <1>1 DEF MastersType
<1>4. ReqType
  <2>1. rd_data_cpu \in DATA \X DATA
    BY <1>1
  <2> QED
    BY <1>1, <1>2, <2>1 DEF ReqType
<1>5. VgaType
  <2>1. << >> \in Seq(DATA)
    BY EmptySeq
  <2>2. 0 \in 0 .. BURST_WORDS - 1
    BY CtrlAssumption
  <2> QED
    BY <1>1, <1>2, <2>1, <2>2 DEF VgaType
<1>6. GpuType
  BY <1>1 DEF GpuType
<1>7. FsmType /\ AccessType /\ PinsType
  <2>1. "S_INIT" \in State /\ "NOP" \in Command /\ 0 \in Bank /\ 0 \in Pins
    BY DEF State, Command, Bank, Pins
  <2>2. REFRESH_INTERVAL \in RefCounts /\ 0 \in InitCounts
    BY CtrlAssumption DEF RefCounts, InitCounts
  <2>3. /\ state = "S_INIT" /\ init_cnt = 0 /\ refresh_cnt = 0 /\ wait_cnt = 0
        /\ ref_init = FALSE /\ ref_cnt = REFRESH_INTERVAL /\ cas_cnt = 0 /\ trcd_cnt = 0
        /\ addr_r = 0 /\ we_r = FALSE /\ wr_data_r = POWER_UP_MEM[0]
        /\ vga_col_cnt = 0 /\ gpu_col_cnt = 0
        /\ cmd = "NOP" /\ dram_ba = 0 /\ dram_addr = 0 /\ dq_oe = FALSE
    OBVIOUS
  <2> HIDE DEF Init, CtrlInit, ChipInit
  <2>4. /\ refresh_cnt \in 0 .. 15 /\ wait_cnt \in 0 .. 7
        /\ cas_cnt \in 0 .. 7 /\ trcd_cnt \in 0 .. 3
        /\ vga_col_cnt \in 0 .. 7 /\ gpu_col_cnt \in 0 .. 7
    BY <2>3
  <2>5. ref_init \in BOOLEAN /\ we_r \in BOOLEAN /\ dq_oe \in BOOLEAN
    BY <2>3
  <2>6. /\ state \in State /\ ref_cnt \in RefCounts /\ init_cnt \in InitCounts
        /\ addr_r \in Adr /\ wr_data_r \in DATA
    BY <1>1, <2>1, <2>2, <2>3
  <2>7. cmd \in Command /\ dram_ba \in Bank /\ dram_addr \in Pins
    BY <2>1, <2>3
  <2> QED
    BY <2>4, <2>5, <2>6, <2>7 DEF FsmType, AccessType, PinsType
<1>8. ChipType
  BY <1>1, MemoryAssumption DEF ChipType, Cap
<1> QED
  BY <1>3, <1>4, <1>5, <1>6, <1>7, <1>8 DEF TypeOK

LEMMA InitRows == Init => PinsName /\ Rows /\ RowDiscipline
  BY DEF Init, CtrlInit, PinsName, Rows, RowDiscipline, ClosedStates, BootStates,
         OpenStates, Configured

-----------------------------------------------------------------------------
(***************************************************************************)
(* Types, process by process.                                              *)
(***************************************************************************)

\* What every edge does on the 100 MHz side.
Edge100 ==
  \E wr_req \in BOOLEAN, wr_adr \in Adr, pop \in BOOLEAN :
    /\ pop => VgaPop
    /\ SdramEdge(wr_req, wr_adr, pop)

LEMMA NextIsEdge ==
  ASSUME TypeOK, Next
  PROVE  Edge100 /\ Gpu /\ P_sync_req
<1>1. gpu_wr_req \in BOOLEAN /\ gpu_wr_adr \in Adr
  BY DEF TypeOK, MastersType
<1>2. CASE FastEdge
  BY <1>1, <1>2 DEF FastEdge, Edge100
<1>3. ASSUME NEW op \in CPU_OPS \cup {NoOp}, NEW adr \in VGA_ADRS \cup {NoOp},
             NEW pop \in BOOLEAN, BothEdges(op, adr, pop)
      PROVE  Edge100 /\ Gpu /\ P_sync_req
  BY <1>1, <1>3 DEF BothEdges, Edge100
<1> QED
  BY <1>2, <1>3 DEF Next

LEMMA SyncType ==
  ASSUME NEW chain \in Chain, NEW b \in BOOLEAN
  PROVE  Sync(chain, b) \in Chain
  BY DEF Chain, Sync

LEMMA MastersStep ==
  ASSUME TypeOK, Next
  PROVE  MastersType'
<1> USE DEF TypeOK, MastersType
<1>1. gpu_wait' \in BOOLEAN /\ gpu_wr_req' \in BOOLEAN /\ gpu_wr_adr' \in Adr
  <2>1. Gpu /\ gpu_done_r \in BOOLEAN
    BY NextIsEdge DEF GpuType
  <2>2. gpu_wait' \in BOOLEAN /\ gpu_wr_req' \in BOOLEAN
    BY <2>1, Zenon DEF Gpu
  <2>3. gpu_wr_adr' \in Adr
    BY <2>1, MastersAssumption DEF Gpu
  <2> QED
    BY <2>2, <2>3
<1>2. CASE FastEdge
  BY <1>1, <1>2 DEF FastEdge
<1>3. ASSUME NEW op \in CPU_OPS \cup {NoOp}, NEW adr \in VGA_ADRS \cup {NoOp},
             NEW pop \in BOOLEAN, BothEdges(op, adr, pop)
      PROVE  MastersType'
  <2>1. phase' \in {0, 1} /\ Cpu(op)
    BY <1>3 DEF BothEdges
  <2>2. cpu' \in CPU_OPS \cup {NoOp}
    BY <2>1 DEF Cpu
  <2>3. rd_data_cpu[2] \in DATA
    BY DEF ReqType
  <2>4. cpu_dat' \in DATA
    BY <2>1, <2>3 DEF Cpu
  <2> QED
    BY <1>1, <2>1, <2>2, <2>4
<1> QED
  BY <1>2, <1>3 DEF Next

\* The single-word port: both ends of its handshake.
LEMMA ReqStep ==
  ASSUME TypeOK, Next
  PROVE  ReqType'
<1> USE DEF TypeOK, ReqType
<1>1. PICK wr_req \in BOOLEAN, wr_adr \in Adr, pop \in BOOLEAN :
        SdramEdge(wr_req, wr_adr, pop)
  BY NextIsEdge DEF Edge100
<1>2. rd_data_hold' \in DATA
  BY <1>1 DEF SdramEdge, P_data, ChipType
<1>3. ack_toggle' \in BOOLEAN
  BY <1>1 DEF SdramEdge, P_data
<1>4. req' \in Op
  BY <1>1 DEF SdramEdge, P_req_latch
<1>5. req_valid' \in BOOLEAN /\ req_accept_toggle' \in BOOLEAN
  BY <1>1, Zenon DEF SdramEdge, P_req_latch
<1>6. CASE FastEdge
  <2>1. UNCHANGED <<reqCpuVars, accept_sync, ack_sync, rd_data_cpu>>
    BY <1>6 DEF FastEdge
  <2>2. req_sync' \in Chain
    BY <2>1, NextIsEdge, SyncType DEF P_sync_req, reqCpuVars
  <2> QED
    BY <1>2, <1>3, <1>4, <1>5, <2>1, <2>2 DEF reqCpuVars
<1>7. ASSUME NEW op \in CPU_OPS \cup {NoOp}, NEW adr \in VGA_ADRS \cup {NoOp},
             NEW popped \in BOOLEAN, BothEdges(op, adr, popped)
      PROVE  ReqType'
  <2>1. P_req_cpu(op) /\ P_sync_ack /\ P_sync_req
    BY <1>7 DEF BothEdges, CpuEdge
  <2>2. req_shadow' \in Op
    BY <2>1, MastersAssumption DEF P_req_cpu
  <2>3. req_toggle_cpu' \in BOOLEAN /\ req_busy_cpu' \in BOOLEAN
    BY <2>1, Zenon DEF P_req_cpu
  <2>4. accept_sync' \in Chain /\ ack_sync' \in Chain
    BY <1>3, <1>5, <2>1, SyncType DEF P_sync_ack
  <2>5. req_sync' \in Chain
    BY <2>1, <2>3, SyncType DEF P_sync_req
  <2>6. rd_data_cpu' \in DATA \X DATA
    BY <2>1, <1>2 DEF P_sync_ack
  <2> QED
    BY <1>2, <1>3, <1>4, <1>5, <2>2, <2>3, <2>4, <2>5, <2>6
<1> QED
  BY <1>6, <1>7 DEF Next

\* The VGA port, its latch and its FIFO.
LEMMA VgaStep ==
  ASSUME TypeOK, Next
  PROVE  VgaType'
<1> USE DEF TypeOK, VgaType
<1>1. PICK wr_req \in BOOLEAN, wr_adr \in Adr, pop \in BOOLEAN :
        (pop => VgaPop) /\ SdramEdge(wr_req, wr_adr, pop)
  BY NextIsEdge DEF Edge100
<1>2. vga_valid' \in BOOLEAN /\ vga_adr' \in Adr
  <2>1. vga_valid' = ((vga_valid \/ VgaFire) /\ ~TrpDone("S_VGA_TRP_WAIT"))
    BY <1>1 DEF SdramEdge, P_vga_latch
  <2>2. vga_adr' \in Adr
    BY <1>1 DEF SdramEdge, P_vga_latch
  <2> QED
    BY <2>1, <2>2
<1>3. vga_fifo_wr' \in DATA \cup {NoOp}
  BY <1>1 DEF SdramEdge, P_data, ChipType
<1>4. vga_fifo' \in Seq(DATA)
  <2> DEFINE left == IF pop THEN Tail(vga_fifo) ELSE vga_fifo
  <2>1. vga_fifo' = IF vga_fifo_wr = NoOp \/ Len(vga_fifo) = BURST_WORDS
                    THEN left ELSE Append(left, vga_fifo_wr)
    BY <1>1 DEF SdramEdge, P_data
  <2>2. left \in Seq(DATA)
    BY <1>1, HeadTailProperties DEF VgaPop
  <2>3. vga_fifo_wr # NoOp => Append(left, vga_fifo_wr) \in Seq(DATA)
    <3> HIDE DEF left
    <3> QED BY <2>2, AppendProperties
  <2> QED
    BY <2>1, <2>2, <2>3
<1>5. CASE FastEdge
  <2>1. UNCHANGED vgaCpuVars
    BY <1>5 DEF FastEdge
  <2>2. vga_sync' \in Chain
    BY <2>1, NextIsEdge, SyncType DEF P_sync_req, vgaCpuVars
  <2> QED
    BY <1>2, <1>3, <1>4, <2>1, <2>2 DEF vgaCpuVars
<1>6. ASSUME NEW op \in CPU_OPS \cup {NoOp}, NEW adr \in VGA_ADRS \cup {NoOp},
             NEW popped \in BOOLEAN, BothEdges(op, adr, popped)
      PROVE  VgaType'
  <2>1. P_vga(adr, popped) /\ P_sync_req
    BY <1>6 DEF BothEdges, CpuEdge
  <2> DEFINE new == adr # NoOp /\ ~vga_req_pending
             last == vga_fifo_pop_cnt = BURST_WORDS - 1
  <2>2. vga_shadow_adr' \in Adr
    BY <2>1, MastersAssumption DEF P_vga
  <2>3. vga_toggle_cpu' = (vga_toggle_cpu # new)
    BY <2>1 DEF P_vga
  <2>4. vga_req_pending' = (new \/ (vga_req_pending /\ ~(popped /\ last)))
    BY <2>1 DEF P_vga
  <2>5. vga_toggle_cpu' \in BOOLEAN /\ vga_req_pending' \in BOOLEAN
    BY <2>3, <2>4, Zenon
  <2>6. vga_fifo_pop_cnt' \in 0 .. BURST_WORDS - 1
    BY <2>1, CtrlAssumption DEF P_vga
  <2>7. vga_sync' \in Chain
    BY <2>1, <2>5, SyncType DEF P_sync_req
  <2> QED
    BY <1>2, <1>3, <1>4, <2>2, <2>5, <2>6, <2>7
<1> QED
  BY <1>5, <1>6 DEF Next

LEMMA GpuStep ==
  ASSUME TypeOK, Next
  PROVE  GpuType'
<1>1. PICK wr_req \in BOOLEAN, wr_adr \in Adr, pop \in BOOLEAN :
        SdramEdge(wr_req, wr_adr, pop)
  BY NextIsEdge DEF Edge100
<1>2. gpu_adr_r' \in Adr
  BY <1>1 DEF SdramEdge, P_gpu_latch, TypeOK, GpuType
<1>3. gpu_done_r' = TrpDone("S_GPU_TRP_WAIT")
  BY <1>1 DEF SdramEdge, P_gpu_latch
<1>4. gpu_wr_valid' = ((gpu_wr_valid \/ wr_req) /\ ~TrpDone("S_GPU_TRP_WAIT"))
  BY <1>1 DEF SdramEdge, P_gpu_latch
<1> QED
  BY <1>2, <1>3, <1>4 DEF GpuType, TrpDone

\* The device: a READ needs pins that name a cell of the open row.
LEMMA OpenNextType ==
  ASSUME TypeOK, PinsName
  PROVE  OpenNext \in [Bank -> Row \cup {CLOSED}]
<1> USE DEF TypeOK, PinsType, ChipType
<1>1. CASE cmd = "ACTIVE"
  BY <1>1 DEF OpenNext, PinsName
<1>2. CASE cmd = "PRECHG"
  BY <1>2 DEF OpenNext
<1>3. CASE cmd \notin {"ACTIVE", "PRECHG"}
  BY <1>3 DEF OpenNext
<1> QED
  BY <1>1, <1>2, <1>3

LEMMA ChipTypeStep ==
  ASSUME TypeOK, PinsName, Next
  PROVE  ChipType'
<1> USE DEF TypeOK, ChipType
<1>1. ChipStep
  BY NextIsEdge DEF Edge100, SdramEdge
<1>2. open' \in [Bank -> Row \cup {CLOSED}]
  BY <1>1, OpenNextType DEF ChipStep
<1>3. mode' \in BOOLEAN
  BY <1>1, Zenon DEF ChipStep
<1>4. age' \in [Timed -> Nat]
  <2>1. age' = [c \in Timed |->
               IF c = cmd THEN 1
               ELSE IF age[c] < Cap(c) THEN age[c] + 1 ELSE age[c]]
    BY <1>1 DEF ChipStep
  <2>2. \A c \in Timed : age[c] \in Nat
    OBVIOUS
  <2> QED
    BY <2>1, <2>2
<1>5. CASE cmd = "READ"
  <2>1. /\ dq' \in DATA \/ (open[dram_ba] # CLOSED /\ dq' = mem[Addressed])
        /\ mem' = mem
    BY <1>1, <1>5 DEF ChipStep, Access
  <2>2. open[dram_ba] # CLOSED => Addressed \in Adr
    BY <1>5, CellInRange DEF Addressed, PinsName, PinsType
  <2> QED
    BY <1>2, <1>3, <1>4, <2>1, <2>2
<1>6. CASE cmd # "READ"
  <2>1. \/ UNCHANGED mem
        \/ \E w \in DATA : mem' = [mem EXCEPT ![Addressed] = w]
    <3>1. wr_data_r \in DATA
      BY DEF AccessType
    <3> QED
      BY <1>1, <1>6, <3>1 DEF ChipStep, Access
  <2>2. mem' \in [Adr -> DATA]
    BY <2>1
  <2>3. dq' \in DATA
    BY <1>1, <1>6 DEF ChipStep, Access
  <2> QED
    BY <1>2, <1>3, <1>4, <2>2, <2>3
<1> QED
  BY <1>5, <1>6

-----------------------------------------------------------------------------
(***************************************************************************)
(* The registers of the state machine: one step per state.                 *)
(***************************************************************************)
LEMMA BurstColRange ==
  ASSUME AccessType, NEW k \in 0 .. 7
  PROVE  BurstCol(k) \in Col
<1>1. ColOf(addr_r) \in Nat /\ COLS \in Nat \ {0}
  BY FieldsInRange, Geometry DEF AccessType, Col
<1>2. ColOf(addr_r) + k \in Nat
  BY <1>1
<1>3. (ColOf(addr_r) + k) % COLS \in 0 .. COLS - 1
  BY <1>1, <1>2, ModRange
<1> QED
  BY <1>3 DEF BurstCol, Col

LEMMA FieldsArePins ==
  0 \in Bank /\ 0 \in Pins /\ A10 \in Pins /\ 48 \in Pins /\ Row \subseteq Pins /\ Col \subseteq Pins
<1>1. 0 \in Bank /\ 0 \in Pins /\ A10 \in Pins /\ 48 \in Pins
  BY DEF Bank, Pins, A10
<1>2. Row \subseteq Pins
  BY GeometryAssumption DEF Row, Pins
<1>3. Col \subseteq Pins
  BY GeometryAssumption DEF Col, Pins
<1> QED
  BY <1>1, <1>2, <1>3

LEMMA PinsStep ==
  ASSUME TypeOK, NEW pop \in BOOLEAN, P_sdram, P_data(pop)
  PROVE  PinsType'
<1>1. AccessType /\ PinsType
  BY DEF TypeOK
<1>2. dq_oe' = (state \in {"S_WRITE_SETUP", "S_WRITE_CMD", "S_WRITE_WAIT", "S_GPU_WRITE"})
  BY DEF P_data
<1>3. BankOf(addr_r) \in Bank /\ RowOf(addr_r) \in Pins /\ ColOf(addr_r) \in Pins
  BY <1>1, FieldsInRange, FieldsArePins DEF AccessType
<1>4. BurstCol(vga_col_cnt) \in Pins /\ BurstCol(gpu_col_cnt) \in Pins
  BY <1>1, BurstColRange, FieldsArePins DEF AccessType
<1>5. \/ cmd' = "NOP" /\ UNCHANGED <<dram_ba, dram_addr>>
      \/ cmd' = "AUTO_REF" /\ UNCHANGED <<dram_ba, dram_addr>>
      \/ Command3("PRECHG", 0, A10)
      \/ Command3("LOAD_MOD", 0, 48)
      \/ Command3("ACTIVE", BankOf(addr_r), RowOf(addr_r))
      \/ Command3("READ", BankOf(addr_r), ReadCol)
      \/ Command3("WRITE", BankOf(addr_r), ColOf(addr_r))
      \/ Command3("WRITE", BankOf(addr_r), BurstCol(gpu_col_cnt))
      \/ Command3("PRECHG", BankOf(addr_r), 0)
  BY DEF P_sdram, Init_wait, Prechg_all, Prechg_wait, Init_refresh, Ref_wait, Load_mode,
         Mode_wait, Idle, Auto_refresh, Activate, Trcd_wait, Read_wait, Read_capture,
         Write_setup, Write_cmd, Write_wait, Write_recovery, Vga_capture, Gpu_write,
         Precharge, Trp_wait, Wait, Step, Nop
<1>6. cmd' \in Command
  BY <1>5 DEF Command3, Command
<1>7. dram_ba' \in Bank /\ dram_addr' \in Pins
  BY <1>1, <1>3, <1>4, <1>5, FieldsArePins DEF Command3, ReadCol, PinsType
<1> QED
  BY <1>2, <1>6, <1>7 DEF PinsType

LEMMA AccessStep ==
  ASSUME TypeOK, P_sdram
  PROVE  AccessType'
<1>1. \/ UNCHANGED <<addr_r, we_r, wr_data_r>>
      \/ addr_r' = vga_adr /\ we_r' = FALSE /\ UNCHANGED wr_data_r
      \/ addr_r' = gpu_adr_r /\ we_r' = TRUE /\ wr_data_r' = GPU_DAT
      \/ addr_r' = req.adr /\ we_r' = req.we /\ wr_data_r' = req.dat
      \/ wr_data_r' = GPU_DAT /\ UNCHANGED <<addr_r, we_r>>
  BY DEF P_sdram, Init_wait, Prechg_all, Prechg_wait, Init_refresh, Ref_wait, Load_mode,
         Mode_wait, Idle, Auto_refresh, Activate, Trcd_wait, Read_wait, Read_capture,
         Write_setup, Write_cmd, Write_wait, Write_recovery, Vga_capture, Gpu_write,
         Precharge, Trp_wait, Wait, Step, Pick, adrVars
<1>2. vga_col_cnt' = vga_col_cnt \/ vga_col_cnt' = 0 \/ vga_col_cnt' = (vga_col_cnt + 1) % 8
  BY DEF P_sdram, Init_wait, Prechg_all, Prechg_wait, Init_refresh, Ref_wait, Load_mode,
         Mode_wait, Idle, Auto_refresh, Activate, Trcd_wait, Read_wait, Read_capture,
         Write_setup, Write_cmd, Write_wait, Write_recovery, Vga_capture, Gpu_write,
         Precharge, Trp_wait, Wait, Step, Pick, colVars
<1>3. gpu_col_cnt' = gpu_col_cnt \/ gpu_col_cnt' = 0 \/ gpu_col_cnt' = (gpu_col_cnt + 1) % 8
  BY DEF P_sdram, Init_wait, Prechg_all, Prechg_wait, Init_refresh, Ref_wait, Load_mode,
         Mode_wait, Idle, Auto_refresh, Activate, Trcd_wait, Read_wait, Read_capture,
         Write_setup, Write_cmd, Write_wait, Write_recovery, Vga_capture, Gpu_write,
         Precharge, Trp_wait, Wait, Step, Pick, colVars
<1>4. vga_adr \in Adr /\ gpu_adr_r \in Adr /\ req \in Op /\ AccessType
  BY DEF TypeOK, VgaType, GpuType, ReqType
<1>5. addr_r' \in Adr /\ we_r' \in BOOLEAN /\ wr_data_r' \in DATA
  <2>1. req.adr \in Adr /\ req.we \in BOOLEAN /\ req.dat \in DATA
    BY <1>4 DEF Op
  <2>2. addr_r' \in Adr
    BY <1>1, <1>4, <2>1 DEF AccessType
  <2>3. we_r' \in BOOLEAN
    BY <1>1, <1>4, <2>1, Zenon DEF AccessType
  <2>4. wr_data_r' \in DATA
    BY <1>1, <1>4, <2>1, CtrlAssumption DEF AccessType
  <2> QED
    BY <2>2, <2>3, <2>4
<1>6. vga_col_cnt' \in 0 .. 7 /\ gpu_col_cnt' \in 0 .. 7
  BY <1>2, <1>3, <1>4 DEF AccessType
<1> QED
  BY <1>5, <1>6 DEF AccessType

\* A counter of fewer than n stays below n when it wraps.
LEMMA CounterWraps ==
  ASSUME NEW n \in Nat \ {0}, NEW x \in 0 .. n - 1, NEW k \in Nat
  PROVE  (x + k) % n \in 0 .. n - 1
<1>1. x + k \in Nat
  OBVIOUS
<1> QED
  BY <1>1, ModRange

LEMMA InitCountWraps == \A x \in InitCounts : (x + 1) % 32768 \in InitCounts
<1> DEFINE n == 32768
<1>1. n \in Nat \ {0} /\ InitCounts = 0 .. n - 1
  BY DEF InitCounts
<1>2. \A x \in InitCounts : (x + 1) % n \in InitCounts
  <2> HIDE DEF n
  <2> QED
    BY <1>1, CounterWraps
<1> QED
  BY <1>2

LEMMA RefCountWraps == \A x \in RefCounts : (x + 1023) % 1024 \in RefCounts
<1> DEFINE n == 1024
<1>1. n \in Nat \ {0} /\ RefCounts = 0 .. n - 1
  BY DEF RefCounts
<1>2. \A x \in RefCounts : (x + 1023) % n \in RefCounts
  <2> HIDE DEF n
  <2> QED
    BY <1>1, CounterWraps
<1> QED
  BY <1>2

LEMMA FsmStep ==
  ASSUME TypeOK, P_sdram
  PROVE  FsmType'
<1>1. FsmType
  BY DEF TypeOK
<1>2. init_cnt' \in InitCounts
  <2>1. init_cnt \in InitCounts
    BY <1>1 DEF FsmType
  <2>2. init_cnt' = init_cnt \/ init_cnt' = (init_cnt + 1) % 32768
    BY DEF P_sdram, Init_wait, Prechg_all, Prechg_wait, Init_refresh, Ref_wait, Load_mode,
         Mode_wait, Idle, Auto_refresh, Activate, Trcd_wait, Read_wait, Read_capture,
         Write_setup, Write_cmd, Write_wait, Write_recovery, Vga_capture, Gpu_write,
         Precharge, Trp_wait, Wait, Step, initVars
  <2>3. (init_cnt + 1) % 32768 \in InitCounts
    BY <2>1, InitCountWraps
  <2>4. CASE init_cnt' = init_cnt
    BY <2>1, <2>4
  <2>5. CASE init_cnt' = (init_cnt + 1) % 32768
    BY <2>3, <2>5
  <2> QED
    BY <2>2, <2>4, <2>5
<1>3. refresh_cnt' \in 0 .. 15
  <2>1. refresh_cnt \in 0 .. 15
    BY <1>1 DEF FsmType
  <2>2. refresh_cnt' = refresh_cnt \/ refresh_cnt' = 0 \/ refresh_cnt' = (refresh_cnt + 1) % 16
    BY DEF P_sdram, Init_wait, Prechg_all, Prechg_wait, Init_refresh, Ref_wait, Load_mode,
         Mode_wait, Idle, Auto_refresh, Activate, Trcd_wait, Read_wait, Read_capture,
         Write_setup, Write_cmd, Write_wait, Write_recovery, Vga_capture, Gpu_write,
         Precharge, Trp_wait, Wait, Step, initVars
  <2> QED
    BY <2>1, <2>2
<1>4. ref_init' \in BOOLEAN
  <2>1. ref_init \in BOOLEAN
    BY <1>1 DEF FsmType
  <2>2. ref_init' = ref_init \/ ref_init' = TRUE \/ ref_init' = FALSE
    BY DEF P_sdram, Init_wait, Prechg_all, Prechg_wait, Init_refresh, Ref_wait, Load_mode,
         Mode_wait, Idle, Auto_refresh, Activate, Trcd_wait, Read_wait, Read_capture,
         Write_setup, Write_cmd, Write_wait, Write_recovery, Vga_capture, Gpu_write,
         Precharge, Trp_wait, Wait, Step, initVars
  <2> QED
    BY <2>1, <2>2
<1>5. wait_cnt' \in 0 .. 7
  <2>1. wait_cnt \in 0 .. 7
    BY <1>1 DEF FsmType
  <2>2. wait_cnt' = wait_cnt \/ wait_cnt' = 0 \/ wait_cnt' = (wait_cnt + 1) % 8
    BY DEF P_sdram, Init_wait, Prechg_all, Prechg_wait, Init_refresh, Ref_wait, Load_mode,
         Mode_wait, Idle, Auto_refresh, Activate, Trcd_wait, Read_wait, Read_capture,
         Write_setup, Write_cmd, Write_wait, Write_recovery, Vga_capture, Gpu_write,
         Precharge, Trp_wait, Wait, Step
  <2> QED
    BY <2>1, <2>2
<1>6. ref_cnt' \in RefCounts
  <2>1. ref_cnt \in RefCounts /\ REFRESH_INTERVAL \in RefCounts
    BY <1>1, CtrlAssumption DEF FsmType, RefCounts
  <2>2. ref_cnt' = ref_cnt \/ ref_cnt' = REFRESH_INTERVAL \/ ref_cnt' = (ref_cnt + 1023) % 1024
    BY DEF P_sdram, Init_wait, Prechg_all, Prechg_wait, Init_refresh, Ref_wait, Load_mode,
         Mode_wait, Idle, Auto_refresh, Activate, Trcd_wait, Read_wait, Read_capture,
         Write_setup, Write_cmd, Write_wait, Write_recovery, Vga_capture, Gpu_write,
         Precharge, Trp_wait, Wait, Step
  <2>3. (ref_cnt + 1023) % 1024 \in RefCounts
    BY <2>1, RefCountWraps
  <2>4. CASE ref_cnt' = ref_cnt \/ ref_cnt' = REFRESH_INTERVAL
    BY <2>1, <2>4
  <2>5. CASE ref_cnt' = (ref_cnt + 1023) % 1024
    BY <2>3, <2>5
  <2> QED
    BY <2>2, <2>4, <2>5
<1>7. cas_cnt' \in 0 .. 7
  <2>1. cas_cnt \in 0 .. 7
    BY <1>1 DEF FsmType
  <2>2. cas_cnt' = cas_cnt \/ cas_cnt' = 0 \/ cas_cnt' = (cas_cnt + 1) % 8
    BY DEF P_sdram, Init_wait, Prechg_all, Prechg_wait, Init_refresh, Ref_wait, Load_mode,
         Mode_wait, Idle, Auto_refresh, Activate, Trcd_wait, Read_wait, Read_capture,
         Write_setup, Write_cmd, Write_wait, Write_recovery, Vga_capture, Gpu_write,
         Precharge, Trp_wait, Wait, Step
  <2> QED
    BY <2>1, <2>2
<1>8. trcd_cnt' \in 0 .. 3
  <2>1. trcd_cnt \in 0 .. 3
    BY <1>1 DEF FsmType
  <2>2. trcd_cnt' = trcd_cnt \/ trcd_cnt' = 0 \/ trcd_cnt' = (trcd_cnt + 1) % 4
    BY DEF P_sdram, Init_wait, Prechg_all, Prechg_wait, Init_refresh, Ref_wait, Load_mode,
         Mode_wait, Idle, Auto_refresh, Activate, Trcd_wait, Read_wait, Read_capture,
         Write_setup, Write_cmd, Write_wait, Write_recovery, Vga_capture, Gpu_write,
         Precharge, Trp_wait, Wait, Step
  <2> QED
    BY <2>1, <2>2
<1>9. state' \in State
  <2>1. state \in State
    BY <1>1 DEF FsmType
  <2> QED
    BY <2>1 DEF P_sdram, Init_wait, Prechg_all, Prechg_wait, Init_refresh, Ref_wait, Load_mode,
         Mode_wait, Idle, Auto_refresh, Activate, Trcd_wait, Read_wait, Read_capture,
         Write_setup, Write_cmd, Write_wait, Write_recovery, Vga_capture, Gpu_write,
         Precharge, Trp_wait, Wait, Step, Pick, TrcdNext, Goto, State
<1> QED
  BY <1>2, <1>3, <1>4, <1>5, <1>6, <1>7, <1>8, <1>9 DEF FsmType

LEMMA TypeStep ==
  ASSUME TypeOK, PinsName, Next
  PROVE  TypeOK'
<1>1. PICK wr_req \in BOOLEAN, wr_adr \in Adr, pop \in BOOLEAN :
        SdramEdge(wr_req, wr_adr, pop)
  BY NextIsEdge DEF Edge100
<1>2. P_sdram /\ P_data(pop)
  BY <1>1 DEF SdramEdge
<1> QED
  BY <1>2, MastersStep, ReqStep, VgaStep, GpuStep, FsmStep, AccessStep, PinsStep,
     ChipTypeStep DEF TypeOK

-----------------------------------------------------------------------------
(***************************************************************************)
(* The rows: what a step does to them depends on the command it registers. *)
(***************************************************************************)
RowInv == PinsName /\ Rows /\ RowDiscipline

\* No command: the states before and after are of one class.
LEMMA AfterNop ==
  ASSUME RowInv, ChipStep, cmd' = "NOP",
         state' \in ClosedStates => state \in ClosedStates,
         state' \in OpenStates => state \in OpenStates /\ addr_r' = addr_r,
         Configured' => Configured
  PROVE  RowInv'
<1>1. PinsName' /\ RowDiscipline'
  BY DEF PinsName, RowDiscipline
<1>2. OpenNext' = OpenNext
  BY DEF ChipStep, OpenNext
<1>3. NoRow' = NoRow /\ (addr_r' = addr_r => OnlyRow' = OnlyRow)
  BY DEF NoRow, OnlyRow
<1>4. Configured' => mode'
  BY DEF RowInv, Rows, ChipStep
<1> QED
  BY <1>1, <1>2, <1>3, <1>4 DEF RowInv, Rows

\* AUTO REFRESH and LOAD MODE, given between accesses only.
LEMMA AfterRefresh ==
  ASSUME RowInv, ChipStep, cmd' \in {"AUTO_REF", "LOAD_MOD"},
         state \in ClosedStates, state' \notin OpenStates,
         Configured' => Configured \/ cmd' = "LOAD_MOD"
  PROVE  RowInv'
<1>1. open' = NoRow
  BY DEF RowInv, Rows, ChipStep
<1>2. PinsName'
  BY DEF PinsName
<1>3. RowDiscipline'
  BY <1>1 DEF RowDiscipline, AllClosed, NoRow
<1>4. OpenNext' = open' /\ NoRow' = NoRow
  BY DEF OpenNext, NoRow
<1>5. Configured' => mode' \/ cmd' = "LOAD_MOD"
  BY DEF RowInv, Rows, ChipStep
<1> QED
  BY <1>1, <1>2, <1>3, <1>4, <1>5 DEF RowInv, Rows

\* READ and WRITE: the row of addr_r is open and stays so.
LEMMA AfterAccess ==
  ASSUME RowInv, ChipStep, cmd' \in {"READ", "WRITE"}, AccessType,
         dram_ba' = BankOf(addr_r), dram_addr' \in Col,
         state \in OpenStates, state' \in OpenStates, addr_r' = addr_r
  PROVE  RowInv'
<1>1. open' = OnlyRow
  BY DEF RowInv, Rows, ChipStep
<1>2. Configured /\ mode'
  BY DEF RowInv, Rows, ChipStep, OpenStates, Configured
<1>3. PinsName'
  BY DEF PinsName
<1>4. open'[dram_ba'] = RowOf(addr_r)
  BY <1>1, FieldsInRange DEF OnlyRow, AccessType
<1>5. RowDiscipline'
  BY <1>2, <1>4 DEF RowDiscipline
<1>6. OpenNext' = open' /\ OnlyRow' = OnlyRow
  BY DEF OpenNext, OnlyRow
<1> QED
  BY <1>1, <1>2, <1>3, <1>5, <1>6 DEF RowInv, Rows, ClosedStates

\* PRECHARGE of the bank of addr_r, at the end of an access.
LEMMA AfterPrecharge ==
  ASSUME RowInv, ChipStep, cmd' = "PRECHG", AccessType,
         dram_ba' = BankOf(addr_r),
         state \in OpenStates, state' \notin OpenStates
  PROVE  RowInv'
<1>1. open' = OnlyRow /\ NoRow' = NoRow
  BY DEF RowInv, Rows, ChipStep, NoRow
<1>2. Configured /\ mode'
  BY DEF RowInv, Rows, ChipStep, OpenStates, Configured
<1>3. PinsName' /\ RowDiscipline'
  BY DEF PinsName, RowDiscipline
<1>4. OpenNext' = [b \in Bank |-> IF Closes(b)' THEN CLOSED ELSE open'[b]]
  BY DEF OpenNext
<1>5. \A b \in Bank : ~Closes(b)' => open'[b] = CLOSED
  BY <1>1 DEF Closes, OnlyRow
<1>6. OpenNext' = NoRow
  BY <1>4, <1>5 DEF NoRow
<1> QED
  BY <1>1, <1>2, <1>3, <1>6 DEF RowInv, Rows

\* PRECHARGE of all banks, whatever is open after a power-up or a reset.
LEMMA AfterPrechargeAll ==
  ASSUME Prechg_all, ChipStep
  PROVE  RowInv'
<1>1. cmd' = "PRECHG" /\ dram_addr' = A10 /\ state' = "S_PRECHG_WAIT"
  BY DEF Prechg_all, Command3, Goto
<1>2. PinsName' /\ RowDiscipline' /\ ~Configured'
  BY <1>1 DEF PinsName, RowDiscipline, Configured
<1>3. \A b \in Bank : Closes(b)'
  BY <1>1 DEF Closes, A10
<1>4. OpenNext' = NoRow /\ NoRow' = NoRow
  BY <1>1, <1>3 DEF OpenNext, NoRow
<1>5. state' \notin OpenStates
  BY <1>1 DEF OpenStates
<1> QED
  BY <1>2, <1>4, <1>5 DEF RowInv, Rows

\* ACTIVE: the row of addr_r is opened, with every bank closed before.
LEMMA AfterActivate ==
  ASSUME RowInv, ChipStep, Activate, AccessType
  PROVE  RowInv'
<1>1. /\ cmd' = "ACTIVE" /\ dram_ba' = BankOf(addr_r) /\ dram_addr' = RowOf(addr_r)
      /\ addr_r' = addr_r
      /\ state' \in {"S_VGA_TRCD_WAIT", "S_GPU_TRCD_WAIT", "S_TRCD_WAIT"}
  BY DEF Activate, Command3, Goto, adrVars
<1>2. state = "S_ACTIVATE" /\ state \in ClosedStates /\ Configured
  BY DEF Activate, ClosedStates, OpenStates, BootStates, State, Configured
<1>3. open' = NoRow /\ mode'
  BY <1>2 DEF RowInv, Rows, ChipStep, Activate
<1>4. BankOf(addr_r) \in Bank /\ RowOf(addr_r) \in Row
  BY FieldsInRange DEF AccessType
<1>5. PinsName' /\ RowDiscipline'
  BY <1>1, <1>3, <1>4 DEF PinsName, RowDiscipline, NoRow
<1>6. OpenNext' = OnlyRow /\ OnlyRow' = OnlyRow
  BY <1>1, <1>3, <1>4 DEF OpenNext, OnlyRow, NoRow
<1>7. state' \in OpenStates /\ state' \notin ClosedStates
  BY <1>1 DEF OpenStates, ClosedStates
<1> QED
  BY <1>3, <1>5, <1>6, <1>7 DEF RowInv, Rows

LEMMA RowsStep ==
  ASSUME TypeOK, RowInv, Next
  PROVE  RowInv'
<1>1. PICK wr_req \in BOOLEAN, wr_adr \in Adr, pop \in BOOLEAN :
        SdramEdge(wr_req, wr_adr, pop)
  BY NextIsEdge DEF Edge100
<1>2. P_sdram /\ ChipStep /\ state \in State /\ AccessType
  BY <1>1 DEF SdramEdge, TypeOK, FsmType
<1> USE DEF Goto, Nop, Command3, adrVars
<1>3. CASE Init_wait
  <2>1. cmd' = "NOP" /\ state' \in BootStates
    BY <1>3 DEF Init_wait, BootStates
  <2>2. state' \notin ClosedStates /\ state' \notin OpenStates /\ ~Configured'
    BY <2>1 DEF BootStates, ClosedStates, OpenStates, Configured
  <2> QED
    BY <1>2, <2>1, <2>2, AfterNop
<1>4. CASE Prechg_all
  BY <1>2, <1>4, AfterPrechargeAll
<1>5. CASE Prechg_wait
  <2>1. cmd' = "NOP" /\ state = "S_PRECHG_WAIT" /\ state' \in {state, "S_INIT_REFRESH"}
    BY <1>5 DEF Prechg_wait, Wait
  <2>2. state \in ClosedStates /\ state' \notin OpenStates /\ ~Configured'
    BY <2>1 DEF State, BootStates, ClosedStates, OpenStates, Configured
  <2> QED
    BY <1>2, <2>1, <2>2, AfterNop
<1>6. CASE Init_refresh
  <2>1. cmd' = "AUTO_REF" /\ state = "S_INIT_REFRESH" /\ state' = "S_REF_WAIT" /\ ref_init'
    BY <1>6 DEF Init_refresh
  <2>2. state \in ClosedStates /\ state' \notin OpenStates /\ ~Configured'
    BY <2>1 DEF State, BootStates, ClosedStates, OpenStates, Configured
  <2> QED
    BY <1>2, <2>1, <2>2, AfterRefresh
<1>7. CASE Ref_wait
  <2>1. /\ cmd' = "NOP" /\ state = "S_REF_WAIT" /\ ref_init' = ref_init
        /\ \/ state' = state
           \/ state' = "S_IDLE" /\ ~ref_init
           \/ state' \in {"S_LOAD_MODE", "S_INIT_REFRESH"}
    BY <1>7 DEF Ref_wait, Wait, initVars
  <2>2. state \in ClosedStates /\ state' \notin OpenStates
    BY <2>1 DEF State, BootStates, ClosedStates, OpenStates
  <2>3. Configured' => Configured
    BY <2>1 DEF Configured
  <2> QED
    BY <1>2, <2>1, <2>2, <2>3, AfterNop
<1>8. CASE Load_mode
  <2>1. cmd' = "LOAD_MOD" /\ state = "S_LOAD_MODE" /\ state' = "S_MODE_WAIT"
    BY <1>8 DEF Load_mode
  <2>2. state \in ClosedStates /\ state' \notin OpenStates
    BY <2>1 DEF State, BootStates, ClosedStates, OpenStates
  <2> QED
    BY <1>2, <2>1, <2>2, AfterRefresh
<1>9. CASE Mode_wait
  <2>1. cmd' = "NOP" /\ state = "S_MODE_WAIT" /\ state' \in {state, "S_IDLE"}
    BY <1>9 DEF Mode_wait, Wait
  <2>2. state \in ClosedStates /\ state' \notin OpenStates /\ Configured
    BY <2>1 DEF State, BootStates, ClosedStates, OpenStates, Configured
  <2> QED
    BY <1>2, <2>1, <2>2, AfterNop
<1>10. CASE Idle
  <2>1. cmd' = "NOP" /\ state = "S_IDLE" /\ state' \in {state, "S_AUTO_REFRESH", "S_ACTIVATE"}
    BY <1>10 DEF Idle, Pick
  <2>2. state \in ClosedStates /\ state' \notin OpenStates /\ Configured
    BY <2>1 DEF State, BootStates, ClosedStates, OpenStates, Configured
  <2> QED
    BY <1>2, <2>1, <2>2, AfterNop
<1>11. CASE Auto_refresh
  <2>1. cmd' = "AUTO_REF" /\ state = "S_AUTO_REFRESH" /\ state' = "S_REF_WAIT"
    BY <1>11 DEF Auto_refresh
  <2>2. state \in ClosedStates /\ state' \notin OpenStates /\ Configured
    BY <2>1 DEF State, BootStates, ClosedStates, OpenStates, Configured
  <2> QED
    BY <1>2, <2>1, <2>2, AfterRefresh
<1>12. CASE Activate
  BY <1>2, <1>12, AfterActivate
<1>13. CASE Trcd_wait \/ Read_capture \/ Write_setup \/ Write_wait \/ Write_recovery \/ Vga_capture
  <2>1. /\ cmd' = "NOP" /\ addr_r' = addr_r
        /\ state \in {"S_TRCD_WAIT", "S_VGA_TRCD_WAIT", "S_GPU_TRCD_WAIT", "S_READ_CAPTURE",
                      "S_WRITE_SETUP", "S_WRITE_WAIT", "S_WRITE_RECOVERY", "S_VGA_CAPTURE"}
        /\ state' \in {state, "S_VGA_READ", "S_GPU_WRITE", "S_WRITE_SETUP", "S_READ_WAIT",
                       "S_PRECHARGE", "S_WRITE_CMD", "S_WRITE_RECOVERY", "S_VGA_PRECHARGE"}
    BY <1>13 DEF Trcd_wait, TrcdNext, Read_capture, Write_setup, Write_wait, Write_recovery,
                 Vga_capture, Step
  <2>2. state \in OpenStates /\ state' \in OpenStates /\ Configured
    BY <2>1 DEF OpenStates, Configured
  <2>3. state' \notin ClosedStates
    BY <2>2 DEF ClosedStates
  <2> QED
    BY <1>2, <2>1, <2>2, <2>3, AfterNop
<1>14. CASE Read_wait
  <2>1. /\ state \in {"S_READ_WAIT", "S_VGA_READ"}
        /\ state' \in {"S_READ_WAIT", "S_VGA_READ", "S_VGA_CAPTURE", "S_READ_CAPTURE"}
        /\ addr_r' = addr_r
        /\ cmd' = "NOP" \/ (cmd' = "READ" /\ dram_ba' = BankOf(addr_r) /\ dram_addr' = ReadCol)
    BY <1>14 DEF Read_wait
  <2>2. state \in OpenStates /\ state' \in OpenStates /\ Configured /\ state' \notin ClosedStates
    BY <2>1 DEF OpenStates, Configured, ClosedStates
  <2>3. ReadCol \in Col
    BY <1>2, FieldsInRange, BurstColRange DEF ReadCol, AccessType
  <2>4. CASE cmd' = "NOP"
    BY <1>2, <2>1, <2>2, <2>4, AfterNop
  <2>5. CASE cmd' = "READ" /\ dram_ba' = BankOf(addr_r) /\ dram_addr' = ReadCol
    BY <1>2, <2>1, <2>2, <2>3, <2>5, AfterAccess
  <2> QED
    BY <2>1, <2>4, <2>5
<1>15. CASE Write_cmd \/ Gpu_write
  <2>1. /\ cmd' = "WRITE" /\ dram_ba' = BankOf(addr_r) /\ addr_r' = addr_r
        /\ dram_addr' \in {ColOf(addr_r), BurstCol(gpu_col_cnt)}
        /\ state \in {"S_WRITE_CMD", "S_GPU_WRITE"}
        /\ state' \in {"S_WRITE_WAIT", "S_GPU_WRITE", "S_GPU_PRECHARGE"}
    BY <1>15 DEF Write_cmd, Gpu_write
  <2>2. state \in OpenStates /\ state' \in OpenStates
    BY <2>1 DEF OpenStates
  <2>3. dram_addr' \in Col
    BY <1>2, <2>1, FieldsInRange, BurstColRange DEF AccessType
  <2> QED
    BY <1>2, <2>1, <2>2, <2>3, AfterAccess
<1>16. CASE \/ Precharge("S_PRECHARGE", "S_TRP_WAIT")
            \/ Precharge("S_VGA_PRECHARGE", "S_VGA_TRP_WAIT")
            \/ Precharge("S_GPU_PRECHARGE", "S_GPU_TRP_WAIT")
  <2>1. /\ cmd' = "PRECHG" /\ dram_ba' = BankOf(addr_r)
        /\ state \in {"S_PRECHARGE", "S_VGA_PRECHARGE", "S_GPU_PRECHARGE"}
        /\ state' \in {"S_TRP_WAIT", "S_VGA_TRP_WAIT", "S_GPU_TRP_WAIT"}
    BY <1>16 DEF Precharge
  <2>2. state \in OpenStates /\ state' \notin OpenStates
    BY <2>1 DEF OpenStates
  <2> QED
    BY <1>2, <2>1, <2>2, AfterPrecharge
<1>17. CASE Trp_wait
  <2>1. /\ cmd' = "NOP" /\ state \in {"S_TRP_WAIT", "S_VGA_TRP_WAIT", "S_GPU_TRP_WAIT"}
        /\ state' \in {state, "S_IDLE"}
    BY <1>17 DEF Trp_wait
  <2>2. state \in ClosedStates /\ state' \notin OpenStates /\ Configured
    BY <2>1 DEF State, BootStates, ClosedStates, OpenStates, Configured
  <2> QED
    BY <1>2, <2>1, <2>2, AfterNop
<1> QED
  BY <1>2, <1>3, <1>4, <1>5, <1>6, <1>7, <1>8, <1>9, <1>10, <1>11, <1>12, <1>13,
     <1>14, <1>15, <1>16, <1>17 DEF P_sdram

-----------------------------------------------------------------------------
(***************************************************************************)
(* The theorems.                                                           *)
(***************************************************************************)
LEMMA Stutter ==
  ASSUME IInv, UNCHANGED vars
  PROVE  IInv'
<1> USE DEF vars, ctrlVars, pins, chipVars
<1>1. MastersType' /\ GpuType' /\ FsmType' /\ AccessType'
  BY DEF IInv, TypeOK, MastersType, GpuType, FsmType, AccessType
<1>2. ReqType' /\ VgaType'
  BY DEF IInv, TypeOK, ReqType, VgaType
<1>3. PinsType' /\ ChipType'
  BY DEF IInv, TypeOK, PinsType, ChipType
<1>4. PinsName' /\ RowDiscipline'
  BY DEF IInv, PinsName, RowDiscipline, AllClosed
<1>5. Rows'
  BY DEF IInv, Rows, OpenNext, Closes, NoRow, OnlyRow, Configured
<1> QED
  BY <1>1, <1>2, <1>3, <1>4, <1>5 DEF IInv, TypeOK

THEOREM Inductive == Spec => []IInv
<1>1. Init => IInv
  BY InitTypeOK, InitRows DEF IInv
<1>2. IInv /\ [Next]_vars => IInv'
  BY TypeStep, RowsStep, Stutter DEF IInv, RowInv
<1> QED
  BY <1>1, <1>2, PTL DEF Spec

\* Every register of the controller, of its masters' handshakes and of the
\* device keeps its type in every behaviour.
THEOREM TypeCorrect == Spec => []TypeOK
<1>1. IInv => TypeOK
  BY DEF IInv
<1> QED
  BY <1>1, Inductive, PTL

\* No command of sdram_ctrl.vhd ever finds its bank in the wrong state: no
\* ACTIVE of an open bank, no READ or WRITE outside the row of the access, no
\* refresh or mode load with a row open, from any state of the device at reset.
THEOREM RowsSafe == Spec => []RowDiscipline
<1>1. IInv => RowDiscipline
  BY DEF IInv
<1> QED
  BY <1>1, Inductive, PTL

-----------------------------------------------------------------------------
(***************************************************************************)
(* The timing, for every device whose minimum distances the wait states    *)
(* cover.  The wait states count fixed numbers of cycles (trcd_cnt,        *)
(* wait_cnt, cas_cnt), so the distances are bounded by what those counts   *)
(* give, and the device's cycle counters have to reach the distances       *)
(* before they saturate.                                                   *)
(***************************************************************************)

\* A device the fixed wait states are long enough for: 3 cycles from ACTIVE
\* to an access, 3 from PRECHARGE, 8 from AUTO REFRESH, 4 from LOAD MODE, and
\* the word at the latest 4 cycles after its READ.
DeviceFits ==
  /\ T_RCD \in 0 .. 3 /\ T_RP \in 0 .. 3 /\ T_RFC \in 0 .. 8 /\ T_MRD \in 0 .. 4
  /\ CL \in 0 .. 4
  /\ T_RCD <= AGE_CAP /\ T_RP <= AGE_CAP /\ T_MRD <= AGE_CAP /\ CL <= AGE_CAP
  /\ T_RFC <= REF_CAP

-----------------------------------------------------------------------------
(***************************************************************************)
(* The inductive invariant: where each command can be on the pins, and how *)
(* long ago each one was in every state.                                   *)
(***************************************************************************)
TrcdStates == {"S_TRCD_WAIT", "S_VGA_TRCD_WAIT", "S_GPU_TRCD_WAIT"}
TrpStates  == {"S_TRP_WAIT", "S_VGA_TRP_WAIT", "S_GPU_TRP_WAIT"}
ReadStates == {"S_READ_WAIT", "S_VGA_READ"}

\* At least n cycles since the device took command c, as far as it counts.
Since(c, n) == age[c] >= n \/ age[c] >= Cap(c)

\* The command on the pins tells the state, and the wait states their count.
CommandAt ==
  /\ cmd = "ACTIVE" <=> state \in TrcdStates /\ trcd_cnt = 0
  /\ cmd = "PRECHG" <=> \/ state \in TrpStates /\ trcd_cnt = 0
                        \/ state = "S_PRECHG_WAIT" /\ wait_cnt = 0
  /\ cmd = "AUTO_REF" <=> state = "S_REF_WAIT" /\ wait_cnt = 0
  /\ cmd = "LOAD_MOD" <=> state = "S_MODE_WAIT" /\ wait_cnt = 0
  /\ cmd = "READ" <=> state \in ReadStates /\ cas_cnt = 1
  /\ cmd = "WRITE" => state \in {"S_WRITE_WAIT", "S_GPU_WRITE", "S_GPU_PRECHARGE"}

CountsBounded ==
  /\ state \in TrcdStates \cup TrpStates => trcd_cnt <= 1
  /\ state = "S_REF_WAIT" => wait_cnt <= 6
  /\ state \in {"S_MODE_WAIT", "S_PRECHG_WAIT"} => wait_cnt <= 1
  /\ state \in ReadStates => cas_cnt <= 4

ActiveSpaced ==
  /\ state \in TrcdStates /\ trcd_cnt = 1 => Since("ACTIVE", 1)
  /\ state \in ReadStates \cup {"S_VGA_CAPTURE", "S_WRITE_SETUP", "S_WRITE_CMD", "S_GPU_WRITE"}
       => Since("ACTIVE", 2)
  /\ cmd \in {"READ", "WRITE"} => Since("ACTIVE", 3)

PrechargeSpaced ==
  /\ state \in TrpStates /\ trcd_cnt = 1 => Since("PRECHG", 1)
  /\ state = "S_PRECHG_WAIT" /\ wait_cnt = 1 => Since("PRECHG", 1)
  /\ state \in {"S_IDLE", "S_ACTIVATE", "S_AUTO_REFRESH", "S_INIT_REFRESH", "S_REF_WAIT",
                "S_LOAD_MODE", "S_MODE_WAIT"} => Since("PRECHG", 2)
  /\ cmd \in {"ACTIVE", "AUTO_REF"} => Since("PRECHG", 3)

RefreshSpaced ==
  /\ state = "S_REF_WAIT" /\ wait_cnt > 0 => Since("AUTO_REF", wait_cnt)
  /\ state # "S_REF_WAIT" => Since("AUTO_REF", 7)
  /\ cmd # "NOP" => Since("AUTO_REF", 8)

ModeSpaced ==
  /\ state = "S_MODE_WAIT" /\ wait_cnt = 1 => Since("LOAD_MOD", 1)
  /\ state = "S_IDLE" => Since("LOAD_MOD", 2)
  /\ state \notin {"S_MODE_WAIT", "S_IDLE"} => Since("LOAD_MOD", 3)
  /\ cmd # "NOP" => Since("LOAD_MOD", 4)

ReadSpaced ==
  /\ state \in ReadStates /\ cas_cnt >= 2 => Since("READ", cas_cnt - 1)
  /\ state \in {"S_READ_CAPTURE", "S_VGA_CAPTURE"} => Since("READ", 4)

Spaced == /\ CommandAt /\ CountsBounded
          /\ ActiveSpaced /\ PrechargeSpaced /\ RefreshSpaced /\ ModeSpaced /\ ReadSpaced
-----------------------------------------------------------------------------
(***************************************************************************)
(* The invariant holds at the start and is kept.                           *)
(***************************************************************************)
LEMMA InitSpaced == Init => Spaced
<1> SUFFICES ASSUME Init PROVE Spaced
  OBVIOUS
<1>1. state = "S_INIT" /\ cmd = "NOP" /\ \A c \in Timed : age[c] = Cap(c)
  BY DEF Init, CtrlInit, ChipInit
<1>2. \A c \in Timed : Cap(c) \in Nat
  BY MemoryAssumption DEF Cap
<1>3. Since("ACTIVE", 2) /\ Since("PRECHG", 2) /\ Since("AUTO_REF", 7) /\ Since("LOAD_MOD", 3)
  BY <1>1, <1>2 DEF Since, Timed
<1> QED
  BY <1>1, <1>3 DEF Spaced, CommandAt, CountsBounded, ActiveSpaced, PrechargeSpaced,
     RefreshSpaced, ModeSpaced, ReadSpaced, TrcdStates, TrpStates, ReadStates

\* One edge of the device: the counter of the command it takes starts again,
\* the others go on.
LEMMA AgeStep ==
  ASSUME TypeOK, ChipStep, NEW c \in Timed
  PROVE  /\ cmd = c => Since(c, 1)'
         /\ \A n \in Nat : cmd # c /\ Since(c, n) => Since(c, n)' /\ Since(c, n + 1)'
<1>1. age[c] \in Nat /\ Cap(c) \in Nat
  BY MemoryAssumption DEF TypeOK, ChipType, Cap
<1>2. age'[c] = IF c = cmd THEN 1 ELSE IF age[c] < Cap(c) THEN age[c] + 1 ELSE age[c]
  BY DEF ChipStep
<1>3. cmd = c => Since(c, 1)'
  BY <1>2 DEF Since
<1>4. ASSUME NEW n \in Nat, cmd # c, Since(c, n)
      PROVE  Since(c, n)' /\ Since(c, n + 1)'
  BY <1>1, <1>2, <1>4 DEF Since
<1> QED
  BY <1>3, <1>4

LEMMA SpacedStep ==
  ASSUME TypeOK, TypeOK', Spaced, Next
  PROVE  Spaced'
<1>1. P_sdram /\ ChipStep
  BY NextIsEdge DEF Edge100, SdramEdge
<1>2. FsmType
  BY DEF TypeOK
<1>3. CommandAt' /\ CountsBounded'
  BY <1>1, <1>2 DEF Spaced, CommandAt, CountsBounded, FsmType, TrcdStates, TrpStates, ReadStates,
     P_sdram, Init_wait, Prechg_all, Prechg_wait, Init_refresh, Ref_wait, Load_mode,
     Mode_wait, Idle, Auto_refresh, Activate, Trcd_wait, Read_wait, Read_capture,
     Write_setup, Write_cmd, Write_wait, Write_recovery, Vga_capture, Gpu_write,
     Precharge, Trp_wait, Wait, Step, Pick, TrcdNext, Goto, Nop, Command3
<1> USE DEF TrcdStates, TrpStates, ReadStates
<1>4. ActiveSpaced'
  <2>1. /\ cmd = "ACTIVE" => Since("ACTIVE", 1)'
        /\ cmd # "ACTIVE" /\ Since("ACTIVE", 1) => Since("ACTIVE", 2)'
        /\ cmd # "ACTIVE" /\ Since("ACTIVE", 2) => Since("ACTIVE", 2)' /\ Since("ACTIVE", 3)'
    BY <1>1, AgeStep DEF Timed
  <2> QED
    BY <1>1, <1>2, <2>1 DEF Spaced, CommandAt, CountsBounded, ActiveSpaced, FsmType,
     P_sdram, Init_wait, Prechg_all, Prechg_wait, Init_refresh, Ref_wait, Load_mode,
     Mode_wait, Idle, Auto_refresh, Activate, Trcd_wait, Read_wait, Read_capture,
     Write_setup, Write_cmd, Write_wait, Write_recovery, Vga_capture, Gpu_write,
     Precharge, Trp_wait, Wait, Step, Pick, TrcdNext, Goto, Nop, Command3
<1>5. PrechargeSpaced'
  <2>1. /\ cmd = "PRECHG" => Since("PRECHG", 1)'
        /\ cmd # "PRECHG" /\ Since("PRECHG", 1) => Since("PRECHG", 2)'
        /\ cmd # "PRECHG" /\ Since("PRECHG", 2) => Since("PRECHG", 2)' /\ Since("PRECHG", 3)'
    BY <1>1, AgeStep DEF Timed
  <2> QED
    BY <1>1, <1>2, <2>1 DEF Spaced, CommandAt, CountsBounded, PrechargeSpaced, FsmType,
     P_sdram, Init_wait, Prechg_all, Prechg_wait, Init_refresh, Ref_wait, Load_mode,
     Mode_wait, Idle, Auto_refresh, Activate, Trcd_wait, Read_wait, Read_capture,
     Write_setup, Write_cmd, Write_wait, Write_recovery, Vga_capture, Gpu_write,
     Precharge, Trp_wait, Wait, Step, Pick, TrcdNext, Goto, Nop, Command3
<1>6. RefreshSpaced'
  <2>1. /\ cmd = "AUTO_REF" => Since("AUTO_REF", 1)'
        /\ \A n \in Nat : cmd # "AUTO_REF" /\ Since("AUTO_REF", n)
                            => Since("AUTO_REF", n)' /\ Since("AUTO_REF", n + 1)'
    BY <1>1, AgeStep DEF Timed
  <2>2. /\ state = "S_REF_WAIT" =>
             /\ cmd' = "NOP" /\ wait_cnt' = wait_cnt + 1
             /\ state' # "S_REF_WAIT" => wait_cnt = 6
        /\ state # "S_REF_WAIT" /\ state' = "S_REF_WAIT" => wait_cnt' = 0
    BY <1>1, <1>2 DEF Spaced, CountsBounded, FsmType,
       P_sdram, Init_wait, Prechg_all, Prechg_wait, Init_refresh, Ref_wait, Load_mode,
       Mode_wait, Idle, Auto_refresh, Activate, Trcd_wait, Read_wait, Read_capture,
       Write_setup, Write_cmd, Write_wait, Write_recovery, Vga_capture, Gpu_write,
       Precharge, Trp_wait, Wait, Step, Pick, TrcdNext, Goto, Nop, Command3
  <2>3. wait_cnt \in 0 .. 7
    BY <1>2 DEF FsmType
  <2>4. CASE state = "S_REF_WAIT"
    <3>1. wait_cnt = 0 => cmd = "AUTO_REF"
      BY <2>4 DEF Spaced, CommandAt
    <3>2. wait_cnt > 0 => cmd # "AUTO_REF" /\ Since("AUTO_REF", wait_cnt)
      BY <2>4 DEF Spaced, CommandAt, RefreshSpaced
    <3>3. Since("AUTO_REF", wait_cnt)'
      BY <2>1, <2>2, <2>3, <2>4, <3>1, <3>2 DEF Since
    <3>4. wait_cnt = 6 => Since("AUTO_REF", 7)'
      BY <2>2, <2>4, <3>3 DEF Since
    <3> QED
      BY <2>2, <2>4, <3>3, <3>4 DEF RefreshSpaced
  <2>5. CASE state # "S_REF_WAIT"
    <3>1. Since("AUTO_REF", 7)' /\ Since("AUTO_REF", 8)'
      <4>1. cmd # "AUTO_REF" /\ Since("AUTO_REF", 7)
        BY <2>5 DEF Spaced, CommandAt, RefreshSpaced
      <4>2. 7 + 1 = 8 /\ 7 \in Nat
        OBVIOUS
      <4> QED
        BY <2>1, <4>1, <4>2
    <3> QED
      BY <2>2, <2>5, <3>1 DEF RefreshSpaced
  <2> QED
    BY <2>4, <2>5
<1>7. ModeSpaced'
  <2>1. /\ cmd = "LOAD_MOD" => Since("LOAD_MOD", 1)'
        /\ cmd # "LOAD_MOD" /\ Since("LOAD_MOD", 1) => Since("LOAD_MOD", 2)'
        /\ cmd # "LOAD_MOD" /\ Since("LOAD_MOD", 2) => Since("LOAD_MOD", 2)' /\ Since("LOAD_MOD", 3)'
        /\ cmd # "LOAD_MOD" /\ Since("LOAD_MOD", 3) => Since("LOAD_MOD", 3)' /\ Since("LOAD_MOD", 4)'
    BY <1>1, AgeStep DEF Timed
  <2>2. /\ state = "S_MODE_WAIT" =>
             /\ cmd' = "NOP" /\ wait_cnt' = wait_cnt + 1
             /\ state' = IF wait_cnt = 1 THEN "S_IDLE" ELSE "S_MODE_WAIT"
        /\ state # "S_MODE_WAIT" /\ state' = "S_MODE_WAIT" => wait_cnt' = 0
        /\ state = "S_IDLE" => cmd' = "NOP" /\ state' # "S_MODE_WAIT"
    BY <1>1, <1>2 DEF Spaced, CountsBounded, FsmType,
       P_sdram, Init_wait, Prechg_all, Prechg_wait, Init_refresh, Ref_wait, Load_mode,
       Mode_wait, Idle, Auto_refresh, Activate, Trcd_wait, Read_wait, Read_capture,
       Write_setup, Write_cmd, Write_wait, Write_recovery, Vga_capture, Gpu_write,
       Precharge, Trp_wait, Wait, Step, Pick, TrcdNext, Goto, Nop, Command3
  <2>3. wait_cnt \in 0 .. 7 /\ age'["LOAD_MOD"] \in Nat
    BY <1>2 DEF FsmType, TypeOK, ChipType, Timed
  <2>4. Since("LOAD_MOD", 3)' => Since("LOAD_MOD", 2)'
    BY <2>3 DEF Since
  <2> QED
    BY <2>1, <2>2, <2>3, <2>4 DEF Spaced, CommandAt, CountsBounded, ModeSpaced
<1>8. ReadSpaced'
  <2>1. /\ cmd = "READ" => Since("READ", 1)'
        /\ \A n \in Nat : cmd # "READ" /\ Since("READ", n) => Since("READ", n + 1)'
    BY <1>1, AgeStep DEF Timed
  <2>2. /\ state \in ReadStates =>
             /\ cas_cnt' = cas_cnt + 1
             /\ state' # state => cas_cnt = 4 /\ state' \in {"S_READ_CAPTURE", "S_VGA_CAPTURE"}
        /\ state \notin ReadStates =>
             /\ state' \notin {"S_READ_CAPTURE", "S_VGA_CAPTURE"}
             /\ state' \in ReadStates => cas_cnt' = 0
    BY <1>1, <1>2 DEF Spaced, CountsBounded, FsmType,
       P_sdram, Init_wait, Prechg_all, Prechg_wait, Init_refresh, Ref_wait, Load_mode,
       Mode_wait, Idle, Auto_refresh, Activate, Trcd_wait, Read_wait, Read_capture,
       Write_setup, Write_cmd, Write_wait, Write_recovery, Vga_capture, Gpu_write,
       Precharge, Trp_wait, Wait, Step, Pick, TrcdNext, Goto, Nop, Command3
  <2>3. cas_cnt \in 0 .. 7
    BY <1>2 DEF FsmType
  <2>4. CASE state \in ReadStates /\ cas_cnt >= 1
    <3>1. Since("READ", cas_cnt - 1)'
      <4>1. CASE cas_cnt = 1
        <5>1. cmd = "READ"
          BY <2>4, <4>1 DEF Spaced, CommandAt
        <5> QED
          BY <2>1, <2>2, <2>4, <4>1, <5>1 DEF Since
      <4>2. CASE cas_cnt >= 2
        <5>1. cmd # "READ" /\ Since("READ", cas_cnt - 1)
          BY <2>3, <2>4, <4>2 DEF Spaced, CommandAt, ReadSpaced
        <5>2. PICK n \in Nat : n = cas_cnt - 1
          BY <2>3, <4>2
        <5>3. Since("READ", n + 1)'
          BY <2>1, <5>1, <5>2
        <5> QED
          BY <2>2, <2>3, <2>4, <5>2, <5>3 DEF Since
      <4> QED
        BY <2>3, <2>4, <4>1, <4>2
    <3>2. cas_cnt = 4 => Since("READ", 4)'
      BY <2>2, <2>4, <3>1 DEF Since
    <3>3. state' \in {"S_READ_CAPTURE", "S_VGA_CAPTURE"} => cas_cnt = 4
      BY <2>2, <2>4
    <3> QED
      BY <3>1, <3>2, <3>3 DEF ReadSpaced, Since
  <2>5. CASE ~(state \in ReadStates /\ cas_cnt >= 1)
    <3>1. state' \in ReadStates => ~(cas_cnt' >= 2)
      BY <2>2, <2>3, <2>5
    <3>2. state' \notin {"S_READ_CAPTURE", "S_VGA_CAPTURE"}
      BY <2>2, <2>3, <2>5
    <3> QED
      BY <3>1, <3>2 DEF ReadSpaced
  <2> QED
    BY <2>4, <2>5
<1> QED
  BY <1>3, <1>4, <1>5, <1>6, <1>7, <1>8 DEF Spaced

-----------------------------------------------------------------------------
(***************************************************************************)
(* The theorems.                                                           *)
(***************************************************************************)
LEMMA SpacedStutter ==
  ASSUME Spaced, UNCHANGED vars
  PROVE  Spaced'
  BY DEF vars, ctrlVars, pins, chipVars, Spaced, CommandAt, CountsBounded, ActiveSpaced,
     PrechargeSpaced, RefreshSpaced, ModeSpaced, ReadSpaced, Since

\* Each wait state of p_sdram has kept the distance it is there for by the time
\* it is left.
THEOREM SpacedAlways == Spec => []Spaced
<1>1. TypeOK /\ TypeOK' /\ Spaced /\ [Next]_vars => Spaced'
  BY SpacedStep, SpacedStutter
<1> QED
  BY <1>1, InitSpaced, TypeCorrect, PTL DEF Spec

\* Every command of sdram_ctrl.vhd keeps the device's minimum distances and
\* every captured word is on the pins, on all paths of the state machine and
\* for every device whose distances the wait states cover: the single-word,
\* VGA and GPU copies of the waits, the refresh and the boot sequence.
THEOREM TimingSafe ==
  ASSUME DeviceFits
  PROVE  Spec => []TimingMet
<1>1. TypeOK /\ Spaced => TimingMet
  <2> SUFFICES ASSUME TypeOK, Spaced PROVE TimingMet
    OBVIOUS
  <2>1. \A c \in Timed : age[c] \in Nat
    BY DEF TypeOK, ChipType
  <2>2. /\ Cap("ACTIVE") = AGE_CAP /\ Cap("PRECHG") = AGE_CAP /\ Cap("READ") = AGE_CAP
        /\ Cap("LOAD_MOD") = AGE_CAP /\ Cap("AUTO_REF") = REF_CAP
        /\ AGE_CAP \in Nat /\ REF_CAP \in Nat
    BY MemoryAssumption DEF Cap
  <2>3. CommandSpacing
    BY <2>1, <2>2, DeviceFits DEF DeviceFits, CommandSpacing, Spaced, ActiveSpaced,
       PrechargeSpaced, RefreshSpaced, ModeSpaced, Since, Timed
  <2>4. state \in {"S_READ_CAPTURE", "S_VGA_CAPTURE"} => age["READ"] >= CL
    BY <2>1, <2>2, DeviceFits DEF DeviceFits, Spaced, ReadSpaced, Since, Timed
  <2> QED
    BY <2>3, <2>4 DEF TimingMet
<1> QED
  BY <1>1, SpacedAlways, TypeCorrect, PTL
=============================================================================
