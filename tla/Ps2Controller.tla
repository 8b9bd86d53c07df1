--------------------------- MODULE Ps2Controller ---------------------------
(***************************************************************************)
(* ps2_controller.vhd with its receiver (ps2_receiver.vhd) and line        *)
(* synchronizer (ps2_sync.vhd): one action is one 50 MHz edge, on which    *)
(* the software may access a register.  A byte is a sequence of DATA_BITS  *)
(* bits, so every frame has its start, parity and stop bit.  Left out: the *)
(* overflow flag and the interrupt, which the shell never uses, and the    *)
(* count of the 50 ms timer in the two states that only compare it with    *)
(* its end (there its expiry is an input).                                 *)
(***************************************************************************)
EXTENDS Integers, Sequences, FiniteSets

CONSTANTS
  DATA_BITS,          \* bits of a byte (8)
  FIFO_DEPTH_C,       \* 16
  IDLE_MIN_TICKS_C,   \* 2500: 50 us
  CLK_HOLD_TICKS_C,   \* 6000: 120 us
  DATA_SETUP_TICKS_C, \* 250: 5 us
  TX_TIMEOUT_TICKS_C, \* 2500000: 50 ms
  TIMER_MOD           \* the timer's register wraps here (2^22)

ASSUME Ps2Assumption ==
  /\ DATA_BITS \in Nat \ {0} /\ FIFO_DEPTH_C \in Nat \ {0}
  /\ {IDLE_MIN_TICKS_C, CLK_HOLD_TICKS_C, DATA_SETUP_TICKS_C} \subseteq 0 .. TX_TIMEOUT_TICKS_C
  /\ TX_TIMEOUT_TICKS_C \in 0 .. TIMER_MOD - 1 /\ TIMER_MOD \in Nat

Byte == [1 .. DATA_BITS -> BOOLEAN]
Zero == [i \in 1 .. DATA_BITS |-> FALSE]

PARITY == DATA_BITS + 1   \* number of the parity bit in a frame
STOP   == DATA_BITS + 2   \* and of the stop bit; the start bit is number 0

Tx_state == {"TX_IDLE", "TX_WAIT_IDLE", "TX_PULL_CLK", "TX_PULL_DAT", "TX_SEND", "TX_WAIT_RESP"}

VARIABLES
  clk_buf, dat_buf,               \* ps2_sync: the sampled lines, newest first
  rx_state, bit_cnt, shift_reg,   \* ps2_receiver: bits since the start bit
  rx_valid, rx_scan_code,
  fifo_mem, fifo_wr_ptr, fifo_rd_ptr, fifo_count,
  tx                              \* the transmitter's registers

rxVars   == <<rx_state, bit_cnt, shift_reg, rx_valid, rx_scan_code>>
fifoVars == <<fifo_mem, fifo_wr_ptr, fifo_rd_ptr, fifo_count>>
ctrlVars == <<clk_buf, dat_buf, rxVars, fifoVars, tx>>

CtrlInit ==
  /\ clk_buf = <<TRUE, TRUE, TRUE>> /\ dat_buf = <<TRUE, TRUE>>
  /\ rx_state = "IDLE" /\ bit_cnt = 0 /\ shift_reg = << >>
  /\ rx_valid = FALSE /\ rx_scan_code = Zero
  /\ fifo_mem = [i \in 0 .. FIFO_DEPTH_C - 1 |-> Zero]
  /\ fifo_wr_ptr = 0 /\ fifo_rd_ptr = 0 /\ fifo_count = 0
  /\ tx = [state |-> "TX_IDLE", data |-> Zero, bit |-> 0, timer |-> 0, idle |-> 0,
           done |-> FALSE, error |-> FALSE, resp_valid |-> FALSE, resp |-> Zero,
           clk_oe |-> FALSE, dat_oe |-> FALSE]

-----------------------------------------------------------------------------
(***************************************************************************)
(* The lines.  clk and dat are their levels outside; a driver pulls low.   *)
(***************************************************************************)
Sync_clk_level == clk_buf[2]
Sync_clk_fall  == clk_buf[3] /\ ~clk_buf[2]
Sync_dat       == dat_buf[2]

P_sync(clk, dat) ==
  /\ clk_buf' = <<clk, clk_buf[1], clk_buf[2]>>
  /\ dat_buf' = <<dat, dat_buf[1]>>

Odd(b) == Cardinality({i \in 1 .. DATA_BITS : b[i]}) % 2 = 1

\* Defect: even parity.
Tx_frame_bitEven(b, i) ==
  IF i \in 1 .. DATA_BITS THEN b[i] ELSE i = STOP \/ (i = PARITY /\ Odd(b))

\* Bit i of the frame of b: start, data, odd parity, stop.
Tx_frame_bit(b, i) ==
  IF i \in 1 .. DATA_BITS THEN b[i] ELSE i = STOP \/ (i = PARITY /\ ~Odd(b))

-----------------------------------------------------------------------------
(***************************************************************************)
(* ps2_receiver.                                                           *)
(***************************************************************************)

\* Defect: the receiver is never reset.
Rx_enableAlways == TRUE

Rx_enable == tx.state \in {"TX_IDLE", "TX_WAIT_IDLE", "TX_WAIT_RESP"}

Received == rx_state = "IDLE" /\ bit_cnt = DATA_BITS + 1

\* Stop bit high and odd parity.
Good(bits) == bits[STOP] /\ bits[PARITY] # Odd(SubSeq(bits, 1, DATA_BITS))

Rx_shift ==
  /\ shift_reg' = Append(shift_reg, Sync_dat)
  /\ rx_state' = IF bit_cnt = DATA_BITS + 1 THEN "IDLE" ELSE rx_state
  /\ bit_cnt' = IF bit_cnt = DATA_BITS + 1 THEN bit_cnt ELSE bit_cnt + 1

P_receiver ==
  \/ /\ ~Rx_enable
     /\ rx_state' = "IDLE" /\ bit_cnt' = 0 /\ shift_reg' = << >>
     /\ rx_valid' = FALSE /\ UNCHANGED rx_scan_code
  \/ /\ Rx_enable /\ Received
     /\ rx_valid' = Good(shift_reg)
     /\ rx_scan_code' = IF rx_valid' THEN SubSeq(shift_reg, 1, DATA_BITS) ELSE rx_scan_code
     /\ rx_state' = IF Sync_clk_fall /\ ~Sync_dat THEN "RECEIVING" ELSE rx_state
     /\ bit_cnt' = 0 /\ shift_reg' = << >>
  \/ /\ Rx_enable /\ ~Received
     /\ rx_valid' = FALSE /\ UNCHANGED rx_scan_code
     /\ \/ Sync_clk_fall /\ rx_state = "RECEIVING" /\ Rx_shift
        \/ /\ Sync_clk_fall /\ rx_state = "IDLE" /\ ~Sync_dat
           /\ rx_state' = "RECEIVING" /\ bit_cnt' = 0 /\ shift_reg' = << >>
        \/ /\ ~Sync_clk_fall \/ (rx_state = "IDLE" /\ Sync_dat)
           /\ UNCHANGED <<rx_state, bit_cnt, shift_reg>>

-----------------------------------------------------------------------------
(***************************************************************************)
(* The transmitter.  Within the process a later assignment replaces an     *)
(* earlier one: in TX_WAIT_IDLE the timer counts on whatever the state     *)
(* does, and a register write comes after the state machine.               *)
(***************************************************************************)
Count(t)  == (t + 1) % TIMER_MOD
Failed(t) == [t EXCEPT !.state = "TX_IDLE", !.done = TRUE, !.error = TRUE]

\* A state that holds the lines for n ticks.
Hold(n, next) ==
  IF tx.timer = n THEN [tx EXCEPT !.state = next, !.timer = 0, !.bit = 0]
                  ELSE [tx EXCEPT !.timer = Count(tx.timer)]

Idle_line == Sync_clk_level /\ Sync_dat
Waited    == Idle_line /\ tx.idle = IDLE_MIN_TICKS_C

\* Defect: the idle count goes on when the wait is over.
Idle_countOn == [tx EXCEPT !.idle = IF Idle_line THEN @ + 1 ELSE 0]

Idle_count == [tx EXCEPT !.idle = IF Idle_line /\ ~Waited THEN @ + 1 ELSE 0]

Wait_idle ==
  IF tx.timer = TX_TIMEOUT_TICKS_C
  THEN [Failed(Idle_count) EXCEPT !.timer = IF Waited THEN 0 ELSE @]
  ELSE [Idle_count EXCEPT !.state = IF Waited THEN "TX_PULL_CLK" ELSE @, !.timer = Count(@)]

\* Defect: no timeout while the keyboard is to clock the bits out.
SendNoTimeout(expired) ==
  IF Sync_clk_fall
  THEN IF tx.bit = STOP THEN [tx EXCEPT !.state = "TX_WAIT_RESP"] ELSE [tx EXCEPT !.bit = @ + 1]
  ELSE tx

Send(expired) ==
  CASE Sync_clk_fall /\ tx.bit = STOP -> [tx EXCEPT !.state = "TX_WAIT_RESP"]
    [] Sync_clk_fall /\ tx.bit # STOP -> [tx EXCEPT !.bit = @ + 1]
    [] ~Sync_clk_fall                 -> IF expired THEN Failed(tx) ELSE tx

Wait_resp(expired) ==
  CASE rx_valid -> [tx EXCEPT !.state = "TX_IDLE", !.resp = rx_scan_code,
                              !.resp_valid = TRUE, !.done = TRUE, !.error = FALSE]
    [] ~rx_valid -> IF expired THEN Failed(tx) ELSE tx

StateMachine(expired) ==
  CASE tx.state = "TX_IDLE"      -> [tx EXCEPT !.timer = 0, !.idle = 0]
    [] tx.state = "TX_WAIT_IDLE" -> Wait_idle
    [] tx.state = "TX_PULL_CLK"  -> Hold(CLK_HOLD_TICKS_C, "TX_PULL_DAT")
    [] tx.state = "TX_PULL_DAT"  -> Hold(DATA_SETUP_TICKS_C, "TX_SEND")
    [] tx.state = "TX_SEND"      -> Send(expired)
    [] tx.state = "TX_WAIT_RESP" -> Wait_resp(expired)

\* The lines the transmitter is about to drive low.
Clk_oe == tx.state \in {"TX_PULL_CLK", "TX_PULL_DAT"}
Dat_oe == tx.state = "TX_PULL_DAT" \/ (tx.state = "TX_SEND" /\ ~Tx_frame_bit(tx.data, tx.bit))

\* The registers: what the software does on this edge.
ReadData  == [op |-> "DATA"]
ReadStat  == [op |-> "STATUS"]
ClearStat == [op |-> "CLEAR"]   \* writes the done, error and response bits of STATUS
TxData(b) == [op |-> "TXDATA", byte |-> b]
NoAccess  == [op |-> "none"]

\* Defect: a new command leaves the last response valid.
Written_stale(t, acc) ==
  CASE acc.op = "CLEAR" -> [t EXCEPT !.done = FALSE, !.error = FALSE]
    [] acc.op = "TXDATA" /\ tx.state = "TX_IDLE" ->
         [t EXCEPT !.state = "TX_WAIT_IDLE", !.data = acc.byte, !.done = FALSE, !.error = FALSE,
                   !.timer = 0, !.idle = 0]
    [] acc.op = "TXDATA" /\ tx.state # "TX_IDLE" -> [t EXCEPT !.done = TRUE, !.error = TRUE]
    [] OTHER -> t

Written(t, acc) ==
  CASE acc.op = "CLEAR" -> [t EXCEPT !.done = FALSE, !.error = FALSE, !.resp_valid = FALSE]
    [] acc.op = "TXDATA" /\ tx.state = "TX_IDLE" ->
         [t EXCEPT !.state = "TX_WAIT_IDLE", !.data = acc.byte, !.done = FALSE, !.error = FALSE,
                   !.resp_valid = FALSE, !.timer = 0, !.idle = 0]
    [] acc.op = "TXDATA" /\ tx.state # "TX_IDLE" -> [t EXCEPT !.done = TRUE, !.error = TRUE]
    [] OTHER -> t

P_tx(acc, expired) ==
  tx' = [Written(StateMachine(expired), acc) EXCEPT !.clk_oe = Clk_oe, !.dat_oe = Dat_oe]

-----------------------------------------------------------------------------
(***************************************************************************)
(* The FIFO.  The count is assigned once by a byte that comes in and once, *)
(* later, by a read that takes one out.                                    *)
(***************************************************************************)
Incoming == rx_valid /\ tx.state # "TX_WAIT_RESP"
Rd_byte  == fifo_mem[fifo_rd_ptr]

Stores == Incoming /\ fifo_count < FIFO_DEPTH_C

P_fifo(acc) ==
  LET pop == acc.op = "DATA" /\ fifo_count # 0
  IN /\ fifo_mem' = IF Stores THEN [fifo_mem EXCEPT ![fifo_wr_ptr] = rx_scan_code] ELSE fifo_mem
     /\ fifo_wr_ptr' = IF Stores THEN (fifo_wr_ptr + 1) % FIFO_DEPTH_C ELSE fifo_wr_ptr
     /\ fifo_rd_ptr' = IF pop THEN (fifo_rd_ptr + 1) % FIFO_DEPTH_C ELSE fifo_rd_ptr
     /\ fifo_count' = CASE pop -> fifo_count - 1
                        [] ~pop /\ Stores -> fifo_count + 1
                        [] OTHER -> fifo_count

\* One 50 MHz edge, with the lines at clk and dat.
CtrlEdge(clk, dat, acc, expired) ==
  P_sync(clk, dat) /\ P_receiver /\ P_tx(acc, expired) /\ P_fifo(acc)
=============================================================================
