------------------------------ MODULE Ps2Board ------------------------------
(***************************************************************************)
(* The keyboard port: the controller, a keyboard on its two open-drain     *)
(* lines, and the driver, which is the PS/2 part of t_uart_input in        *)
(* de2shell_rtos/main.c.  A driver step is one register access, on one     *)
(* 50 MHz edge; any number of edges may pass between two of them (the task *)
(* has the lowest priority but one).  The keyboard moves between edges,    *)
(* and is slow: it moves only when its last move has gone through the      *)
(* controller.  Its only key is Caps Lock, without the break code.         *)
(***************************************************************************)
EXTENDS Ps2Controller

CONSTANTS
  SCAN_CAPS, CMD_SET_LEDS, PS2_RESP_ACK, PS2_RESP_RESEND,   \* bytes on the line
  LOCK_MASK,     \* the LED byte of each state of the Caps lock
  MAX_PRESSES,   \* bound: presses of the key
  MAX_RESENDS    \* bound: commands the keyboard asks for again, though it got them

ASSUME Ps2BoardAssumption ==
  /\ {SCAN_CAPS, CMD_SET_LEDS, PS2_RESP_ACK, PS2_RESP_RESEND} \subseteq Byte
  /\ PS2_RESP_ACK # PS2_RESP_RESEND
  /\ LOCK_MASK \in [BOOLEAN -> Byte \ {CMD_SET_LEDS}]
  /\ MAX_PRESSES \in Nat /\ MAX_RESENDS \in Nat

VARIABLES
  kb,    \* the keyboard
  drv    \* the driver's program counter and variables

vars == <<ctrlVars, kb, drv>>

NoByte == << >>

-----------------------------------------------------------------------------
(***************************************************************************)
(* The keyboard.  In "send" it clocks out bit kb.bit of its frame; in      *)
(* "receive" kb.bit counts the clock pulses, and it pulls the data line on *)
(* the last one.  It gives up a frame when the host holds the clock, takes *)
(* a command when the host asks, and answers it before it sends a key.     *)
(***************************************************************************)
KbInit ==
  kb = [st |-> "idle", bit |-> 0, low |-> FALSE, got |-> << >>, byte |-> NoByte,
        reply |-> NoByte, keys |-> 0, presses |-> 0, resends |-> 0,
        expect |-> FALSE, leds |-> NoByte, last |-> << >>, alive |-> TRUE]

FrameOf(b) == b \o <<~Odd(b), TRUE>>

KbDatLow ==
  \/ kb.st = "send" /\ (kb.bit = 0 \/ ~FrameOf(kb.byte)[kb.bit])
  \/ kb.st = "receive" /\ kb.bit + (IF kb.low THEN 0 ELSE 1) = STOP + 1

Clk == ~(tx.clk_oe \/ kb.low)
Dat == ~(tx.dat_oe \/ KbDatLow)

\* What the lines carry has gone through the controller, and back.
Quiet ==
  /\ clk_buf = <<Clk, Clk, Clk>> /\ dat_buf = <<Dat, Dat>>
  /\ tx.clk_oe = Clk_oe /\ tx.dat_oe = Dat_oe
  /\ ~Received /\ ~rx_valid

\* The keyboard sees the host hold the clock in the middle of its frame.
Inhibited == kb.st = "send" /\ ~kb.low /\ tx.clk_oe

\* It does not sleep through the hold: it moves before the data line is pulled.
MustMove == Inhibited \/ (kb.st = "send" /\ tx.state = "TX_PULL_DAT")

Kb(newKb) == kb' = newKb /\ UNCHANGED <<ctrlVars, drv>>

KbPress ==
  /\ kb.alive /\ kb.presses < MAX_PRESSES
  /\ Kb([kb EXCEPT !.presses = @ + 1, !.keys = @ + 1])

KbDie == kb.alive /\ kb.st = "idle" /\ Kb([kb EXCEPT !.alive = FALSE])

KbStart ==
  /\ kb.alive /\ kb.st = "idle" /\ Clk /\ Dat /\ Quiet
  /\ \/ kb.reply # NoByte /\ Kb([kb EXCEPT !.st = "send", !.bit = 0, !.byte = kb.reply])
     \/ /\ kb.reply = NoByte /\ kb.keys > 0
        /\ Kb([kb EXCEPT !.st = "send", !.bit = 0, !.byte = SCAN_CAPS])

KbAbort == Inhibited /\ Kb([kb EXCEPT !.st = "idle", !.bit = 0, !.byte = NoByte])

\* The host pulls the data line and has let go of the clock.
KbRequest ==
  /\ kb.alive /\ kb.st = "idle" /\ Clk /\ ~Dat /\ Quiet
  /\ Kb([kb EXCEPT !.st = "receive", !.bit = 0, !.got = << >>, !.reply = NoByte])

\* The byte has been sent.
Sent ==
  IF kb.reply # NoByte THEN [kb EXCEPT !.reply = NoByte] ELSE [kb EXCEPT !.keys = @ - 1]

KbFall ==
  /\ ~kb.low /\ ~Inhibited /\ Quiet
  /\ \/ kb.st = "send" /\ kb.bit < STOP /\ Kb([kb EXCEPT !.low = TRUE])
     \/ kb.st = "send" /\ kb.bit = STOP /\ Kb([Sent EXCEPT !.low = TRUE])
     \/ kb.st = "receive" /\ Kb([kb EXCEPT !.low = TRUE, !.bit = @ + 1])

\* The command is taken in: what the keyboard does on it and the byte it answers.
Answer(b, resp) ==
  [kb EXCEPT !.st = "idle", !.low = FALSE, !.bit = 0, !.got = << >>, !.reply = resp, !.last = <<b, resp>>,
             !.expect = IF resp = PS2_RESP_ACK THEN b = CMD_SET_LEDS ELSE @,
             !.leds = IF resp = PS2_RESP_ACK /\ b # CMD_SET_LEDS THEN b ELSE @]

KbAnswer ==
  LET b == SubSeq(kb.got, 1, DATA_BITS)
  IN \/ Good(kb.got) /\ (b = CMD_SET_LEDS \/ kb.expect) /\ Kb(Answer(b, PS2_RESP_ACK))
     \/ ~(Good(kb.got) /\ (b = CMD_SET_LEDS \/ kb.expect)) /\ Kb(Answer(b, PS2_RESP_RESEND))
     \/ kb.resends < MAX_RESENDS /\ Kb([Answer(b, PS2_RESP_RESEND) EXCEPT !.resends = @ + 1])

KbRise ==
  /\ kb.low /\ (Quiet \/ tx.clk_oe)
  /\ \/ kb.st = "send" /\ kb.bit < STOP /\ Kb([kb EXCEPT !.low = FALSE, !.bit = @ + 1])
     \/ kb.st = "send" /\ kb.bit = STOP /\ Kb([kb EXCEPT !.low = FALSE, !.bit = 0, !.st = "idle"])
     \/ kb.st = "receive" /\ kb.bit <= STOP /\ Kb([kb EXCEPT !.low = FALSE, !.got = Append(@, Dat)])
     \/ kb.st = "receive" /\ kb.bit > STOP /\ KbAnswer

KbMoves == KbStart \/ KbAbort \/ KbRequest \/ KbFall \/ KbRise

-----------------------------------------------------------------------------
(***************************************************************************)
(* The driver.  ps2_sync_leds sends CMD_SET_LEDS and then the LED byte,    *)
(* and starts over once if the last answer it has seen asks for it.  A     *)
(* wait that runs out of polls (PS2_HOST_TIMEOUT) may do so at any time.   *)
(***************************************************************************)
DrvInit ==
  drv = [pc |-> "clear", cmd |-> 1, attempt |-> 0, resp |-> Zero, ret |-> -1,
         lock |-> FALSE, last |-> FALSE, mask |-> FALSE]

\* Runs on an edge, with its register access.
Edge(acc) == ~MustMove /\ CtrlEdge(Clk, Dat, acc, FALSE) /\ UNCHANGED kb

StartSync(d) == [d EXCEPT !.pc = "clear", !.cmd = 1, !.attempt = 0, !.resp = Zero, !.mask = d.lock]

\* ps2_sync_leds returns, and the main loop takes over.
Return(d, ret) == [d EXCEPT !.pc = "ready", !.ret = ret, !.last = d.lock]

\* Defect: any answer will do.
AfterSendAny(d, sent) ==
  CASE sent /\ d.cmd = 1 -> [d EXCEPT !.pc = "clear", !.cmd = 2]
    [] sent /\ d.cmd = 2 -> Return(d, 0)
    [] ~sent -> Return(d, -1)

\* ps2_send_host_byte returns: did the byte get an answer?
AfterSend(d, sent) ==
  CASE sent /\ d.resp = PS2_RESP_ACK /\ d.cmd = 1 -> [d EXCEPT !.pc = "clear", !.cmd = 2]
    [] sent /\ d.resp = PS2_RESP_ACK /\ d.cmd = 2 -> Return(d, 0)
    [] ~(sent /\ d.resp = PS2_RESP_ACK) ->
         IF d.resp = PS2_RESP_RESEND /\ d.attempt = 0
         THEN [d EXCEPT !.pc = "clear", !.cmd = 1, !.attempt = 1]
         ELSE Return(d, -1)

DrvClear == drv.pc = "clear" /\ Edge(ClearStat) /\ drv' = [drv EXCEPT !.pc = "busy"]

DrvBusy ==
  /\ drv.pc = "busy" /\ Edge(ReadStat)
  /\ \/ tx.state = "TX_IDLE" /\ drv' = [drv EXCEPT !.pc = "write"]
     \/ tx.state # "TX_IDLE" /\ UNCHANGED drv
     \/ drv' = AfterSend(drv, FALSE)

DrvWrite ==
  /\ drv.pc = "write"
  /\ Edge(TxData(IF drv.cmd = 1 THEN CMD_SET_LEDS ELSE LOCK_MASK[drv.mask]))
  /\ drv' = [drv EXCEPT !.pc = "poll"]

DrvPoll ==
  /\ drv.pc = "poll" /\ Edge(ReadStat)
  /\ \/ tx.done /\ drv' = AfterSend([drv EXCEPT !.resp = tx.resp], ~tx.error /\ tx.resp_valid)
     \/ ~tx.done /\ UNCHANGED drv
     \/ ~tx.done /\ drv' = AfterSend(drv, FALSE)

DrvReady ==
  /\ drv.pc = "ready" /\ Edge(ReadStat)
  /\ drv' = IF fifo_count # 0 THEN [drv EXCEPT !.pc = "data"] ELSE drv

\* The scan code goes to the decoder, which turns the lock over.
DrvData ==
  /\ drv.pc = "data" /\ Edge(ReadData)
  /\ LET lock == IF Rd_byte = SCAN_CAPS THEN ~drv.lock ELSE drv.lock
         seen == [drv EXCEPT !.pc = "ready", !.lock = lock]
     IN drv' = IF lock # drv.last THEN StartSync(seen) ELSE seen

DrvAccess == DrvClear \/ DrvBusy \/ DrvWrite \/ DrvPoll \/ DrvReady \/ DrvData

NoAccessEdge == Edge(NoAccess) /\ UNCHANGED drv

\* The 50 ms timer runs out on a keyboard that has stopped answering.
Expire ==
  /\ ~kb.alive /\ tx.state \in {"TX_SEND", "TX_WAIT_RESP"}
  /\ CtrlEdge(Clk, Dat, NoAccess, TRUE) /\ UNCHANGED <<kb, drv>>

-----------------------------------------------------------------------------
Init == CtrlInit /\ KbInit /\ DrvInit

Next == NoAccessEdge \/ Expire \/ DrvAccess \/ KbMoves \/ KbPress \/ KbDie

Spec == Init /\ [][Next]_vars

\* The clock runs, a keyboard that is alive goes on, and the timer ends.
FairSpec == Spec /\ WF_vars(NoAccessEdge) /\ WF_vars(KbMoves) /\ WF_vars(Expire)

-----------------------------------------------------------------------------
(***************************************************************************)
(* Properties.                                                             *)
(***************************************************************************)

\* Every register stays in its range: the FIFO never holds more than its depth.
TypeOK ==
  /\ clk_buf \in [1 .. 3 -> BOOLEAN] /\ dat_buf \in [1 .. 2 -> BOOLEAN]
  /\ rx_state \in {"IDLE", "RECEIVING"} /\ bit_cnt \in 0 .. DATA_BITS + 1
  /\ rx_valid \in BOOLEAN /\ rx_scan_code \in Byte
  /\ fifo_mem \in [0 .. FIFO_DEPTH_C - 1 -> Byte] /\ fifo_count \in 0 .. FIFO_DEPTH_C
  /\ fifo_wr_ptr \in 0 .. FIFO_DEPTH_C - 1 /\ fifo_rd_ptr \in 0 .. FIFO_DEPTH_C - 1
  /\ tx \in [state : Tx_state, data : Byte, bit : 0 .. STOP, timer : 0 .. TIMER_MOD - 1,
             idle : 0 .. IDLE_MIN_TICKS_C, done : BOOLEAN, error : BOOLEAN,
             resp_valid : BOOLEAN, resp : Byte, clk_oe : BOOLEAN, dat_oe : BOOLEAN]
  /\ drv \in [pc : {"clear", "busy", "write", "poll", "ready", "data"}, cmd : {1, 2},
              attempt : {0, 1}, resp : Byte, ret : {-1, 0}, lock : BOOLEAN,
              last : BOOLEAN, mask : BOOLEAN]

\* The receiver reports a byte only when the keyboard has just finished sending
\* one, and it is that byte: neither the acknowledge pulse of a command nor the
\* edges the host makes on the clock line itself are taken for bits of a frame.
RxExact ==
  rx_valid => kb.byte = rx_scan_code /\ (kb.st = "idle" \/ (kb.st = "send" /\ kb.bit = STOP))

\* Whenever the keyboard rests and the lines have settled, the receiver is at the
\* start of a frame, so a frame cut off by the host costs no later one.
RxAligned == kb.st = "idle" /\ Clk /\ Quiet => rx_state = "IDLE" /\ bit_cnt = 0

\* The keyboard samples the bits of the byte the driver wrote, with a good parity
\* and stop bit, however slowly it clocks them.
CommandDelivered ==
  kb.st = "receive" =>
    /\ tx.state \in {"TX_SEND", "TX_WAIT_RESP"}
    /\ kb.got = SubSeq(FrameOf(tx.data), 1, Len(kb.got))

\* A valid response is the keyboard's answer to the byte in the TXDATA register,
\* never a scan code or the answer to an earlier command.
ResponseIsReply == tx.resp_valid => kb.last = <<tx.data, tx.resp>>

\* When ps2_sync_leds has returned 0, the LEDs show the driver's lock state, and
\* go on doing so until the next call.
LedsSet ==
  drv.pc \in {"ready", "data"} /\ drv.ret = 0 => kb.leds = LOCK_MASK[drv.lock]

\* Every command ends, in an answer or an error, whatever the keyboard does.
TxEnds == tx.state # "TX_IDLE" ~> tx.state = "TX_IDLE"

\* ps2_controller.vhd:15 calls the count the number of bytes received and not read.
CountExact == fifo_count % FIFO_DEPTH_C = (fifo_wr_ptr - fifo_rd_ptr) % FIFO_DEPTH_C
=============================================================================
