--------------------------- MODULE Ps2Board_proofs ---------------------------
(***************************************************************************)
(* The PS/2 port, for every length of a byte, of the FIFO and of the waits.*)
(* The proofs have four parts:                                             *)
(*   - a byte as a frame of bits on the line;                              *)
(*   - one edge: what it does to the transmitter (TxMove), to the receiver *)
(*     and to the levels in the synchronizer;                              *)
(*   - BoardInv, the inductive invariant: what is on the lines, how much   *)
(*     of it the receiver and the transmitter have seen, and what the      *)
(*     keyboard does next.  An edge that nobody pulls on the lines, and    *)
(*     each move of the keyboard, keeps it;                                *)
(*   - DrvInv, what the driver knows between two register accesses, which  *)
(*     rests on BoardInv.                                                  *)
(* Everything but the types needs SetupSettles: with a data setup of one   *)
(* tick the transmitter takes the edge it has made itself on the clock     *)
(* line for the keyboard's and loses the start bit.                        *)
(***************************************************************************)
EXTENDS Ps2Board, SequenceTheorems, FiniteSetTheorems, TLAPS

-----------------------------------------------------------------------------
(***************************************************************************)
(* Bytes and frames.                                                       *)
(***************************************************************************)
LEMMA Sizes == /\ DATA_BITS \in Nat /\ DATA_BITS >= 1
               /\ PARITY = DATA_BITS + 1 /\ STOP = DATA_BITS + 2
BY Ps2Assumption DEF PARITY, STOP

LEMMA ByteIsSeq ==
  ASSUME NEW b \in Byte
  PROVE  b \in Seq(BOOLEAN) /\ Len(b) = DATA_BITS
<1>1. DATA_BITS \in Nat /\ DOMAIN b = 1 .. DATA_BITS
  BY Sizes DEF Byte
<1>2. b \in Seq(BOOLEAN)
  <2>1. [1 .. DATA_BITS -> BOOLEAN] \in {[1 .. n -> BOOLEAN] : n \in Nat}
    BY <1>1
  <2> QED
    BY <2>1, SeqDef, Zenon DEF Byte
<1> QED
  BY <1>1, <1>2

LEMMA ZeroIsByte == Zero \in Byte
BY DEF Zero, Byte

LEMMA NoByteIs == NoByte \notin Byte
<1>1. Len(NoByte) = 0
  BY DEF NoByte
<1> QED
  BY <1>1, ByteIsSeq, Sizes

\* A frame as a function, with its start bit.
BitsOf(b) == [i \in 0 .. STOP |-> Tx_frame_bit(b, i)]

LEMMA BitsAre ==
  ASSUME NEW b \in Byte
  PROVE  /\ BitsOf(b) \in [0 .. STOP -> BOOLEAN]
         /\ \A i \in 1 .. DATA_BITS : BitsOf(b)[i] = b[i]
         /\ BitsOf(b)[PARITY] = ~Odd(b)
         /\ BitsOf(b)[STOP] /\ ~BitsOf(b)[0]
         /\ \A i \in 0 .. STOP : BitsOf(b)[i] <=> Tx_frame_bit(b, i)
<1>1. \A i \in 0 .. STOP : BitsOf(b)[i] = Tx_frame_bit(b, i)
  BY Sizes DEF BitsOf
<1>2. \A i \in 1 .. DATA_BITS : Tx_frame_bit(b, i) = b[i]
  BY DEF Tx_frame_bit
<1>3. /\ ~(PARITY \in 1 .. DATA_BITS) /\ ~(STOP \in 1 .. DATA_BITS) /\ ~(0 \in 1 .. DATA_BITS)
      /\ PARITY # STOP /\ 0 # STOP /\ 0 # PARITY
      /\ PARITY \in 0 .. STOP /\ STOP \in 0 .. STOP /\ 0 \in 0 .. STOP
      /\ \A i \in 1 .. DATA_BITS : i \in 0 .. STOP
      /\ \A i \in 0 .. STOP : i \in 1 .. DATA_BITS \/ i = PARITY \/ i = STOP \/ i = 0
  BY Sizes
<1>4. /\ Tx_frame_bit(b, PARITY) = (~Odd(b))
      /\ Tx_frame_bit(b, STOP) = TRUE
      /\ Tx_frame_bit(b, 0) = FALSE
  BY <1>3, Zenon DEF Tx_frame_bit
<1>5. (~Odd(b)) \in BOOLEAN
  BY Zenon
<1>6. \A i \in 1 .. DATA_BITS : b[i] \in BOOLEAN
  BY DEF Byte
<1>7. \A i \in 0 .. STOP : Tx_frame_bit(b, i) \in BOOLEAN
  <2> SUFFICES ASSUME NEW i \in 0 .. STOP PROVE Tx_frame_bit(b, i) \in BOOLEAN
    OBVIOUS
  <2>1. CASE i \in 1 .. DATA_BITS
    BY <1>2, <1>6, <2>1, Zenon
  <2>2. CASE i = PARITY
    BY <1>4, <1>5, <2>2, Zenon
  <2>3. CASE i = STOP \/ i = 0
    BY <1>4, <2>3, Zenon
  <2> QED
    BY <1>3, <2>1, <2>2, <2>3, Zenon
<1>8. BitsOf(b) \in [0 .. STOP -> BOOLEAN]
  BY <1>7, Zenon DEF BitsOf
<1>9. \A i \in 1 .. DATA_BITS : BitsOf(b)[i] = b[i]
  BY <1>1, <1>2, <1>3, Zenon
<1>10. BitsOf(b)[PARITY] = (~Odd(b)) /\ BitsOf(b)[STOP] = TRUE /\ BitsOf(b)[0] = FALSE
  BY <1>1, <1>3, <1>4, Zenon
<1> QED
  BY <1>1, <1>8, <1>9, <1>10, Zenon

LEMMA Joined ==
  ASSUME NEW S, NEW s \in Seq(S), NEW t \in Seq(S), NEW n \in Nat, Len(s) = n, Len(t) = 2
  PROVE  /\ s \o t \in Seq(S) /\ Len(s \o t) = n + 2
         /\ \A i \in 1 .. n : (s \o t)[i] = s[i]
         /\ (s \o t)[n + 1] = t[1] /\ (s \o t)[n + 2] = t[2]
<1> DEFINE u == s \o t
<1>0. /\ s \o t \in Seq(S) /\ Len(s \o t) = Len(s) + Len(t)
      /\ \A i \in 1 .. Len(s) + Len(t) :
           (s \o t)[i] = IF i <= Len(s) THEN s[i] ELSE t[i - Len(s)]
  BY ConcatProperties, Zenon
<1>1. /\ u \in Seq(S) /\ Len(u) = n + 2
      /\ \A i \in 1 .. n + 2 : u[i] = IF i <= n THEN s[i] ELSE t[i - n]
  BY <1>0, Zenon
<1>2. n + 1 \in 1 .. n + 2 /\ n + 2 \in 1 .. n + 2 /\ ~(n + 1 <= n) /\ ~(n + 2 <= n)
      /\ (n + 1) - n = 1 /\ (n + 2) - n = 2
      /\ \A i \in 1 .. n : i \in 1 .. n + 2 /\ i <= n
  OBVIOUS
<1> HIDE DEF u
<1> QED
  BY <1>1, <1>2, Zenon DEF u

\* A frame on the line, bit by bit.
LEMMA FrameIs ==
  ASSUME NEW b \in Byte
  PROVE  /\ FrameOf(b) \in Seq(BOOLEAN) /\ Len(FrameOf(b)) = STOP
         /\ \A i \in 1 .. STOP : FrameOf(b)[i] = BitsOf(b)[i]
<1> DEFINE p    == ~Odd(b)
           tail == <<p, TRUE>>
<1>1. p \in BOOLEAN
  BY Zenon
<1>2. FrameOf(b) = b \o tail
  BY DEF FrameOf
<1>3. BitsOf(b)[PARITY] = p /\ BitsOf(b)[STOP] = TRUE
  BY BitsAre, Zenon
<1> HIDE DEF p
<1>4. tail \in Seq(BOOLEAN) /\ Len(tail) = 2 /\ tail[1] = p /\ tail[2] = TRUE
  BY <1>1
<1> HIDE DEF tail
<1>5. b \in Seq(BOOLEAN) /\ Len(b) = DATA_BITS
  BY ByteIsSeq
<1>6. /\ b \o tail \in Seq(BOOLEAN) /\ Len(b \o tail) = DATA_BITS + 2
      /\ \A i \in 1 .. DATA_BITS : (b \o tail)[i] = b[i]
      /\ (b \o tail)[DATA_BITS + 1] = tail[1] /\ (b \o tail)[DATA_BITS + 2] = tail[2]
  BY <1>4, <1>5, Sizes, Joined
<1>7. \A i \in 1 .. DATA_BITS : BitsOf(b)[i] = b[i]
  BY BitsAre
<1>8. ASSUME NEW i \in 1 .. STOP
      PROVE  FrameOf(b)[i] = BitsOf(b)[i]
  <2>1. CASE i \in 1 .. DATA_BITS
    BY <1>2, <1>6, <1>7, <2>1
  <2>2. CASE i = DATA_BITS + 1
    BY <1>2, <1>3, <1>4, <1>6, <2>2, Sizes, Zenon
  <2>3. CASE i = DATA_BITS + 2
    BY <1>2, <1>3, <1>4, <1>6, <2>3, Sizes, Zenon
  <2> QED
    BY <2>1, <2>2, <2>3, Sizes
<1> QED
  BY <1>2, <1>6, <1>8, Sizes

LEMMA DataBits ==
  ASSUME NEW s \in Seq(BOOLEAN), Len(s) >= DATA_BITS
  PROVE  /\ SubSeq(s, 1, DATA_BITS) \in Byte
         /\ \A i \in 1 .. DATA_BITS : SubSeq(s, 1, DATA_BITS)[i] = s[i]
<1> DEFINE t == SubSeq(s, 1, DATA_BITS)
<1>1. t \in Seq(BOOLEAN) /\ Len(t) = DATA_BITS /\ \A i \in 1 .. DATA_BITS : t[i] = s[i]
  BY Sizes
<1> HIDE DEF t
<1>2. t \in [1 .. DATA_BITS -> BOOLEAN]
  BY <1>1
<1> QED
  BY <1>1, <1>2 DEF Byte, t

\* A whole frame is good, and it is its byte.
LEMMA GoodFrame ==
  ASSUME NEW b \in Byte, NEW s \in Seq(BOOLEAN), Len(s) = STOP,
         \A i \in 1 .. STOP : s[i] = BitsOf(b)[i]
  PROVE  Good(s) /\ SubSeq(s, 1, DATA_BITS) = b
<1>1. \A i \in 1 .. DATA_BITS : SubSeq(s, 1, DATA_BITS)[i] = b[i]
  <2>1. \A i \in 1 .. DATA_BITS : SubSeq(s, 1, DATA_BITS)[i] = s[i]
    BY DataBits, Sizes
  <2>2. \A i \in 1 .. DATA_BITS : s[i] = b[i]
    BY Sizes, BitsAre
  <2> QED
    BY <2>1, <2>2
<1>2. SubSeq(s, 1, DATA_BITS) \in Byte
  BY DataBits, Sizes
<1>3. SubSeq(s, 1, DATA_BITS) = b
  <2> SUFFICES ASSUME NEW t \in Byte, \A i \in 1 .. DATA_BITS : t[i] = b[i]
               PROVE  t = b
    BY <1>1, <1>2
  <2> QED
    BY ByteIsSeq, SeqEqual
<1>4. s[STOP] /\ (s[PARITY] = ~Odd(b))
  <2>1. STOP \in 1 .. STOP /\ PARITY \in 1 .. STOP
    BY Sizes
  <2> QED
    BY <2>1, BitsAre, Zenon
<1>5. Good(s)
  BY <1>3, <1>4, Zenon DEF Good
<1> QED
  BY <1>3, <1>5

\* What the keyboard has sampled is the beginning of the frame.
LEMMA FrameStart ==
  ASSUME NEW b \in Byte, NEW s \in Seq(BOOLEAN), Len(s) <= STOP,
         \A i \in 1 .. Len(s) : s[i] = BitsOf(b)[i]
  PROVE  s = SubSeq(FrameOf(b), 1, Len(s))
<1> DEFINE t == SubSeq(FrameOf(b), 1, Len(s))
<1>1. /\ FrameOf(b) \in Seq(BOOLEAN) /\ Len(FrameOf(b)) = STOP
      /\ \A i \in 1 .. STOP : FrameOf(b)[i] = BitsOf(b)[i]
  BY FrameIs
<1>2. Len(s) \in 0 .. STOP
  BY Sizes
<1>3. t \in Seq(BOOLEAN) /\ Len(t) = Len(s) /\ \A i \in 1 .. Len(s) : t[i] = FrameOf(b)[i]
  BY <1>1, <1>2, Sizes
<1>4. \A i \in 1 .. Len(s) : t[i] = s[i]
  BY <1>1, <1>2, <1>3, Sizes
<1> HIDE DEF t
<1> QED
  BY <1>3, <1>4, SeqEqual DEF t

-----------------------------------------------------------------------------
(***************************************************************************)
(* What one edge does to the registers.                                    *)
(***************************************************************************)
TxRec == [state : Tx_state, data : Byte, bit : 0 .. STOP, timer : 0 .. TIMER_MOD - 1,
          idle : 0 .. IDLE_MIN_TICKS_C, done : BOOLEAN, error : BOOLEAN,
          resp_valid : BOOLEAN, resp : Byte, clk_oe : BOOLEAN, dat_oe : BOOLEAN]

Access(acc) == acc.op = "TXDATA" => acc.byte \in Byte

LEMMA ModIs == ASSUME NEW t \in 0 .. TIMER_MOD - 1
               PROVE  /\ Count(t) \in 0 .. TIMER_MOD - 1
                      /\ t + 1 < TIMER_MOD => Count(t) = t + 1
BY Ps2Assumption DEF Count

LEMMA IdleTyped == tx \in TxRec => Idle_count \in TxRec
<1> SUFFICES ASSUME tx \in TxRec PROVE Idle_count \in TxRec
  OBVIOUS
<1> DEFINE i == IF Idle_line /\ ~Waited THEN tx.idle + 1 ELSE 0
<1>1. i \in 0 .. IDLE_MIN_TICKS_C
  BY Ps2Assumption DEF TxRec, Waited
<1>2. Idle_count = [tx EXCEPT !.idle = i]
  BY DEF Idle_count, TxRec
<1> HIDE DEF i
<1> QED
  BY <1>1, <1>2 DEF TxRec

\* The state machine keeps the types.
LEMMA MachineTyped ==
  ASSUME tx \in TxRec, rx_scan_code \in Byte, NEW expired \in BOOLEAN
  PROVE  StateMachine(expired) \in TxRec
<1>1. /\ "TX_IDLE" \in Tx_state /\ "TX_PULL_CLK" \in Tx_state /\ "TX_PULL_DAT" \in Tx_state
      /\ "TX_SEND" \in Tx_state /\ "TX_WAIT_RESP" \in Tx_state
  BY DEF Tx_state
<1>2. /\ TRUE \in BOOLEAN /\ FALSE \in BOOLEAN /\ 0 \in 0 .. TIMER_MOD - 1 /\ 0 \in 0 .. STOP
      /\ 0 \in 0 .. IDLE_MIN_TICKS_C
  BY Ps2Assumption, Sizes
<1>3. \A t \in TxRec : Failed(t) \in TxRec
  BY <1>1, <1>2 DEF Failed, TxRec
<1>4. Count(tx.timer) \in 0 .. TIMER_MOD - 1
  BY ModIs DEF TxRec
<1>5. ASSUME NEW n, NEW next \in Tx_state
      PROVE  Hold(n, next) \in TxRec
  BY <1>2, <1>4 DEF Hold, TxRec
<1>6. Idle_count \in TxRec
  BY IdleTyped
<1>7. Wait_idle \in TxRec
  <2> DEFINE c == Idle_count
             k == Count(tx.timer)
  <2>1. c \in TxRec /\ Failed(c) \in TxRec /\ c.timer = tx.timer
    BY <1>3, <1>6 DEF Idle_count, TxRec
  <2>2. Wait_idle \in {[Failed(c) EXCEPT !.timer = IF Waited THEN 0 ELSE @],
                       [c EXCEPT !.state = IF Waited THEN "TX_PULL_CLK" ELSE @, !.timer = Count(@)]}
    BY DEF Wait_idle
  <2> HIDE DEF c
  <2> SUFFICES ASSUME NEW f \in TxRec, f = Failed(c)
               PROVE  /\ [f EXCEPT !.timer = IF Waited THEN 0 ELSE @] \in TxRec
                      /\ [c EXCEPT !.state = IF Waited THEN "TX_PULL_CLK" ELSE @, !.timer = Count(@)] \in TxRec
    BY <2>1, <2>2
  <2>3. [f EXCEPT !.timer = IF Waited THEN 0 ELSE @] \in TxRec
    BY <1>2 DEF TxRec
  <2>4. [c EXCEPT !.state = IF Waited THEN "TX_PULL_CLK" ELSE @, !.timer = Count(@)] \in TxRec
    BY <1>1, <1>4, <2>1 DEF TxRec
  <2> QED
    BY <2>3, <2>4
<1>8. Send(expired) \in TxRec
  <2>1. tx.bit # STOP => tx.bit + 1 \in 0 .. STOP
    BY Sizes DEF TxRec
  <2>2. [tx EXCEPT !.state = "TX_WAIT_RESP"] \in TxRec
    BY <1>1 DEF TxRec
  <2>3. tx.bit # STOP => [tx EXCEPT !.bit = @ + 1] \in TxRec
    BY <2>1 DEF TxRec
  <2> QED
    BY <1>3, <2>2, <2>3 DEF Send
<1>9. Wait_resp(expired) \in TxRec
  <2>1. [tx EXCEPT !.state = "TX_IDLE", !.resp = rx_scan_code,
                   !.resp_valid = TRUE, !.done = TRUE, !.error = FALSE] \in TxRec
    BY <1>1, <1>2 DEF TxRec
  <2> QED
    BY <1>3, <2>1 DEF Wait_resp
<1>10. [tx EXCEPT !.timer = 0, !.idle = 0] \in TxRec
  BY <1>2 DEF TxRec
<1>11. tx.state \in Tx_state
  BY DEF TxRec
<1> QED
  BY <1>1, <1>5, <1>7, <1>8, <1>9, <1>10, <1>11 DEF StateMachine, Tx_state

LEMMA TxTyped ==
  ASSUME tx \in TxRec, rx_scan_code \in Byte, NEW expired \in BOOLEAN, NEW acc, Access(acc),
         P_tx(acc, expired)
  PROVE  tx' \in TxRec
<1> SUFFICES ASSUME NEW t \in TxRec, tx' = [Written(t, acc) EXCEPT !.clk_oe = Clk_oe, !.dat_oe = Dat_oe]
             PROVE  tx' \in TxRec
  BY MachineTyped DEF P_tx
<1>1. Written(t, acc) \in TxRec
  <2>1. "TX_WAIT_IDLE" \in Tx_state /\ 0 \in 0 .. TIMER_MOD - 1 /\ 0 \in 0 .. IDLE_MIN_TICKS_C
    BY Ps2Assumption DEF Tx_state
  <2> QED
    BY <2>1 DEF Written, Access, TxRec
<1>2. Clk_oe \in BOOLEAN /\ Dat_oe \in BOOLEAN
  BY DEF Clk_oe, Dat_oe
<1> SUFFICES ASSUME NEW w \in TxRec, NEW a \in BOOLEAN, NEW b \in BOOLEAN
             PROVE  [w EXCEPT !.clk_oe = a, !.dat_oe = b] \in TxRec
  BY <1>1, <1>2
<1> QED
  BY DEF TxRec

\* The registers after the software's write, if there is one.
LEMMA WrittenIs ==
  ASSUME NEW t \in TxRec, NEW acc, Access(acc)
  PROVE  LET w == [Written(t, acc) EXCEPT !.clk_oe = Clk_oe, !.dat_oe = Dat_oe]
         IN  /\ w.clk_oe = Clk_oe /\ w.dat_oe = Dat_oe
             /\ \/ /\ acc.op = "TXDATA" /\ tx.state = "TX_IDLE"
                   /\ w.state = "TX_WAIT_IDLE" /\ w.data = acc.byte /\ w.resp_valid = FALSE
                \/ /\ ~(acc.op = "TXDATA" /\ tx.state = "TX_IDLE")
                   /\ w.state = t.state /\ w.data = t.data /\ w.bit = t.bit /\ w.timer = t.timer
                   /\ w.resp = t.resp /\ (w.resp_valid => t.resp_valid)
<1> DEFINE p == Written(t, acc)
<1>1. \/ /\ acc.op = "TXDATA" /\ tx.state = "TX_IDLE"
         /\ p.state = "TX_WAIT_IDLE" /\ p.data = acc.byte /\ p.resp_valid = FALSE
      \/ /\ ~(acc.op = "TXDATA" /\ tx.state = "TX_IDLE")
         /\ p.state = t.state /\ p.data = t.data /\ p.bit = t.bit /\ p.timer = t.timer
         /\ p.resp = t.resp /\ (p.resp_valid => t.resp_valid)
  BY DEF Written, TxRec
<1>2. p \in TxRec
  <2>1. /\ "TX_WAIT_IDLE" \in Tx_state /\ 0 \in 0 .. TIMER_MOD - 1 /\ 0 \in 0 .. IDLE_MIN_TICKS_C
    BY Ps2Assumption DEF Tx_state
  <2> QED
    BY <2>1 DEF Written, Access, TxRec
<1> HIDE DEF p
<1>3. ASSUME NEW a, NEW b
      PROVE  LET w == [p EXCEPT !.clk_oe = a, !.dat_oe = b]
             IN  /\ w.clk_oe = a /\ w.dat_oe = b /\ w.state = p.state /\ w.data = p.data
                 /\ w.bit = p.bit /\ w.timer = p.timer /\ w.resp = p.resp
                 /\ w.resp_valid = p.resp_valid
  BY <1>2 DEF TxRec
<1> QED
  BY <1>1, <1>3 DEF p

\* The state machine, state by state.
LEMMA MachineMoves ==
  ASSUME tx \in TxRec, rx_scan_code \in Byte, NEW expired \in BOOLEAN,
         NEW t, t = StateMachine(expired)
  PROVE  /\ t.data = tx.data
         /\ tx.state = "TX_IDLE" => t.state = "TX_IDLE"
         /\ tx.state = "TX_WAIT_IDLE" =>
              t.state \in {"TX_WAIT_IDLE", "TX_IDLE"} \/ (t.state = "TX_PULL_CLK" /\ Waited)
         /\ tx.state = "TX_PULL_CLK" =>
              t.state = "TX_PULL_CLK" \/ (t.state = "TX_PULL_DAT" /\ t.timer = 0)
         /\ tx.state = "TX_PULL_DAT" =>
              \/ /\ tx.timer # DATA_SETUP_TICKS_C
                 /\ t.state = "TX_PULL_DAT" /\ t.timer = Count(tx.timer)
              \/ tx.timer = DATA_SETUP_TICKS_C /\ t.state = "TX_SEND" /\ t.bit = 0
         /\ tx.state = "TX_SEND" =>
              \/ Sync_clk_fall /\ tx.bit = STOP /\ t.state = "TX_WAIT_RESP"
              \/ Sync_clk_fall /\ tx.bit # STOP /\ t.state = "TX_SEND" /\ t.bit = tx.bit + 1
              \/ ~Sync_clk_fall /\ expired /\ t.state = "TX_IDLE"
              \/ ~Sync_clk_fall /\ ~expired /\ t.state = "TX_SEND" /\ t.bit = tx.bit
         /\ tx.state = "TX_WAIT_RESP" =>
              \/ rx_valid /\ t.state = "TX_IDLE" /\ t.resp = rx_scan_code
              \/ ~rx_valid /\ expired /\ t.state = "TX_IDLE"
              \/ ~rx_valid /\ ~expired /\ t.state = "TX_WAIT_RESP"
         /\ \/ t.resp_valid = tx.resp_valid /\ t.resp = tx.resp
            \/ tx.state = "TX_WAIT_RESP" /\ rx_valid
<1>1. tx.state \in Tx_state
  BY DEF TxRec
<1>2. CASE tx.state = "TX_IDLE"
  BY <1>2 DEF StateMachine, TxRec
<1>3. CASE tx.state = "TX_WAIT_IDLE"
  <2>1. t = Wait_idle
    BY <1>3 DEF StateMachine
  <2> DEFINE c == Idle_count
  <2>3. c.state = tx.state /\ c.data = tx.data /\ c.resp_valid = tx.resp_valid /\ c.resp = tx.resp
    BY DEF Idle_count, TxRec
  <2>4. c \in TxRec
    BY IdleTyped
  <2> HIDE DEF c
  <2>5. \/ t = [Failed(c) EXCEPT !.timer = IF Waited THEN 0 ELSE @]
        \/ t = [c EXCEPT !.state = IF Waited THEN "TX_PULL_CLK" ELSE @, !.timer = Count(@)]
    BY <2>1 DEF Wait_idle, c
  <2>6. CASE t = [Failed(c) EXCEPT !.timer = IF Waited THEN 0 ELSE @]
    BY <1>3, <2>3, <2>4, <2>6 DEF Failed, TxRec
  <2>7. CASE t = [c EXCEPT !.state = IF Waited THEN "TX_PULL_CLK" ELSE @, !.timer = Count(@)]
    BY <1>3, <2>3, <2>4, <2>7 DEF TxRec
  <2> QED
    BY <2>5, <2>6, <2>7
<1>4. CASE tx.state = "TX_PULL_CLK"
  BY <1>4 DEF StateMachine, Hold, TxRec
<1>5. CASE tx.state = "TX_PULL_DAT"
  BY <1>5 DEF StateMachine, Hold, TxRec
<1>6. CASE tx.state = "TX_SEND"
  <2>1. t = Send(expired)
    BY <1>6 DEF StateMachine
  <2> QED
    BY <1>6, <2>1 DEF Send, Failed, TxRec
<1>7. CASE tx.state = "TX_WAIT_RESP"
  <2>1. t = Wait_resp(expired)
    BY <1>7 DEF StateMachine
  <2> QED
    BY <1>7, <2>1 DEF Wait_resp, Failed, TxRec
<1> QED
  BY <1>1, <1>2, <1>3, <1>4, <1>5, <1>6, <1>7 DEF Tx_state

\* What an edge does to the transmitter.
TxMove(acc, expired) ==
  /\ tx'.clk_oe = Clk_oe /\ tx'.dat_oe = Dat_oe
  /\ tx.state # "TX_IDLE" => tx'.data = tx.data
  /\ tx.state = "TX_IDLE" =>
       \/ /\ acc.op = "TXDATA" /\ tx'.state = "TX_WAIT_IDLE"
          /\ tx'.data = acc.byte /\ ~tx'.resp_valid
       \/ tx'.state = "TX_IDLE" /\ acc.op # "TXDATA" /\ tx'.data = tx.data
  /\ tx.state = "TX_WAIT_IDLE" =>
       tx'.state \in {"TX_WAIT_IDLE", "TX_IDLE"} \/ (tx'.state = "TX_PULL_CLK" /\ Waited)
  /\ tx.state = "TX_PULL_CLK" =>
       tx'.state = "TX_PULL_CLK" \/ (tx'.state = "TX_PULL_DAT" /\ tx'.timer = 0)
  /\ tx.state = "TX_PULL_DAT" =>
       \/ /\ tx.timer # DATA_SETUP_TICKS_C
          /\ tx'.state = "TX_PULL_DAT" /\ tx'.timer = Count(tx.timer)
       \/ tx.timer = DATA_SETUP_TICKS_C /\ tx'.state = "TX_SEND" /\ tx'.bit = 0
  /\ tx.state = "TX_SEND" =>
       \/ Sync_clk_fall /\ tx.bit = STOP /\ tx'.state = "TX_WAIT_RESP"
       \/ Sync_clk_fall /\ tx.bit # STOP /\ tx'.state = "TX_SEND" /\ tx'.bit = tx.bit + 1
       \/ ~Sync_clk_fall /\ expired /\ tx'.state = "TX_IDLE"
       \/ ~Sync_clk_fall /\ ~expired /\ tx'.state = "TX_SEND" /\ tx'.bit = tx.bit
  /\ tx.state = "TX_WAIT_RESP" =>
       \/ rx_valid /\ tx'.state = "TX_IDLE" /\ tx'.resp = rx_scan_code
       \/ ~rx_valid /\ expired /\ tx'.state = "TX_IDLE"
       \/ ~rx_valid /\ ~expired /\ tx'.state = "TX_WAIT_RESP"
  /\ tx'.resp_valid => \/ tx.resp_valid /\ tx'.resp = tx.resp /\ tx'.data = tx.data
                       \/ tx.state = "TX_WAIT_RESP" /\ rx_valid

LEMMA TxMoves ==
  ASSUME tx \in TxRec, rx_scan_code \in Byte, NEW expired \in BOOLEAN, NEW acc, Access(acc),
         P_tx(acc, expired)
  PROVE  TxMove(acc, expired)
<1> DEFINE t == StateMachine(expired)
           w == [Written(t, acc) EXCEPT !.clk_oe = Clk_oe, !.dat_oe = Dat_oe]
<1>1. t \in TxRec
  BY MachineTyped
<1>2. tx' = w
  BY DEF P_tx
<1> HIDE DEF t
<1>3. /\ w.clk_oe = Clk_oe /\ w.dat_oe = Dat_oe
      /\ \/ /\ acc.op = "TXDATA" /\ tx.state = "TX_IDLE"
            /\ w.state = "TX_WAIT_IDLE" /\ w.data = acc.byte /\ w.resp_valid = FALSE
         \/ /\ ~(acc.op = "TXDATA" /\ tx.state = "TX_IDLE")
            /\ w.state = t.state /\ w.data = t.data /\ w.bit = t.bit /\ w.timer = t.timer
            /\ w.resp = t.resp /\ (w.resp_valid => t.resp_valid)
  BY <1>1, WrittenIs
<1> HIDE DEF w
<1> QED
  BY <1>2, <1>3, MachineMoves DEF TxMove, t

-----------------------------------------------------------------------------
(***************************************************************************)
(* Types.                                                                  *)
(***************************************************************************)
DrvRec == [pc : {"clear", "busy", "write", "poll", "ready", "data"}, cmd : {1, 2},
           attempt : {0, 1}, resp : Byte, ret : {-1, 0}, lock : BOOLEAN,
           last : BOOLEAN, mask : BOOLEAN]

SyncType == clk_buf \in [1 .. 3 -> BOOLEAN] /\ dat_buf \in [1 .. 2 -> BOOLEAN]
RxType   == /\ rx_state \in {"IDLE", "RECEIVING"} /\ bit_cnt \in 0 .. DATA_BITS + 1
            /\ rx_valid \in BOOLEAN /\ rx_scan_code \in Byte
FifoType == /\ fifo_mem \in [0 .. FIFO_DEPTH_C - 1 -> Byte] /\ fifo_count \in 0 .. FIFO_DEPTH_C
            /\ fifo_wr_ptr \in 0 .. FIFO_DEPTH_C - 1 /\ fifo_rd_ptr \in 0 .. FIFO_DEPTH_C - 1

\* The shift register holds the bits counted.
RxShape ==
  /\ shift_reg \in Seq(BOOLEAN)
  /\ rx_state = "RECEIVING" => Len(shift_reg) = bit_cnt
  /\ Received => Len(shift_reg) = STOP
  /\ rx_state = "IDLE" /\ ~Received => bit_cnt = 0 /\ shift_reg = << >>

CtrlType == SyncType /\ RxType /\ RxShape /\ FifoType /\ tx \in TxRec

LEMMA TypeIs == CtrlType /\ drv \in DrvRec => TypeOK
BY DEF CtrlType, SyncType, RxType, FifoType, TxRec, DrvRec, TypeOK

LEMMA TwoBits ==
  ASSUME NEW a \in BOOLEAN, NEW b \in BOOLEAN
  PROVE  <<a, b>> \in [1 .. 2 -> BOOLEAN] /\ <<a, b>>[1] = a /\ <<a, b>>[2] = b
OBVIOUS

LEMMA ThreeBits ==
  ASSUME NEW a \in BOOLEAN, NEW b \in BOOLEAN, NEW c \in BOOLEAN
  PROVE  /\ <<a, b, c>> \in [1 .. 3 -> BOOLEAN]
         /\ <<a, b, c>>[1] = a /\ <<a, b, c>>[2] = b /\ <<a, b, c>>[3] = c
OBVIOUS

\* The lines move one place.
LEMMA SyncMoves ==
  ASSUME SyncType, NEW clk \in BOOLEAN, NEW dat \in BOOLEAN, P_sync(clk, dat)
  PROVE  /\ SyncType'
         /\ clk_buf'[1] = clk /\ clk_buf'[2] = clk_buf[1] /\ clk_buf'[3] = clk_buf[2]
         /\ dat_buf'[1] = dat /\ dat_buf'[2] = dat_buf[1]
<1>1. clk_buf[1] \in BOOLEAN /\ clk_buf[2] \in BOOLEAN /\ dat_buf[1] \in BOOLEAN
  BY DEF SyncType
<1> QED
  BY <1>1, TwoBits, ThreeBits DEF P_sync, SyncType

LEMMA Appended ==
  ASSUME NEW s \in Seq(BOOLEAN), NEW b \in BOOLEAN
  PROVE  /\ Append(s, b) \in Seq(BOOLEAN) /\ Len(Append(s, b)) = Len(s) + 1
         /\ \A i \in 1 .. Len(s) : Append(s, b)[i] = s[i]
         /\ Append(s, b)[Len(s) + 1] = b
BY AppendProperties

LEMMA EmptyIs == << >> \in Seq(BOOLEAN) /\ Len(<< >>) = 0
OBVIOUS

LEMMA RxTypeNext ==
  ASSUME rx_state' \in {"IDLE", "RECEIVING"}, bit_cnt' \in 0 .. DATA_BITS + 1,
         rx_valid' \in BOOLEAN, rx_scan_code' \in Byte
  PROVE  RxType'
BY DEF RxType

LEMMA RxTyped ==
  ASSUME SyncType, RxType, RxShape, P_receiver
  PROVE  RxType' /\ RxShape'
<1>1. Sync_dat \in BOOLEAN
  BY DEF SyncType, Sync_dat
<1>2. CASE ~Rx_enable
  <2>1. /\ rx_state' = "IDLE" /\ bit_cnt' = 0 /\ shift_reg' = << >> /\ rx_valid' = FALSE
        /\ rx_scan_code' = rx_scan_code
    BY <1>2 DEF P_receiver
  <2>2. RxType'
    <3>1. bit_cnt' \in 0 .. DATA_BITS + 1
      BY <2>1, Sizes
    <3>2. rx_scan_code' \in Byte
      BY <2>1 DEF RxType
    <3> QED
      BY <2>1, <3>1, <3>2, RxTypeNext
  <2>3. ~Received'
    BY <2>1, Sizes DEF Received
  <2> QED
    BY <2>1, <2>2, <2>3, EmptyIs DEF RxShape
<1>3. CASE Rx_enable /\ Received
  <2>1. Good(shift_reg) \in BOOLEAN
    BY DEF Good, RxShape, Sizes
  <2>2. SubSeq(shift_reg, 1, DATA_BITS) \in Byte
    BY <1>3, DataBits, Sizes DEF RxShape
  <2>3. /\ rx_state' \in {rx_state, "RECEIVING"} /\ bit_cnt' = 0 /\ shift_reg' = << >>
        /\ rx_valid' = Good(shift_reg)
        /\ rx_scan_code' \in {rx_scan_code, SubSeq(shift_reg, 1, DATA_BITS)}
    BY <1>3 DEF P_receiver
  <2>4. RxType'
    <3>1. bit_cnt' \in 0 .. DATA_BITS + 1
      BY <2>3, Sizes
    <3>2. rx_scan_code' \in Byte /\ rx_state' \in {"IDLE", "RECEIVING"}
      BY <2>2, <2>3 DEF RxType
    <3>3. rx_valid' \in BOOLEAN
      BY <2>1, <2>3
    <3> QED
      BY <3>1, <3>2, <3>3, RxTypeNext
  <2>5. ~Received'
    BY <2>3, Sizes DEF Received
  <2> QED
    BY <2>3, <2>4, <2>5, EmptyIs DEF RxShape
<1>4. CASE Rx_enable /\ ~Received
  <2>1. \/ Sync_clk_fall /\ rx_state = "RECEIVING" /\ Rx_shift
        \/ rx_state' = "RECEIVING" /\ bit_cnt' = 0 /\ shift_reg' = << >>
        \/ UNCHANGED <<rx_state, bit_cnt, shift_reg>>
    BY <1>4 DEF P_receiver
  <2>2. rx_valid' = FALSE /\ UNCHANGED rx_scan_code
    BY <1>4 DEF P_receiver
  <2>3. CASE Sync_clk_fall /\ rx_state = "RECEIVING" /\ Rx_shift
    <3>1. /\ shift_reg' = Append(shift_reg, Sync_dat)
          /\ \/ bit_cnt = DATA_BITS + 1 /\ rx_state' = "IDLE" /\ bit_cnt' = bit_cnt
             \/ bit_cnt # DATA_BITS + 1 /\ rx_state' = "RECEIVING" /\ bit_cnt' = bit_cnt + 1
      BY <2>3 DEF Rx_shift
    <3>2. RxType'
      <4>1. bit_cnt' \in 0 .. DATA_BITS + 1
        BY <3>1, Sizes DEF RxType
      <4>2. rx_scan_code' \in Byte /\ rx_state' \in {"IDLE", "RECEIVING"}
        BY <2>2, <3>1 DEF RxType
      <4> QED
        BY <2>2, <4>1, <4>2, RxTypeNext
    <3>3. shift_reg' \in Seq(BOOLEAN) /\ Len(shift_reg') = bit_cnt + 1
      BY <1>1, <2>3, <3>1, Appended DEF RxShape
    <3> QED
      BY <3>1, <3>2, <3>3, Sizes DEF RxShape, Received, RxType
  <2>4. CASE rx_state' = "RECEIVING" /\ bit_cnt' = 0 /\ shift_reg' = << >>
    <3>1. RxType'
      <4>1. bit_cnt' \in 0 .. DATA_BITS + 1
        BY <2>4, Sizes
      <4>2. rx_scan_code' \in Byte
        BY <2>2 DEF RxType
      <4> QED
        BY <2>2, <2>4, <4>1, <4>2, RxTypeNext
    <3>2. ~Received'
      BY <2>4, Sizes DEF Received
    <3> QED
      BY <2>4, <3>1, <3>2, EmptyIs DEF RxShape
  <2>5. CASE UNCHANGED <<rx_state, bit_cnt, shift_reg>>
    BY <2>2, <2>5 DEF RxType, RxShape, Received
  <2> QED
    BY <2>1, <2>3, <2>4, <2>5
<1> QED
  BY <1>2, <1>3, <1>4

LEMMA FifoTyped ==
  ASSUME RxType, FifoType, NEW acc, P_fifo(acc)
  PROVE  FifoType'
<1>1. FIFO_DEPTH_C \in Nat \ {0}
  BY Ps2Assumption
<1>2. \A p \in 0 .. FIFO_DEPTH_C - 1 : (p + 1) % FIFO_DEPTH_C \in 0 .. FIFO_DEPTH_C - 1
  BY <1>1
<1>3. fifo_mem' \in [0 .. FIFO_DEPTH_C - 1 -> Byte]
  BY DEF P_fifo, RxType, FifoType
<1>4. fifo_count' \in 0 .. FIFO_DEPTH_C
  <2>1. \/ fifo_count # 0 /\ fifo_count' = fifo_count - 1
        \/ fifo_count < FIFO_DEPTH_C /\ fifo_count' = fifo_count + 1
        \/ fifo_count' = fifo_count
    BY DEF P_fifo, Stores
  <2> QED
    BY <1>1, <2>1 DEF FifoType
<1> QED
  BY <1>2, <1>3, <1>4 DEF P_fifo, FifoType

LEMMA CtrlTyped ==
  ASSUME CtrlType, NEW clk \in BOOLEAN, NEW dat \in BOOLEAN, NEW expired \in BOOLEAN,
         NEW acc, Access(acc), CtrlEdge(clk, dat, acc, expired)
  PROVE  CtrlType'
<1>1. SyncType' /\ RxType' /\ RxShape' /\ FifoType'
  BY SyncMoves, RxTyped, FifoTyped DEF CtrlType, CtrlEdge
<1>2. tx' \in TxRec
  BY TxTyped DEF CtrlType, CtrlEdge, RxType
<1> QED
  BY <1>1, <1>2 DEF CtrlType

-----------------------------------------------------------------------------
(***************************************************************************)
(* The inductive invariant of the port.                                    *)
(***************************************************************************)
KbRec == [st : {"idle", "send", "receive"}, bit : 0 .. STOP + 1, low : BOOLEAN, got : Seq(BOOLEAN),
          byte : Byte \cup {NoByte}, reply : Byte \cup {NoByte}, keys : Int, presses : Nat,
          resends : Nat, expect : BOOLEAN, leds : Byte \cup {NoByte},
          last : {<< >>} \cup (Byte \X Byte), alive : BOOLEAN]

KbType ==
  /\ kb \in KbRec
  /\ kb.st = "idle" => ~kb.low
  /\ kb.st # "idle" => kb.alive
  /\ kb.st = "send" => kb.byte \in Byte /\ kb.bit <= STOP

\* The levels on their way through the synchronizer hold one edge at most: the
\* clock line changes only when the last change has gone through.
Rising  == (clk_buf[3] => clk_buf[2]) /\ (clk_buf[2] => clk_buf[1])
Falling == (clk_buf[1] => clk_buf[2]) /\ (clk_buf[2] => clk_buf[3])

\* What the transmitter holds down, and how long it has held it.
Lines ==
  /\ Clk => Rising
  /\ ~Clk => Falling
  /\ tx.state = "TX_PULL_CLK" /\ Clk => clk_buf[3]
  /\ tx.state = "TX_PULL_DAT" => /\ tx.clk_oe /\ tx.timer <= DATA_SETUP_TICKS_C
                                 /\ tx.timer >= 1 => ~clk_buf[1]
                                 /\ tx.timer >= 2 => ~clk_buf[2]
  /\ tx.clk_oe => tx.state \in {"TX_PULL_CLK", "TX_PULL_DAT", "TX_SEND"}
  /\ tx.state = "TX_SEND" /\ tx.clk_oe => ~clk_buf[3]
  /\ tx.dat_oe => tx.state \in {"TX_PULL_DAT", "TX_SEND"} \/ ~kb.alive
  /\ tx.state = "TX_SEND" /\ kb.st = "idle" => tx.bit = 0

\* The receiver is at the start of a frame while it is held in reset and while
\* the keyboard sends none.
RxReset == rx_state = "IDLE" /\ bit_cnt = 0 /\ ~rx_valid
RxStill == tx.clk_oe \/ tx.state \in {"TX_PULL_DAT", "TX_SEND"} \/ kb.st # "send" => RxReset

\* The receiver has seen the bits below k.
Seen(k) ==
  /\ k = 0 => RxReset
  /\ k > 0 => rx_state = "RECEIVING" /\ bit_cnt = k - 1

Listening == Rx_enable \/ (tx.state = "TX_PULL_CLK" /\ ~tx.clk_oe)

\* A frame from the keyboard, until the host holds the clock.
SendFrame ==
  kb.st = "send" =>
    /\ ~tx.dat_oe /\ tx.state # "TX_SEND"
    /\ Listening =>
         /\ \A i \in 1 .. Len(shift_reg) : shift_reg[i] = BitsOf(kb.byte)[i]
         /\ ~kb.low => Seen(kb.bit)
         /\ kb.low /\ clk_buf[3] => Seen(kb.bit)
         /\ kb.low /\ ~clk_buf[3] /\ kb.bit < STOP => Seen(kb.bit + 1)
         /\ kb.low /\ ~clk_buf[3] /\ kb.bit = STOP => rx_state = "IDLE"
         /\ kb.low => /\ dat_buf[1] = BitsOf(kb.byte)[kb.bit]
                      /\ dat_buf[2] = BitsOf(kb.byte)[kb.bit]
    /\ rx_valid => kb.low /\ ~clk_buf[3] /\ kb.bit = STOP /\ rx_scan_code = kb.byte

\* A command on its way to the keyboard: the bit on the line is the one the
\* keyboard is about to sample.
ReceiveCmd ==
  kb.st = "receive" =>
    /\ tx.state \in {"TX_SEND", "TX_WAIT_RESP"} /\ ~tx.clk_oe
    /\ Len(kb.got) = IF kb.low THEN kb.bit - 1 ELSE kb.bit
    /\ \A i \in 1 .. Len(kb.got) : kb.got[i] = BitsOf(tx.data)[i]
    /\ ~kb.low => tx.state = "TX_SEND" /\ tx.bit = kb.bit /\ kb.bit <= STOP
    /\ kb.low => kb.bit >= 1
    /\ kb.low /\ clk_buf[3] => tx.state = "TX_SEND" /\ tx.bit = kb.bit - 1
    /\ kb.low /\ ~clk_buf[3] /\ kb.bit <= STOP => tx.state = "TX_SEND" /\ tx.bit = kb.bit
    /\ kb.low /\ ~clk_buf[3] /\ kb.bit > STOP => tx.state = "TX_WAIT_RESP"

\* A transmitter that waits for the answer gets the answer next.
Answers ==
  \/ ~kb.alive
  \/ kb.st = "receive" /\ kb.bit = STOP + 1
  \/ kb.st = "idle" /\ kb.reply # NoByte /\ kb.last = <<tx.data, kb.reply>>
  \/ /\ kb.st = "send" /\ kb.last = <<tx.data, kb.byte>>
     /\ (kb.low /\ kb.bit = STOP) \/ kb.reply = kb.byte
     /\ kb.low /\ kb.bit = STOP /\ ~clk_buf[3] => Received \/ rx_valid

Reply ==
  /\ tx.state = "TX_WAIT_RESP" => Answers
  /\ tx.resp_valid => tx.state = "TX_IDLE" /\ kb.last = <<tx.data, tx.resp>>

BoardInv == CtrlType /\ KbType /\ Lines /\ RxStill /\ SendFrame /\ ReceiveCmd /\ Reply

-----------------------------------------------------------------------------
(***************************************************************************)
(* One edge.                                                               *)
(***************************************************************************)
Edged(acc, expired) ==
  /\ ~MustMove /\ CtrlEdge(Clk, Dat, acc, expired) /\ kb' = kb
  /\ expired => ~kb.alive

\* The host pulls the data line long enough before it lets go of the clock line
\* for the edge it made itself to have gone through the synchronizer (250 ticks).
SetupSettles == DATA_SETUP_TICKS_C >= 2

LEMMA LevelsTyped ==
  ASSUME CtrlType
  PROVE  /\ clk_buf[1] \in BOOLEAN /\ clk_buf[2] \in BOOLEAN /\ clk_buf[3] \in BOOLEAN
         /\ dat_buf[1] \in BOOLEAN /\ dat_buf[2] \in BOOLEAN
         /\ Clk \in BOOLEAN /\ Dat \in BOOLEAN /\ tx.clk_oe \in BOOLEAN /\ tx.dat_oe \in BOOLEAN
         /\ tx.state \in Tx_state /\ tx.data \in Byte /\ tx.bit \in 0 .. STOP /\ tx.resp \in Byte
         /\ tx.timer \in 0 .. TIMER_MOD - 1
BY DEF CtrlType, SyncType, TxRec, Clk, Dat

\* What an edge reads and what it leaves.
LEMMA EdgeMoves ==
  ASSUME CtrlType, NEW expired \in BOOLEAN, NEW acc, Access(acc), Edged(acc, expired)
  PROVE  /\ CtrlType' /\ TxMove(acc, expired) /\ P_receiver /\ kb' = kb
         /\ clk_buf'[1] = Clk /\ clk_buf'[2] = clk_buf[1] /\ clk_buf'[3] = clk_buf[2]
         /\ dat_buf'[1] = Dat /\ dat_buf'[2] = dat_buf[1]
         /\ Clk' <=> ~(Clk_oe \/ kb.low)
<1>1. CtrlEdge(Clk, Dat, acc, expired) /\ kb' = kb
  BY DEF Edged
<1>2. CtrlType'
  BY <1>1, CtrlTyped, LevelsTyped
<1>3. TxMove(acc, expired)
  BY <1>1, TxMoves DEF CtrlEdge, CtrlType, RxType
<1>4. /\ clk_buf'[1] = Clk /\ clk_buf'[2] = clk_buf[1] /\ clk_buf'[3] = clk_buf[2]
      /\ dat_buf'[1] = Dat /\ dat_buf'[2] = dat_buf[1]
  BY <1>1, SyncMoves, LevelsTyped DEF CtrlEdge, CtrlType
<1>5. P_receiver
  BY <1>1 DEF CtrlEdge
<1>6. Clk' <=> ~(Clk_oe \/ kb.low)
  BY <1>1, <1>3 DEF Clk, TxMove
<1> QED
  BY <1>1, <1>2, <1>3, <1>4, <1>5, <1>6

LEMMA LinesEdge ==
  ASSUME SetupSettles, BoardInv, NEW expired \in BOOLEAN, NEW acc, Access(acc), Edged(acc, expired)
  PROVE  Lines'
<1> DEFINE c1 == clk_buf[1]
           c2 == clk_buf[2]
           c3 == clk_buf[3]
           oe == tx.clk_oe
<1>1. /\ CtrlType' /\ TxMove(acc, expired) /\ kb' = kb
      /\ clk_buf'[1] = Clk /\ clk_buf'[2] = c1 /\ clk_buf'[3] = c2
      /\ Clk' <=> ~(Clk_oe \/ kb.low)
  BY EdgeMoves DEF BoardInv
<1>2. /\ Clk <=> ~(oe \/ kb.low)
      /\ Clk => (c3 => c2) /\ (c2 => c1)
      /\ ~Clk => (c1 => c2) /\ (c2 => c3)
      /\ tx.state = "TX_PULL_CLK" /\ Clk => c3
      /\ tx.state = "TX_PULL_DAT" => /\ oe /\ tx.timer <= DATA_SETUP_TICKS_C
                                     /\ tx.timer >= 1 => ~c1
                                     /\ tx.timer >= 2 => ~c2
      /\ oe => tx.state \in {"TX_PULL_CLK", "TX_PULL_DAT", "TX_SEND"}
      /\ tx.state = "TX_SEND" /\ oe => ~c3
      /\ tx.dat_oe => tx.state \in {"TX_PULL_DAT", "TX_SEND"} \/ ~kb.alive
      /\ tx.state = "TX_SEND" /\ kb.st = "idle" => tx.bit = 0
  BY DEF BoardInv, Lines, Rising, Falling, Clk
<1>3. /\ c1 \in BOOLEAN /\ c2 \in BOOLEAN /\ c3 \in BOOLEAN /\ oe \in BOOLEAN /\ Clk \in BOOLEAN
      /\ tx.state \in Tx_state
  BY LevelsTyped DEF BoardInv
<1>4. /\ tx'.clk_oe = Clk_oe
      /\ tx.state = "TX_IDLE" => tx'.state \in {"TX_WAIT_IDLE", "TX_IDLE"}
      /\ tx.state = "TX_WAIT_IDLE" =>
           tx'.state \in {"TX_WAIT_IDLE", "TX_IDLE"} \/ (tx'.state = "TX_PULL_CLK" /\ c2)
      /\ tx.state = "TX_PULL_CLK" =>
           tx'.state = "TX_PULL_CLK" \/ (tx'.state = "TX_PULL_DAT" /\ tx'.timer = 0)
      /\ tx.state = "TX_PULL_DAT" =>
           \/ /\ tx.timer # DATA_SETUP_TICKS_C
              /\ tx'.state = "TX_PULL_DAT" /\ tx'.timer = Count(tx.timer)
           \/ tx.timer = DATA_SETUP_TICKS_C /\ tx'.state = "TX_SEND" /\ tx'.bit = 0
      /\ tx.state = "TX_SEND" =>
           \/ c3 /\ ~c2 /\ tx.bit = STOP /\ tx'.state = "TX_WAIT_RESP"
           \/ c3 /\ ~c2 /\ tx.bit # STOP /\ tx'.state = "TX_SEND" /\ tx'.bit = tx.bit + 1
           \/ ~(c3 /\ ~c2) /\ expired /\ tx'.state = "TX_IDLE"
           \/ ~(c3 /\ ~c2) /\ ~expired /\ tx'.state = "TX_SEND" /\ tx'.bit = tx.bit
      /\ tx.state = "TX_WAIT_RESP" => tx'.state \in {"TX_IDLE", "TX_WAIT_RESP"}
  BY <1>1 DEF TxMove, Waited, Idle_line, Sync_clk_level, Sync_clk_fall
<1>5. /\ Clk_oe <=> tx.state \in {"TX_PULL_CLK", "TX_PULL_DAT"}
      /\ Clk' <=> tx.state \notin {"TX_PULL_CLK", "TX_PULL_DAT"} /\ ~kb.low
  BY <1>1 DEF Clk_oe
<1> HIDE DEF c1, c2, c3, oe
<1>6. Clk' => (c2 => c1) /\ (c1 => Clk)
  BY <1>2, <1>3, <1>5 DEF Tx_state
<1>7. ~Clk' => (Clk => c1) /\ (c1 => c2)
  BY <1>2, <1>3, <1>5 DEF Tx_state
<1>8. tx'.state = "TX_PULL_CLK" /\ Clk' => c2
  BY <1>2, <1>3, <1>4, <1>5 DEF Tx_state
<1>9. tx'.state = "TX_PULL_DAT" => /\ tx'.clk_oe /\ tx'.timer <= DATA_SETUP_TICKS_C
                                   /\ tx'.timer >= 1 => ~Clk
                                   /\ tx'.timer >= 2 => ~c1
  <2> SUFFICES ASSUME tx'.state = "TX_PULL_DAT"
               PROVE  /\ tx'.clk_oe /\ tx'.timer <= DATA_SETUP_TICKS_C
                      /\ tx'.timer >= 1 => ~Clk
                      /\ tx'.timer >= 2 => ~c1
    OBVIOUS
  <2>1. DATA_SETUP_TICKS_C \in Nat /\ DATA_SETUP_TICKS_C < TIMER_MOD /\ TIMER_MOD \in Nat
    BY Ps2Assumption
  <2>2. CASE tx.state = "TX_PULL_CLK"
    BY <1>4, <1>5, <2>1, <2>2
  <2>3. CASE tx.state = "TX_PULL_DAT"
    <3>1. tx.timer \in 0 .. TIMER_MOD - 1
      BY LevelsTyped DEF BoardInv
    <3>2. tx'.timer = tx.timer + 1
      BY <1>2, <1>4, <2>1, <2>3, <3>1, ModIs
    <3> QED
      BY <1>2, <1>4, <1>5, <2>1, <2>3, <3>1, <3>2
  <2> QED
    BY <1>3, <1>4, <2>2, <2>3 DEF Tx_state
<1>10. tx'.clk_oe => tx'.state \in {"TX_PULL_CLK", "TX_PULL_DAT", "TX_SEND"}
  BY <1>4, <1>5
<1>11. tx'.state = "TX_SEND" /\ tx'.clk_oe => ~c2
  BY <1>2, <1>3, <1>4, <1>5, SetupSettles DEF SetupSettles, Tx_state
<1>12. tx'.dat_oe => tx'.state \in {"TX_PULL_DAT", "TX_SEND"} \/ ~kb.alive
  <2>1. tx'.dat_oe => tx.state = "TX_PULL_DAT" \/ (tx.state = "TX_SEND" /\ tx.bit # STOP)
    <3>1. tx'.dat_oe <=> Dat_oe
      BY <1>1 DEF TxMove
    <3>2. Tx_frame_bit(tx.data, STOP)
      BY Sizes DEF Tx_frame_bit
    <3> QED
      BY <3>1, <3>2 DEF Dat_oe
  <2>2. expired => ~kb.alive
    BY DEF Edged
  <2> QED
    BY <1>4, <2>1, <2>2
<1>13. tx'.state = "TX_SEND" /\ kb.st = "idle" => tx'.bit = 0
  <2>1. kb.st = "idle" => ~kb.low
    BY DEF BoardInv, KbType
  <2> QED
    BY <1>2, <1>3, <1>4, <2>1 DEF Tx_state
<1> QED
  BY <1>1, <1>6, <1>7, <1>8, <1>9, <1>10, <1>11, <1>12, <1>13 DEF Lines, Rising, Falling

\* A fall seen on the clock line is there: the line is held low.
LEMMA FallIsLow ==
  ASSUME BoardInv, Sync_clk_fall
  PROVE  tx.clk_oe \/ kb.low
BY DEF BoardInv, Lines, Rising, Sync_clk_fall, Clk

LEMMA EnabledIs ==
  ASSUME BoardInv
  PROVE  /\ Rx_enable <=> tx.state \in {"TX_IDLE", "TX_WAIT_IDLE", "TX_WAIT_RESP"}
         /\ Rx_enable => ~tx.clk_oe /\ ~Clk_oe
BY DEF BoardInv, Lines, Rx_enable, Clk_oe

\* The receiver with nothing to see.
LEMMA RxRests ==
  ASSUME P_receiver, RxReset, Rx_enable => ~Sync_clk_fall
  PROVE  RxReset'
<1>1. ~Received
  BY Sizes DEF RxReset, Received
<1>2. CASE ~Rx_enable
  BY <1>2 DEF P_receiver, RxReset
<1>3. CASE Rx_enable
  <2>1. rx_valid' = FALSE /\ UNCHANGED <<rx_state, bit_cnt, shift_reg>>
    BY <1>1, <1>3 DEF P_receiver
  <2> QED
    BY <2>1 DEF RxReset
<1> QED
  BY <1>2, <1>3

LEMMA RxStillEdge ==
  ASSUME BoardInv, NEW expired \in BOOLEAN, NEW acc, Access(acc), Edged(acc, expired)
  PROVE  RxStill'
<1>1. TxMove(acc, expired) /\ P_receiver /\ kb' = kb
  BY EdgeMoves DEF BoardInv
<1>2. CASE ~Rx_enable
  BY <1>1, <1>2 DEF P_receiver, RxStill, RxReset
<1>3. CASE Rx_enable
  <2>1. tx.state \in {"TX_IDLE", "TX_WAIT_IDLE", "TX_WAIT_RESP"} /\ ~tx.clk_oe /\ ~Clk_oe
    BY <1>3, EnabledIs
  <2>2. ~tx'.clk_oe /\ tx'.state \notin {"TX_PULL_DAT", "TX_SEND"}
    BY <1>1, <2>1 DEF TxMove
  <2>3. kb.st # "send" => RxReset'
    <3> SUFFICES ASSUME kb.st # "send" PROVE RxReset'
      OBVIOUS
    <3>1. RxReset
      BY DEF BoardInv, RxStill
    <3>2. ~Sync_clk_fall
      <4> SUFFICES ASSUME Sync_clk_fall PROVE FALSE
        OBVIOUS
      <4>1. kb.low
        BY <2>1, FallIsLow
      <4>2. kb.st = "receive"
        BY <4>1 DEF BoardInv, KbType, KbRec
      <4>3. clk_buf[3]
        BY DEF Sync_clk_fall
      <4> QED
        BY <2>1, <4>1, <4>2, <4>3 DEF BoardInv, ReceiveCmd
    <3> QED
      BY <1>1, <3>1, <3>2, RxRests
  <2> QED
    BY <1>1, <2>2, <2>3 DEF RxStill
<1> QED
  BY <1>2, <1>3

LEMMA SameBit == ASSUME NEW a \in BOOLEAN, NEW b \in BOOLEAN, a <=> b PROVE a = b
OBVIOUS

\* The data line while the keyboard sends, and while it does not.
LEMMA DatIs ==
  ASSUME CtrlType, KbType
  PROVE  /\ kb.st = "send" /\ ~tx.dat_oe => Dat = BitsOf(kb.byte)[kb.bit]
         /\ kb.st = "idle" => (Dat <=> ~tx.dat_oe)
         /\ kb.st = "receive" /\ kb.low /\ kb.bit <= STOP => (Dat <=> ~tx.dat_oe)
<1>1. ASSUME kb.st = "send", ~tx.dat_oe
      PROVE  Dat = BitsOf(kb.byte)[kb.bit]
  <2> DEFINE b == kb.byte
             k == kb.bit
  <2>1. b \in Byte /\ k \in 0 .. STOP
    BY <1>1, Sizes DEF KbType, KbRec
  <2>2. Dat <=> ~(k = 0 \/ ~FrameOf(b)[k])
    BY <1>1 DEF Dat, KbDatLow
  <2> HIDE DEF b, k
  <2>3. BitsOf(b)[k] \in BOOLEAN /\ ~BitsOf(b)[0] /\ \A i \in 1 .. STOP : FrameOf(b)[i] = BitsOf(b)[i]
    BY <2>1, BitsAre, FrameIs
  <2>4. Dat <=> BitsOf(b)[k]
    BY <2>1, <2>2, <2>3, Sizes
  <2>5. Dat \in BOOLEAN
    BY LevelsTyped
  <2>6. Dat = BitsOf(b)[k]
    BY <2>3, <2>4, <2>5, SameBit
  <2> QED
    BY <2>6 DEF b, k
<1>2. kb.st = "idle" => (Dat <=> ~tx.dat_oe)
  BY DEF Dat, KbDatLow
<1>3. kb.st = "receive" /\ kb.low /\ kb.bit <= STOP => (Dat <=> ~tx.dat_oe)
  BY Sizes DEF Dat, KbDatLow, KbType, KbRec
<1> QED
  BY <1>1, <1>2, <1>3

\* What the receiver may hold while the keyboard sends.
LEMMA SendingIs ==
  ASSUME BoardInv, kb.st = "send", Rx_enable
  PROVE  /\ Listening /\ ~tx.clk_oe /\ (Clk <=> ~kb.low)
         /\ kb.byte \in Byte /\ kb.bit \in 0 .. STOP /\ kb.low \in BOOLEAN
         /\ Received => kb.low /\ ~clk_buf[3] /\ kb.bit = STOP
         /\ Sync_clk_fall => kb.low /\ clk_buf[3] /\ ~Received
         /\ ~kb.low => Seen(kb.bit)
<1>1. Listening /\ ~tx.clk_oe
  BY EnabledIs DEF Listening
<1>2. Clk <=> ~kb.low
  BY <1>1 DEF Clk
<1>3. kb.byte \in Byte /\ kb.bit \in 0 .. STOP /\ kb.low \in BOOLEAN
  BY Sizes DEF BoardInv, KbType, KbRec
<1>4. /\ ~kb.low => Seen(kb.bit)
      /\ kb.low /\ clk_buf[3] => Seen(kb.bit)
      /\ kb.low /\ ~clk_buf[3] /\ kb.bit < STOP => Seen(kb.bit + 1)
  BY <1>1 DEF BoardInv, SendFrame
<1>5. \A k \in 0 .. STOP : Seen(k) => ~Received
  BY Sizes DEF Seen, RxReset, Received
<1>6. Received => kb.low /\ ~clk_buf[3] /\ kb.bit = STOP
  <2> SUFFICES ASSUME Received PROVE kb.low /\ ~clk_buf[3] /\ kb.bit = STOP
    OBVIOUS
  <2>1. kb.low /\ ~clk_buf[3]
    BY <1>3, <1>4, <1>5
  <2>2. kb.bit < STOP => kb.bit + 1 \in 0 .. STOP
    BY <1>3, Sizes
  <2> QED
    BY <1>3, <1>4, <1>5, <2>1, <2>2, Sizes
<1>7. Sync_clk_fall => kb.low /\ clk_buf[3]
  BY <1>1, FallIsLow DEF Sync_clk_fall
<1> QED
  BY <1>1, <1>2, <1>3, <1>4, <1>6, <1>7

\* The receiver takes in bit kb.bit of the frame.
LEMMA BitTaken ==
  ASSUME BoardInv, kb.st = "send", Rx_enable, Sync_clk_fall, P_receiver, kb' = kb
  PROVE  /\ rx_valid' = FALSE
         /\ kb.bit < STOP => Seen(kb.bit + 1)'
         /\ kb.bit = STOP => rx_state' = "IDLE" /\ bit_cnt' = DATA_BITS + 1
         /\ \A i \in 1 .. Len(shift_reg') : shift_reg'[i] = BitsOf(kb.byte)[i]
<1> DEFINE k == kb.bit
           f == BitsOf(kb.byte)
<1>1. /\ kb.low /\ clk_buf[3] /\ ~Received /\ Listening
      /\ k \in 0 .. STOP /\ kb.byte \in Byte
  BY SendingIs
<1>2. /\ Seen(k) /\ dat_buf[2] = f[k]
      /\ \A i \in 1 .. Len(shift_reg) : shift_reg[i] = f[i]
  BY <1>1 DEF BoardInv, SendFrame
<1>3. f[k] \in BOOLEAN /\ ~f[0]
  BY <1>1, BitsAre
<1>4. rx_valid' = FALSE
  BY <1>1 DEF P_receiver
<1> HIDE DEF f
<1>5. CASE k = 0
  <2>1. rx_state = "IDLE" /\ ~Sync_dat
    BY <1>2, <1>3, <1>5 DEF Seen, RxReset, Sync_dat
  <2>2. rx_state' = "RECEIVING" /\ bit_cnt' = 0 /\ shift_reg' = << >>
    BY <1>1, <2>1 DEF P_receiver
  <2>3. Seen(kb.bit + 1)'
    BY <1>5, <2>2 DEF Seen
  <2>4. kb.bit # STOP
    BY <1>5, Sizes
  <2>5. \A i \in 1 .. Len(shift_reg') : shift_reg'[i] = f[i]
    BY <2>2, EmptyIs
  <2> QED
    BY <1>4, <2>3, <2>4, <2>5 DEF f
<1>6. CASE k # 0
  <2>1. rx_state = "RECEIVING" /\ bit_cnt = k - 1 /\ k \in 1 .. STOP
    BY <1>1, <1>2, <1>6, Sizes DEF Seen
  <2>2. Rx_shift
    BY <1>1, <2>1 DEF P_receiver
  <2>3. shift_reg \in Seq(BOOLEAN) /\ Len(shift_reg) = k - 1
    BY <2>1 DEF BoardInv, CtrlType, RxShape
  <2>4. shift_reg' = Append(shift_reg, f[k])
    BY <1>2, <2>2 DEF Rx_shift, Sync_dat
  <2>5. /\ Len(shift_reg') = (k - 1) + 1
        /\ \A i \in 1 .. k - 1 : shift_reg'[i] = shift_reg[i]
        /\ shift_reg'[(k - 1) + 1] = f[k]
    BY <1>3, <2>3, <2>4, Appended
  <2>6. \A i \in 1 .. Len(shift_reg') : shift_reg'[i] = f[i]
    <3> SUFFICES ASSUME NEW i \in 1 .. Len(shift_reg') PROVE shift_reg'[i] = f[i]
      OBVIOUS
    <3>1. k \in Nat /\ (k - 1) + 1 = k /\ i \in 1 .. k
      BY <2>1, <2>5, Sizes
    <3>2. CASE i = k
      BY <2>5, <3>1, <3>2
    <3>3. CASE i # k
      <4>1. i \in 1 .. k - 1
        BY <3>1, <3>3
      <4> QED
        BY <1>2, <2>3, <2>5, <4>1
    <3> QED
      BY <3>2, <3>3
  <2>7. /\ k = STOP => rx_state' = "IDLE" /\ bit_cnt' = DATA_BITS + 1
        /\ k < STOP => rx_state' = "RECEIVING" /\ bit_cnt' = (k + 1) - 1 /\ k + 1 # 0
    BY <2>1, <2>2, Sizes DEF Rx_shift
  <2>8. kb.bit < STOP => Seen(kb.bit + 1)'
    BY <2>7 DEF Seen
  <2> QED
    BY <1>4, <2>6, <2>7, <2>8 DEF f
<1> QED
  BY <1>5, <1>6

\* A frame that has come in is the keyboard's byte.
LEMMA FrameTaken ==
  ASSUME BoardInv, kb.st = "send", Rx_enable, Received, P_receiver
  PROVE  /\ rx_valid' = TRUE /\ rx_scan_code' = kb.byte
         /\ rx_state' = "IDLE" /\ bit_cnt' = 0 /\ shift_reg' = << >>
<1>1. /\ kb.byte \in Byte /\ Listening /\ ~Sync_clk_fall
  BY SendingIs
<1>2. shift_reg \in Seq(BOOLEAN) /\ Len(shift_reg) = STOP
  BY DEF BoardInv, CtrlType, RxShape
<1>3. \A i \in 1 .. Len(shift_reg) : shift_reg[i] = BitsOf(kb.byte)[i]
  BY <1>1 DEF BoardInv, SendFrame
<1>4. Good(shift_reg) /\ SubSeq(shift_reg, 1, DATA_BITS) = kb.byte
  BY <1>1, <1>2, <1>3, GoodFrame
<1>5. /\ rx_valid' = Good(shift_reg)
      /\ rx_scan_code' = IF rx_valid' THEN SubSeq(shift_reg, 1, DATA_BITS) ELSE rx_scan_code
      /\ rx_state' = rx_state /\ bit_cnt' = 0 /\ shift_reg' = << >>
  BY <1>1 DEF P_receiver
<1>6. rx_valid' = TRUE
  BY <1>4, <1>5, Zenon
<1> QED
  BY <1>4, <1>5, <1>6 DEF Received

LEMMA SendFrameEdge ==
  ASSUME BoardInv, NEW expired \in BOOLEAN, NEW acc, Access(acc), Edged(acc, expired)
  PROVE  SendFrame'
<1>1. /\ TxMove(acc, expired) /\ P_receiver /\ kb' = kb
      /\ clk_buf'[1] = Clk /\ clk_buf'[2] = clk_buf[1] /\ clk_buf'[3] = clk_buf[2]
      /\ dat_buf'[1] = Dat /\ dat_buf'[2] = dat_buf[1]
  BY EdgeMoves DEF BoardInv
<1> SUFFICES ASSUME kb.st = "send" PROVE SendFrame'
  BY <1>1 DEF SendFrame
<1>2. ~tx.dat_oe /\ tx.state # "TX_SEND" /\ tx.state # "TX_PULL_DAT" /\ tx.state \in Tx_state
  BY LevelsTyped DEF BoardInv, SendFrame, Edged, MustMove
<1>3. ~tx'.dat_oe /\ tx'.state # "TX_SEND"
  BY <1>1, <1>2 DEF TxMove, Dat_oe, Tx_state
<1>4. CASE ~Rx_enable
  <2>1. ~rx_valid'
    BY <1>1, <1>4 DEF P_receiver
  <2>2. tx.state = "TX_PULL_CLK"
    BY <1>2, <1>4 DEF Rx_enable, Tx_state
  <2>3. tx'.clk_oe /\ tx'.state \in {"TX_PULL_CLK", "TX_PULL_DAT"}
    BY <1>1, <2>2 DEF TxMove, Clk_oe
  <2>4. ~Listening'
    BY <2>3 DEF Listening, Rx_enable
  <2> QED
    BY <1>1, <1>3, <2>1, <2>4 DEF SendFrame
<1>5. CASE Rx_enable
  <2>1. /\ Listening /\ ~tx.clk_oe /\ (Clk <=> ~kb.low)
        /\ kb.byte \in Byte /\ kb.bit \in 0 .. STOP /\ kb.low \in BOOLEAN
        /\ Received => kb.low /\ ~clk_buf[3] /\ kb.bit = STOP
        /\ Sync_clk_fall => kb.low /\ clk_buf[3] /\ ~Received
    BY <1>5, SendingIs
  <2> DEFINE k == kb.bit
             f == BitsOf(kb.byte)
  <2>2. /\ \A i \in 1 .. Len(shift_reg) : shift_reg[i] = f[i]
        /\ ~kb.low => Seen(k)
        /\ kb.low /\ clk_buf[3] => Seen(k)
        /\ kb.low /\ ~clk_buf[3] /\ k < STOP => Seen(k + 1)
        /\ kb.low /\ ~clk_buf[3] /\ k = STOP => rx_state = "IDLE"
        /\ kb.low => dat_buf[1] = f[k] /\ dat_buf[2] = f[k]
    BY <2>1 DEF BoardInv, SendFrame
  <2>3. Dat = f[k]
    BY <1>2, DatIs DEF BoardInv
  <2>4. kb.low => (clk_buf[2] => clk_buf[3])
    BY <2>1 DEF BoardInv, Lines, Falling
  <2>5. /\ \A i \in 1 .. Len(shift_reg') : shift_reg'[i] = f[i]
        /\ ~kb.low => Seen(kb.bit)'
        /\ kb.low /\ clk_buf[2] => Seen(kb.bit)'
        /\ kb.low /\ ~clk_buf[2] /\ k < STOP => Seen(kb.bit + 1)'
        /\ kb.low /\ ~clk_buf[2] /\ k = STOP => rx_state' = "IDLE"
        /\ rx_valid' => kb.low /\ ~clk_buf[2] /\ kb.bit = STOP /\ rx_scan_code' = kb.byte
    <3>1. CASE Sync_clk_fall
      <4>1. kb.low /\ clk_buf[3] /\ ~clk_buf[2]
        BY <2>1, <3>1 DEF Sync_clk_fall
      <4> QED
        BY <1>1, <1>5, <3>1, <4>1, BitTaken
    <3>2. CASE Received
      <4>1. kb.low /\ ~clk_buf[2] /\ k = STOP
        BY <2>1, <2>4, <3>2
      <4>2. /\ rx_scan_code' = kb.byte /\ rx_state' = "IDLE" /\ shift_reg' = << >>
        BY <1>1, <1>5, <3>2, FrameTaken
      <4>3. ~(k < STOP)
        BY <4>1, Sizes
      <4> QED
        BY <4>1, <4>2, <4>3, EmptyIs
    <3>3. CASE ~Sync_clk_fall /\ ~Received
      <4>1. rx_valid' = FALSE /\ UNCHANGED <<rx_state, bit_cnt, shift_reg>>
        BY <1>1, <1>5, <3>3 DEF P_receiver
      <4>2. Seen(kb.bit) => Seen(kb.bit)'
        BY <1>1, <4>1 DEF Seen, RxReset
      <4>3. Seen(kb.bit + 1) => Seen(kb.bit + 1)'
        BY <1>1, <4>1 DEF Seen, RxReset
      <4>4. kb.low => (clk_buf[3] <=> clk_buf[2])
        BY <2>4, <3>3 DEF Sync_clk_fall
      <4> QED
        BY <2>2, <4>1, <4>2, <4>3, <4>4
    <3> QED
      BY <3>1, <3>2, <3>3
  <2>6. kb.low => dat_buf'[1] = f[k] /\ dat_buf'[2] = f[k]
    BY <1>1, <2>2, <2>3
  <2> QED
    BY <1>1, <1>3, <2>5, <2>6 DEF SendFrame
<1> QED
  BY <1>4, <1>5

LEMMA ReceiveCmdEdge ==
  ASSUME BoardInv, NEW expired \in BOOLEAN, NEW acc, Access(acc), Edged(acc, expired)
  PROVE  ReceiveCmd'
<1>1. /\ TxMove(acc, expired) /\ kb' = kb /\ clk_buf'[3] = clk_buf[2]
  BY EdgeMoves DEF BoardInv
<1> SUFFICES ASSUME kb.st = "receive" PROVE ReceiveCmd'
  BY <1>1 DEF ReceiveCmd
<1> DEFINE c2 == clk_buf[2]
           c3 == clk_buf[3]
           k  == kb.bit
           n  == Len(kb.got)
<1>2. /\ tx.state \in {"TX_SEND", "TX_WAIT_RESP"} /\ ~tx.clk_oe
      /\ n = IF kb.low THEN k - 1 ELSE k
      /\ \A i \in 1 .. n : kb.got[i] = BitsOf(tx.data)[i]
      /\ ~kb.low => tx.state = "TX_SEND" /\ tx.bit = k /\ k <= STOP
      /\ kb.low => k >= 1
      /\ kb.low /\ c3 => tx.state = "TX_SEND" /\ tx.bit = k - 1
      /\ kb.low /\ ~c3 /\ k <= STOP => tx.state = "TX_SEND" /\ tx.bit = k
      /\ kb.low /\ ~c3 /\ k > STOP => tx.state = "TX_WAIT_RESP"
  BY DEF BoardInv, ReceiveCmd
<1>3. /\ kb.low => (c2 => c3)
      /\ c3 /\ ~c2 => kb.low
  <2>1. Clk <=> ~kb.low
    BY <1>2 DEF Clk
  <2> QED
    BY <1>2, <2>1, FallIsLow DEF BoardInv, Lines, Falling, Sync_clk_fall
<1>4. ~expired /\ ~rx_valid
  BY DEF BoardInv, KbType, Edged, RxStill, RxReset
<1>5. kb.low \in BOOLEAN /\ k \in 0 .. STOP + 1 /\ tx.bit \in 0 .. STOP
  BY LevelsTyped DEF BoardInv, KbType, KbRec
<1>6. /\ tx'.clk_oe = FALSE /\ tx'.data = tx.data
      /\ tx.state = "TX_SEND" =>
           \/ c3 /\ ~c2 /\ tx.bit = STOP /\ tx'.state = "TX_WAIT_RESP"
           \/ c3 /\ ~c2 /\ tx.bit # STOP /\ tx'.state = "TX_SEND" /\ tx'.bit = tx.bit + 1
           \/ ~(c3 /\ ~c2) /\ tx'.state = "TX_SEND" /\ tx'.bit = tx.bit
      /\ tx.state = "TX_WAIT_RESP" => tx'.state = "TX_WAIT_RESP"
  BY <1>1, <1>2, <1>4 DEF TxMove, Clk_oe, Sync_clk_fall
<1> HIDE DEF c2, c3, k, n
<1>7. /\ tx'.state \in {"TX_SEND", "TX_WAIT_RESP"}
      /\ ~kb.low => tx'.state = "TX_SEND" /\ tx'.bit = k
      /\ kb.low /\ c2 => tx'.state = "TX_SEND" /\ tx'.bit = k - 1
      /\ kb.low /\ ~c2 /\ k <= STOP => tx'.state = "TX_SEND" /\ tx'.bit = k
      /\ kb.low /\ ~c2 /\ k > STOP => tx'.state = "TX_WAIT_RESP"
  BY <1>2, <1>3, <1>5, <1>6, Sizes
<1> QED
  BY <1>1, <1>2, <1>6, <1>7 DEF ReceiveCmd, c2, c3, k, n

LEMMA ReplyEdge ==
  ASSUME BoardInv, NEW expired \in BOOLEAN, NEW acc, Access(acc), Edged(acc, expired)
  PROVE  Reply'
<1>1. /\ TxMove(acc, expired) /\ P_receiver /\ kb' = kb /\ clk_buf'[3] = clk_buf[2]
      /\ expired => ~kb.alive
  BY EdgeMoves DEF BoardInv, Edged
<1>2. tx.state \in Tx_state /\ kb \in KbRec
  BY LevelsTyped DEF BoardInv, KbType
<1>3. ASSUME tx'.state = "TX_WAIT_RESP"
      PROVE  Answers'
  <2>1. \/ tx.state = "TX_SEND" /\ Sync_clk_fall /\ tx.bit = STOP
        \/ tx.state = "TX_WAIT_RESP" /\ ~rx_valid
    BY <1>1, <1>2, <1>3 DEF TxMove, Tx_state
  <2>2. tx'.data = tx.data
    BY <1>1, <2>1 DEF TxMove
  <2>3. CASE tx.state = "TX_SEND" /\ Sync_clk_fall /\ tx.bit = STOP
    <3>1. kb.st # "idle"
      BY <2>3, Sizes DEF BoardInv, Lines
    <3>2. kb.st # "send"
      BY <2>3 DEF BoardInv, SendFrame
    <3>3. kb.st = "receive"
      BY <1>2, <3>1, <3>2 DEF KbRec
    <3>4. kb.low /\ clk_buf[3]
      BY <2>3, <3>3, FallIsLow DEF BoardInv, ReceiveCmd, Sync_clk_fall
    <3>5. kb.bit - 1 = STOP /\ kb.bit \in 0 .. STOP + 1
      BY <1>2, <2>3, <3>3, <3>4 DEF BoardInv, ReceiveCmd, KbRec
    <3>6. kb.bit = STOP + 1
      BY <3>5, Sizes
    <3> QED
      BY <1>1, <3>3, <3>6 DEF Answers
  <2>4. CASE tx.state = "TX_WAIT_RESP" /\ ~rx_valid
    <3>1. Answers
      BY <2>4 DEF BoardInv, Reply
    <3>2. ASSUME kb.st = "send", kb.low, kb.bit = STOP, ~clk_buf[2],
                 ~clk_buf[3] => Received \/ rx_valid
          PROVE  Received' \/ rx_valid'
      <4>1. Rx_enable
        BY <2>4 DEF Rx_enable
      <4>2. CASE clk_buf[3]
        <5>1. Sync_clk_fall
          BY <3>2, <4>2 DEF Sync_clk_fall
        <5>2. rx_state' = "IDLE" /\ bit_cnt' = DATA_BITS + 1
          BY <1>1, <3>2, <4>1, <5>1, BitTaken
        <5> QED
          BY <5>2 DEF Received
      <4>3. CASE ~clk_buf[3]
        BY <1>1, <2>4, <3>2, <4>1, <4>3, FrameTaken
      <4> QED
        BY <4>2, <4>3
    <3> QED
      BY <1>1, <2>2, <3>1, <3>2 DEF Answers
  <2> QED
    BY <2>1, <2>3, <2>4
<1>4. ASSUME tx'.resp_valid
      PROVE  tx'.state = "TX_IDLE" /\ kb.last = <<tx'.data, tx'.resp>>
  <2>1. CASE tx.state = "TX_WAIT_RESP" /\ rx_valid
    <3>1. tx'.state = "TX_IDLE" /\ tx'.resp = rx_scan_code /\ tx'.data = tx.data
      BY <1>1, <2>1 DEF TxMove
    <3>2. kb.st = "send"
      BY <2>1 DEF BoardInv, RxStill, RxReset
    <3>3. rx_scan_code = kb.byte
      BY <2>1, <3>2 DEF BoardInv, SendFrame
    <3>4. kb.alive
      BY <3>2 DEF BoardInv, KbType
    <3>5. kb.last = <<tx.data, kb.byte>>
      BY <2>1, <3>2, <3>4 DEF BoardInv, Reply, Answers
    <3> QED
      BY <3>1, <3>3, <3>5
  <2>2. CASE tx.resp_valid /\ tx'.resp = tx.resp /\ tx'.data = tx.data
    <3>1. tx.state = "TX_IDLE" /\ kb.last = <<tx.data, tx.resp>>
      BY <2>2 DEF BoardInv, Reply
    <3>2. tx'.state = "TX_IDLE"
      BY <1>1, <1>4, <3>1 DEF TxMove
    <3> QED
      BY <2>2, <3>1, <3>2
  <2> QED
    BY <1>1, <1>4, <2>1, <2>2 DEF TxMove
<1> QED
  BY <1>1, <1>3, <1>4 DEF Reply

LEMMA BoardEdge ==
  ASSUME SetupSettles, BoardInv, NEW expired \in BOOLEAN, NEW acc, Access(acc), Edged(acc, expired)
  PROVE  BoardInv'
<1>1. CtrlType' /\ kb' = kb
  BY EdgeMoves DEF BoardInv
<1>2. KbType'
  BY <1>1 DEF BoardInv, KbType, KbRec
<1> QED
  BY <1>1, <1>2, LinesEdge, RxStillEdge, SendFrameEdge, ReceiveCmdEdge, ReplyEdge DEF BoardInv

-----------------------------------------------------------------------------
(***************************************************************************)
(* The keyboard's moves.                                                   *)
(***************************************************************************)

\* What a move of the keyboard leaves alone.
LEMMA MoveKeeps ==
  ASSUME CtrlType, UNCHANGED ctrlVars
  PROVE  /\ CtrlType'
         /\ clk_buf' = clk_buf /\ dat_buf' = dat_buf /\ rx_valid' = rx_valid
         /\ rx_state' = rx_state /\ bit_cnt' = bit_cnt /\ shift_reg' = shift_reg
         /\ rx_scan_code' = rx_scan_code /\ tx' = tx
         /\ Rx_enable' = Rx_enable /\ Listening' = Listening /\ Received' = Received
         /\ RxReset' = RxReset
BY DEF ctrlVars, rxVars, fifoVars, CtrlType, SyncType, RxType, RxShape, FifoType, Received,
   Rx_enable, Listening, RxReset, Byte, TxRec

LEMMA QuietIs ==
  ASSUME CtrlType, Quiet
  PROVE  /\ clk_buf[1] = Clk /\ clk_buf[2] = Clk /\ clk_buf[3] = Clk
         /\ dat_buf[1] = Dat /\ dat_buf[2] = Dat
         /\ tx.clk_oe = Clk_oe /\ tx.dat_oe = Dat_oe /\ ~Received /\ ~rx_valid
<1>1. Clk \in BOOLEAN /\ Dat \in BOOLEAN
  BY LevelsTyped
<1>2. /\ clk_buf = <<Clk, Clk, Clk>> /\ dat_buf = <<Dat, Dat>>
      /\ tx.clk_oe = Clk_oe /\ tx.dat_oe = Dat_oe /\ ~Received /\ ~rx_valid
  BY DEF Quiet
<1> QED
  BY <1>1, <1>2, TwoBits, ThreeBits

\* The keyboard does what the host does not see.
LEMMA BoardUnseen ==
  ASSUME BoardInv, UNCHANGED ctrlVars, kb' \in KbRec, kb'.st = kb.st, kb'.bit = kb.bit,
         kb'.low = kb.low, kb'.got = kb.got, kb'.byte = kb.byte, kb'.reply = kb.reply,
         kb'.last = kb.last, kb'.alive = kb.alive
  PROVE  BoardInv'
<1>1. /\ CtrlType' /\ clk_buf' = clk_buf /\ dat_buf' = dat_buf /\ rx_valid' = rx_valid
      /\ rx_state' = rx_state /\ bit_cnt' = bit_cnt /\ shift_reg' = shift_reg
      /\ rx_scan_code' = rx_scan_code /\ tx' = tx
      /\ Rx_enable' = Rx_enable /\ Listening' = Listening /\ Received' = Received
      /\ RxReset' = RxReset
  BY MoveKeeps DEF BoardInv
<1>2. KbType'
  BY DEF BoardInv, KbType
<1>3. Lines'
  BY <1>1 DEF BoardInv, Lines, Rising, Falling, Clk
<1>4. RxStill'
  BY <1>1 DEF BoardInv, RxStill
<1>5. SendFrame'
  BY <1>1 DEF BoardInv, SendFrame, Seen
<1>6. ReceiveCmd'
  BY <1>1 DEF BoardInv, ReceiveCmd
<1>7. Reply'
  BY <1>1 DEF BoardInv, Reply, Answers
<1> QED
  BY <1>1, <1>2, <1>3, <1>4, <1>5, <1>6, <1>7 DEF BoardInv

LEMMA PressStep == BoardInv /\ KbPress => BoardInv'
<1> SUFFICES ASSUME BoardInv, KbPress PROVE BoardInv'
  OBVIOUS
<1> DEFINE p == kb.presses + 1
           n == kb.keys + 1
<1>1. kb' = [kb EXCEPT !.presses = p, !.keys = n] /\ UNCHANGED ctrlVars /\ kb \in KbRec
  BY DEF KbPress, Kb, BoardInv, KbType
<1>3. p \in Nat /\ n \in Int
  BY <1>1 DEF KbRec
<1> HIDE DEF p, n
<1>2. /\ kb' \in KbRec /\ kb'.st = kb.st /\ kb'.bit = kb.bit
      /\ kb'.low = kb.low /\ kb'.got = kb.got /\ kb'.byte = kb.byte /\ kb'.reply = kb.reply
      /\ kb'.last = kb.last /\ kb'.alive = kb.alive
  BY <1>1, <1>3 DEF KbRec
<1> QED
  BY <1>1, <1>2, BoardUnseen

LEMMA DieStep == BoardInv /\ KbDie => BoardInv'
<1> SUFFICES ASSUME BoardInv, KbDie PROVE BoardInv'
  OBVIOUS
<1>1. kb' = [kb EXCEPT !.alive = FALSE] /\ UNCHANGED ctrlVars /\ kb.st = "idle" /\ kb \in KbRec
  BY DEF KbDie, Kb, BoardInv, KbType
<1>2. /\ kb' \in KbRec /\ kb'.st = "idle" /\ kb'.low = kb.low /\ kb'.last = kb.last
      /\ kb'.alive = FALSE
  BY <1>1 DEF KbRec
<1>3. /\ CtrlType' /\ clk_buf' = clk_buf /\ tx' = tx /\ RxReset' = RxReset
  BY <1>1, MoveKeeps DEF BoardInv
<1>4. KbType'
  BY <1>1, <1>2 DEF BoardInv, KbType
<1>5. Lines'
  BY <1>1, <1>2, <1>3 DEF BoardInv, Lines, Rising, Falling, Clk
<1>6. RxStill' /\ SendFrame' /\ ReceiveCmd'
  BY <1>1, <1>2, <1>3 DEF BoardInv, RxStill, SendFrame, ReceiveCmd
<1>7. Reply'
  BY <1>2, <1>3 DEF BoardInv, Reply, Answers
<1> QED
  BY <1>3, <1>4, <1>5, <1>6, <1>7 DEF BoardInv

\* A keyboard at rest between two settled lines, and a transmitter that waits for
\* it: the data line is held.
LEMMA RestingLine ==
  ASSUME BoardInv, kb.st = "idle", Clk, Quiet
  PROVE  /\ clk_buf[3] /\ ~tx.clk_oe /\ tx.state \notin {"TX_PULL_CLK", "TX_PULL_DAT"}
         /\ tx.state = "TX_SEND" => tx.bit = 0 /\ ~Dat
<1>1. clk_buf[3] /\ ~tx.clk_oe /\ ~Clk_oe /\ tx.dat_oe = Dat_oe
  BY QuietIs DEF BoardInv, Clk
<1>2. tx.state \notin {"TX_PULL_CLK", "TX_PULL_DAT"}
  BY <1>1 DEF Clk_oe
<1>3. ASSUME tx.state = "TX_SEND"
      PROVE  tx.bit = 0 /\ ~Dat
  <2>1. tx.bit = 0
    BY <1>3 DEF BoardInv, Lines
  <2>2. ~Tx_frame_bit(tx.data, 0)
    BY Sizes DEF Tx_frame_bit
  <2>3. tx.dat_oe
    BY <1>1, <1>3, <2>1, <2>2 DEF Dat_oe
  <2> QED
    BY <2>1, <2>3 DEF Dat
<1> QED
  BY <1>1, <1>2, <1>3

LEMMA StartStep == BoardInv /\ KbStart => BoardInv'
<1> SUFFICES ASSUME BoardInv, KbStart PROVE BoardInv'
  OBVIOUS
<1>1. kb.alive /\ kb.st = "idle" /\ Clk /\ Dat /\ Quiet /\ UNCHANGED ctrlVars /\ kb \in KbRec
  BY DEF KbStart, Kb, BoardInv, KbType
<1> DEFINE b == IF kb.reply # NoByte THEN kb.reply ELSE SCAN_CAPS
<1>2. kb' = [kb EXCEPT !.st = "send", !.bit = 0, !.byte = b]
  BY DEF KbStart, Kb
<1>3. b \in Byte /\ (kb.reply # NoByte => b = kb.reply)
  BY <1>1, Ps2BoardAssumption DEF KbRec
<1> HIDE DEF b
<1>4. 0 \in 0 .. STOP + 1 /\ b \in Byte \cup {NoByte}
  BY <1>3, Sizes
<1>5. /\ kb' \in KbRec /\ kb'.st = "send" /\ kb'.bit = 0 /\ kb'.low = kb.low /\ kb'.byte = b
      /\ kb'.reply = kb.reply /\ kb'.last = kb.last /\ kb'.alive = kb.alive
  BY <1>1, <1>2, <1>4 DEF KbRec
<1>6. /\ CtrlType' /\ clk_buf' = clk_buf /\ dat_buf' = dat_buf /\ tx' = tx /\ RxReset' = RxReset
      /\ rx_valid' = rx_valid /\ shift_reg' = shift_reg
  BY <1>1, MoveKeeps DEF BoardInv
<1>7. /\ clk_buf[3] /\ ~tx.clk_oe /\ tx.state \notin {"TX_PULL_CLK", "TX_PULL_DAT", "TX_SEND"}
  BY <1>1, RestingLine
<1>8. RxReset /\ ~kb.low
  BY <1>1 DEF BoardInv, RxStill, KbType
<1>9. KbType'
  BY <1>1, <1>3, <1>5, <1>8, Sizes DEF KbType
<1>10. Lines'
  BY <1>5, <1>6, <1>7 DEF BoardInv, Lines, Rising, Falling, Clk
<1>11. RxStill'
  BY <1>6, <1>8 DEF RxStill
<1>12. SendFrame'
  <2>1. ~tx.dat_oe
    BY <1>1 DEF Dat
  <2>2. shift_reg = << >>
    BY <1>8, Sizes DEF BoardInv, CtrlType, RxShape, RxReset, Received
  <2>3. ~rx_valid /\ Seen(kb.bit)'
    BY <1>5, <1>6, <1>8 DEF Seen, RxReset
  <2> QED
    BY <1>5, <1>6, <1>7, <1>8, <2>1, <2>2, <2>3, EmptyIs DEF SendFrame
<1>13. ReceiveCmd'
  BY <1>5 DEF ReceiveCmd
<1>14. Reply'
  <2>1. ASSUME tx.state = "TX_WAIT_RESP"
        PROVE  kb.reply # NoByte /\ kb.last = <<tx.data, kb.reply>>
    BY <1>1, <2>1 DEF BoardInv, Reply, Answers
  <2>2. tx.state = "TX_WAIT_RESP" => Answers'
    BY <1>3, <1>5, <1>6, <1>8, <2>1 DEF Answers
  <2> QED
    BY <1>5, <1>6, <2>2 DEF BoardInv, Reply
<1> QED
  BY <1>6, <1>9, <1>10, <1>11, <1>12, <1>13, <1>14 DEF BoardInv

LEMMA AbortStep == BoardInv /\ KbAbort => BoardInv'
<1> SUFFICES ASSUME BoardInv, KbAbort PROVE BoardInv'
  OBVIOUS
<1>1. /\ kb.st = "send" /\ ~kb.low /\ tx.clk_oe /\ UNCHANGED ctrlVars /\ kb \in KbRec
      /\ kb' = [kb EXCEPT !.st = "idle", !.bit = 0, !.byte = NoByte]
  BY DEF KbAbort, Inhibited, Kb, BoardInv, KbType
<1>2. 0 \in 0 .. STOP + 1 /\ NoByte \in Byte \cup {NoByte}
  BY Sizes
<1>3. /\ kb' \in KbRec /\ kb'.st = "idle" /\ kb'.low = kb.low /\ kb'.last = kb.last
      /\ kb'.alive = kb.alive
  BY <1>1, <1>2 DEF KbRec
<1>4. CtrlType' /\ clk_buf' = clk_buf /\ tx' = tx /\ RxReset' = RxReset
  BY <1>1, MoveKeeps DEF BoardInv
<1>5. tx.state \notin {"TX_SEND", "TX_WAIT_RESP"}
  BY <1>1 DEF BoardInv, SendFrame, Lines
<1>6. KbType'
  BY <1>1, <1>3 DEF KbType
<1>7. Lines'
  BY <1>1, <1>3, <1>4, <1>5 DEF BoardInv, Lines, Rising, Falling, Clk
<1>8. RxStill' /\ SendFrame' /\ ReceiveCmd'
  BY <1>1, <1>3, <1>4 DEF BoardInv, RxStill, SendFrame, ReceiveCmd
<1>9. Reply'
  BY <1>3, <1>4, <1>5 DEF BoardInv, Reply
<1> QED
  BY <1>4, <1>6, <1>7, <1>8, <1>9 DEF BoardInv

LEMMA RequestStep == BoardInv /\ KbRequest => BoardInv'
<1> SUFFICES ASSUME BoardInv, KbRequest PROVE BoardInv'
  OBVIOUS
<1>1. /\ kb.alive /\ kb.st = "idle" /\ Clk /\ ~Dat /\ Quiet /\ UNCHANGED ctrlVars /\ kb \in KbRec
      /\ kb' = [kb EXCEPT !.st = "receive", !.bit = 0, !.got = << >>, !.reply = NoByte]
  BY DEF KbRequest, Kb, BoardInv, KbType
<1>2. 0 \in 0 .. STOP + 1 /\ NoByte \in Byte \cup {NoByte}
  BY Sizes
<1>3. /\ kb' \in KbRec /\ kb'.st = "receive" /\ kb'.bit = 0 /\ kb'.low = kb.low
      /\ kb'.got = << >> /\ kb'.last = kb.last /\ kb'.alive = kb.alive
  BY <1>1, <1>2, EmptyIs DEF KbRec
<1>4. CtrlType' /\ clk_buf' = clk_buf /\ tx' = tx /\ RxReset' = RxReset
  BY <1>1, MoveKeeps DEF BoardInv
<1>5. ~tx.clk_oe /\ ~kb.low
  BY <1>1, RestingLine DEF BoardInv, KbType
<1>6. tx.state = "TX_SEND" /\ tx.bit = 0
  <2>1. tx.dat_oe
    BY <1>1, DatIs DEF BoardInv
  <2>2. tx.state \in {"TX_PULL_DAT", "TX_SEND"}
    BY <1>1, <2>1 DEF BoardInv, Lines
  <2> QED
    BY <1>1, <2>2, RestingLine
<1>7. KbType'
  BY <1>1, <1>3 DEF KbType
<1>8. Lines'
  BY <1>3, <1>4, <1>5 DEF BoardInv, Lines, Rising, Falling, Clk
<1>9. RxStill' /\ SendFrame'
  BY <1>1, <1>3, <1>4 DEF BoardInv, RxStill, SendFrame
<1>10. ReceiveCmd'
  BY <1>3, <1>4, <1>5, <1>6, EmptyIs, Sizes DEF ReceiveCmd
<1>11. Reply'
  BY <1>3, <1>4, <1>6 DEF BoardInv, Reply
<1> QED
  BY <1>4, <1>7, <1>8, <1>9, <1>10, <1>11 DEF BoardInv

\* The keyboard pulls the clock line.
LEMMA FallStep == BoardInv /\ KbFall => BoardInv'
<1> SUFFICES ASSUME BoardInv, KbFall PROVE BoardInv'
  OBVIOUS
<1>1. ~kb.low /\ ~Inhibited /\ Quiet /\ UNCHANGED ctrlVars /\ kb \in KbRec /\ kb.st # "idle"
  BY DEF KbFall, Kb, BoardInv, KbType, KbRec
<1>2. /\ CtrlType' /\ clk_buf' = clk_buf /\ dat_buf' = dat_buf /\ rx_valid' = rx_valid
      /\ rx_state' = rx_state /\ bit_cnt' = bit_cnt /\ shift_reg' = shift_reg
      /\ rx_scan_code' = rx_scan_code /\ tx' = tx
      /\ Rx_enable' = Rx_enable /\ Listening' = Listening /\ Received' = Received
      /\ RxReset' = RxReset
  BY <1>1, MoveKeeps DEF BoardInv
<1>3. ~tx.clk_oe
  BY <1>1 DEF Inhibited, BoardInv, ReceiveCmd, KbRec
<1>4. /\ Clk /\ clk_buf[1] = TRUE /\ clk_buf[2] = TRUE /\ clk_buf[3] = TRUE
      /\ dat_buf[1] = Dat /\ dat_buf[2] = Dat /\ ~rx_valid
  BY <1>1, <1>3, QuietIs DEF Clk, BoardInv
<1>5. ASSUME kb' \in KbRec, kb'.low = TRUE, kb'.st = kb.st, kb'.alive = kb.alive
      PROVE  Lines' /\ RxStill'
  <2>1. ~Clk'
    BY <1>5 DEF Clk
  <2>2. Lines'
    BY <1>1, <1>2, <1>4, <1>5, <2>1 DEF BoardInv, Lines, Rising, Falling
  <2>3. RxStill'
    BY <1>2, <1>5 DEF BoardInv, RxStill
  <2> QED
    BY <2>2, <2>3
<1>6. CASE kb.st = "send"
  <2>1. /\ \/ kb.bit < STOP /\ kb' = [kb EXCEPT !.low = TRUE]
           \/ kb.bit = STOP /\ kb' = [Sent EXCEPT !.low = TRUE]
        /\ kb.bit \in 0 .. STOP /\ kb.byte \in Byte /\ kb.alive
    BY <1>1, <1>6, Sizes DEF KbFall, Kb, BoardInv, KbType, KbRec
  <2>2. /\ kb' \in KbRec /\ kb'.low = TRUE /\ kb'.st = kb.st /\ kb'.bit = kb.bit
        /\ kb'.byte = kb.byte /\ kb'.last = kb.last /\ kb'.alive = kb.alive
        /\ kb.bit < STOP => kb'.reply = kb.reply
    <3>1. CASE kb.bit < STOP
      <4>1. kb' = [kb EXCEPT !.low = TRUE]
        BY <2>1, <3>1, Sizes
      <4> QED
        BY <1>1, <4>1 DEF KbRec
    <3>2. CASE kb.bit = STOP
      <4> DEFINE n == kb.keys - 1
      <4>1. kb' = [Sent EXCEPT !.low = TRUE]
        BY <2>1, <3>2, Sizes
      <4>2. n \in Int /\ NoByte \in Byte \cup {NoByte}
        BY <1>1 DEF KbRec
      <4>3. Sent = [kb EXCEPT !.reply = NoByte] \/ Sent = [kb EXCEPT !.keys = n]
        BY DEF Sent
      <4> HIDE DEF n
      <4>4. /\ Sent \in KbRec /\ Sent.st = kb.st /\ Sent.bit = kb.bit /\ Sent.byte = kb.byte
            /\ Sent.last = kb.last /\ Sent.alive = kb.alive
        BY <1>1, <4>2, <4>3 DEF KbRec
      <4> DEFINE s == Sent
      <4>5. kb' = [s EXCEPT !.low = TRUE] /\ s \in KbRec
        BY <4>1, <4>4
      <4> HIDE DEF s
      <4>6. /\ kb' \in KbRec /\ kb'.low = TRUE /\ kb'.st = s.st /\ kb'.bit = s.bit
            /\ kb'.byte = s.byte /\ kb'.last = s.last /\ kb'.alive = s.alive
        BY <4>5 DEF KbRec
      <4>7. ~(kb.bit < STOP)
        BY <3>2, Sizes
      <4> QED
        BY <4>4, <4>6, <4>7 DEF s
    <3> QED
      BY <2>1, <3>1, <3>2
  <2>3. KbType'
    BY <1>6, <2>1, <2>2, Sizes DEF KbType
  <2>4. ~tx.dat_oe /\ tx.state # "TX_SEND" /\ Dat = BitsOf(kb.byte)[kb.bit]
    BY <1>6, DatIs DEF BoardInv, SendFrame
  <2>5. SendFrame'
    <3>1. Listening => /\ \A i \in 1 .. Len(shift_reg) : shift_reg[i] = BitsOf(kb.byte)[i]
                       /\ Seen(kb.bit)
      BY <1>1, <1>6 DEF BoardInv, SendFrame
    <3>2. Seen(kb.bit) => Seen(kb.bit)'
      BY <1>2, <2>2 DEF Seen
    <3> QED
      BY <1>2, <1>4, <2>2, <2>4, <3>1, <3>2 DEF SendFrame
  <2>6. ReceiveCmd'
    BY <1>6, <2>2 DEF ReceiveCmd
  <2>7. Reply'
    <3>1. ASSUME tx.state = "TX_WAIT_RESP"
          PROVE  Answers'
      <4>1. kb.last = <<tx.data, kb.byte>> /\ kb.reply = kb.byte
        BY <1>1, <1>6, <2>1, <3>1 DEF BoardInv, Reply, Answers
      <4> QED
        BY <1>2, <1>4, <1>6, <2>1, <2>2, <4>1 DEF Answers
    <3> QED
      BY <1>2, <2>2, <3>1 DEF BoardInv, Reply
  <2> QED
    BY <1>2, <1>5, <2>2, <2>3, <2>5, <2>6, <2>7 DEF BoardInv
<1>7. CASE kb.st = "receive"
  <2> DEFINE k == kb.bit + 1
  <2>1. kb' = [kb EXCEPT !.low = TRUE, !.bit = k]
    BY <1>7 DEF KbFall, Kb
  <2>2. /\ tx.state = "TX_SEND" /\ tx.bit = kb.bit /\ kb.bit <= STOP /\ Len(kb.got) = kb.bit
        /\ \A i \in 1 .. Len(kb.got) : kb.got[i] = BitsOf(tx.data)[i]
    BY <1>1, <1>7 DEF BoardInv, ReceiveCmd
  <2>3. k \in 0 .. STOP + 1 /\ kb.bit \in Nat /\ k - 1 = kb.bit /\ k >= 1
    BY <1>1, <2>2, Sizes DEF KbRec
  <2> HIDE DEF k
  <2>4. /\ kb' \in KbRec /\ kb'.low = TRUE /\ kb'.st = kb.st /\ kb'.bit = k
        /\ kb'.got = kb.got /\ kb'.last = kb.last /\ kb'.alive = kb.alive
    BY <1>1, <2>1, <2>3 DEF KbRec
  <2>5. KbType'
    BY <1>1, <1>7, <2>4 DEF BoardInv, KbType
  <2>6. SendFrame'
    BY <1>7, <2>4 DEF SendFrame
  <2>7. ReceiveCmd'
    BY <1>2, <1>3, <1>4, <2>2, <2>3, <2>4 DEF ReceiveCmd
  <2>8. Reply'
    BY <1>2, <2>2, <2>4 DEF BoardInv, Reply
  <2> QED
    BY <1>2, <1>5, <2>4, <2>5, <2>6, <2>7, <2>8 DEF BoardInv
<1> QED
  BY <1>1, <1>6, <1>7 DEF KbRec

\* The keyboard lets go of the clock line, and the host may still hold it.
LEMMA RiseLines ==
  ASSUME BoardInv, UNCHANGED ctrlVars, kb.low, Quiet \/ tx.clk_oe, kb'.low = FALSE,
         kb'.alive = kb.alive, tx.state = "TX_SEND" => kb'.st # "idle"
  PROVE  Lines'
<1>1. clk_buf' = clk_buf /\ tx' = tx
  BY MoveKeeps DEF BoardInv
<1>2. ~Clk
  BY DEF Clk
<1>3. CASE tx.clk_oe
  BY <1>1, <1>2, <1>3 DEF BoardInv, Lines, Rising, Falling, Clk
<1>4. CASE Quiet /\ ~tx.clk_oe
  <2>1. clk_buf[1] = Clk /\ clk_buf[2] = Clk /\ clk_buf[3] = Clk /\ ~Clk_oe
    BY <1>4, QuietIs DEF BoardInv
  <2>2. tx.state # "TX_PULL_CLK"
    BY <2>1 DEF Clk_oe
  <2> QED
    BY <1>1, <1>2, <1>4, <2>1, <2>2 DEF BoardInv, Lines, Rising, Falling
<1> QED
  BY <1>3, <1>4

LEMMA ListeningIs == BoardInv /\ Listening => ~tx.clk_oe
BY EnabledIs DEF Listening

\* The clock pulse of a bit of the keyboard's frame ends.
LEMMA SendRise ==
  ASSUME BoardInv, KbRise, kb.st = "send", kb.bit < STOP
  PROVE  BoardInv'
<1> DEFINE k == kb.bit + 1
<1>1. /\ kb.low /\ (Quiet \/ tx.clk_oe) /\ UNCHANGED ctrlVars /\ kb \in KbRec
      /\ kb.byte \in Byte /\ kb.alive
  BY DEF KbRise, KbAnswer, Kb, BoardInv, KbType
<1>2. kb' = [kb EXCEPT !.low = FALSE, !.bit = k]
  BY Sizes DEF KbRise, Kb
<1>3. k \in 1 .. STOP /\ k \in 0 .. STOP + 1
  BY <1>1, Sizes DEF KbRec
<1> HIDE DEF k
<1>4. /\ kb' \in KbRec /\ kb'.low = FALSE /\ kb'.st = "send" /\ kb'.bit = k /\ kb'.byte = kb.byte
      /\ kb'.reply = kb.reply /\ kb'.last = kb.last /\ kb'.alive = kb.alive
  BY <1>1, <1>2, <1>3 DEF KbRec
<1>5. /\ CtrlType' /\ clk_buf' = clk_buf /\ dat_buf' = dat_buf /\ rx_valid' = rx_valid
      /\ rx_state' = rx_state /\ bit_cnt' = bit_cnt /\ shift_reg' = shift_reg
      /\ rx_scan_code' = rx_scan_code /\ tx' = tx
      /\ Rx_enable' = Rx_enable /\ Listening' = Listening /\ Received' = Received
      /\ RxReset' = RxReset
  BY <1>1, MoveKeeps DEF BoardInv
<1>6. KbType'
  BY <1>1, <1>3, <1>4 DEF KbType
<1>7. Lines'
  BY <1>1, <1>4, RiseLines
<1>8. RxStill'
  BY <1>4, <1>5 DEF BoardInv, RxStill
<1>9. Listening => Quiet /\ ~clk_buf[3] /\ ~rx_valid
  BY <1>1, ListeningIs, QuietIs DEF BoardInv, Clk
<1>10. ~rx_valid
  <2>1. CASE tx.clk_oe
    BY <2>1 DEF BoardInv, RxStill, RxReset
  <2>2. CASE Quiet
    BY <2>2 DEF Quiet
  <2> QED
    BY <1>1, <2>1, <2>2
<1>11. SendFrame'
  <2>1. Listening => /\ \A i \in 1 .. Len(shift_reg) : shift_reg[i] = BitsOf(kb.byte)[i]
                     /\ Seen(k)
    BY <1>1, <1>9 DEF BoardInv, SendFrame, k
  <2>2. Seen(k) => Seen(kb.bit)'
    BY <1>4, <1>5 DEF Seen
  <2>3. ~tx.dat_oe /\ tx.state # "TX_SEND"
    BY DEF BoardInv, SendFrame
  <2> QED
    BY <1>4, <1>5, <1>10, <2>1, <2>2, <2>3 DEF SendFrame
<1>12. ReceiveCmd'
  BY <1>4 DEF ReceiveCmd
<1>13. Reply'
  <2>1. ASSUME tx.state = "TX_WAIT_RESP"
        PROVE  Answers'
    <3>1. kb.last = <<tx.data, kb.byte>> /\ kb.reply = kb.byte
      BY <1>1, <2>1, Sizes DEF BoardInv, Reply, Answers
    <3> QED
      BY <1>4, <1>5, <3>1 DEF Answers
  <2> QED
    BY <1>4, <1>5, <2>1 DEF BoardInv, Reply
<1> QED
  BY <1>5, <1>6, <1>7, <1>8, <1>11, <1>12, <1>13 DEF BoardInv

\* The stop bit of the keyboard's frame ends.
LEMMA SendDone ==
  ASSUME BoardInv, KbRise, kb.st = "send", kb.bit = STOP
  PROVE  BoardInv'
<1>1. /\ kb.low /\ (Quiet \/ tx.clk_oe) /\ UNCHANGED ctrlVars /\ kb \in KbRec /\ kb.alive
  BY DEF KbRise, KbAnswer, Kb, BoardInv, KbType
<1>2. kb' = [kb EXCEPT !.low = FALSE, !.bit = 0, !.st = "idle"]
  BY Sizes DEF KbRise, Kb
<1>3. 0 \in 0 .. STOP + 1
  BY Sizes
<1>4. /\ kb' \in KbRec /\ kb'.low = FALSE /\ kb'.st = "idle" /\ kb'.bit = 0
      /\ kb'.last = kb.last /\ kb'.alive = kb.alive
  BY <1>1, <1>2, <1>3 DEF KbRec
<1>5. CtrlType' /\ tx' = tx /\ RxReset' = RxReset
  BY <1>1, MoveKeeps DEF BoardInv
<1>6. tx.state # "TX_SEND"
  BY DEF BoardInv, SendFrame
<1>7. KbType'
  BY <1>4 DEF KbType
<1>8. Lines'
  BY <1>1, <1>4, <1>6, RiseLines
<1>9. RxReset
  <2>1. CASE ~Listening
    <3>1. tx.clk_oe \/ tx.state = "TX_PULL_DAT"
      BY <1>6, <2>1, LevelsTyped DEF Listening, Rx_enable, Tx_state, BoardInv
    <3> QED
      BY <3>1 DEF BoardInv, RxStill
  <2>2. CASE Listening
    <3>1. Quiet /\ ~clk_buf[3] /\ ~rx_valid /\ ~Received
      BY <1>1, <2>2, ListeningIs, QuietIs DEF BoardInv, Clk
    <3>2. rx_state = "IDLE"
      BY <1>1, <2>2, <3>1 DEF BoardInv, SendFrame
    <3> QED
      BY <3>1, <3>2 DEF RxReset, BoardInv, CtrlType, RxShape
  <2> QED
    BY <2>1, <2>2
<1>10. tx.state # "TX_WAIT_RESP"
  <2> SUFFICES ASSUME tx.state = "TX_WAIT_RESP" PROVE FALSE
    OBVIOUS
  <2>1. Listening
    BY DEF Listening, Rx_enable
  <2>2. Quiet /\ ~clk_buf[3] /\ ~rx_valid /\ ~Received
    BY <1>1, <2>1, ListeningIs, QuietIs DEF BoardInv, Clk
  <2> QED
    BY <1>1, <2>2, Sizes DEF BoardInv, Reply, Answers
<1>11. RxStill' /\ SendFrame' /\ ReceiveCmd'
  BY <1>4, <1>5, <1>9 DEF RxStill, SendFrame, ReceiveCmd
<1>12. Reply'
  BY <1>4, <1>5, <1>10 DEF BoardInv, Reply
<1> QED
  BY <1>5, <1>7, <1>8, <1>11, <1>12 DEF BoardInv

\* While a command is sent the clock line is the keyboard's.
LEMMA ReceiveQuiet ==
  ASSUME BoardInv, KbRise, kb.st = "receive"
  PROVE  /\ kb.low /\ Quiet /\ ~tx.clk_oe /\ ~clk_buf[3] /\ UNCHANGED ctrlVars
         /\ kb \in KbRec /\ kb.alive /\ kb.bit \in 1 .. STOP + 1 /\ Len(kb.got) = kb.bit - 1
         /\ \A i \in 1 .. Len(kb.got) : kb.got[i] = BitsOf(tx.data)[i]
         /\ kb.bit <= STOP => tx.state = "TX_SEND" /\ tx.bit = kb.bit
         /\ kb.bit > STOP => tx.state = "TX_WAIT_RESP"
<1>1. /\ kb.low /\ (Quiet \/ tx.clk_oe) /\ UNCHANGED ctrlVars /\ kb \in KbRec /\ kb.alive
      /\ ~tx.clk_oe
  BY DEF KbRise, KbAnswer, Kb, BoardInv, KbType, ReceiveCmd
<1>2. Quiet /\ ~clk_buf[3]
  BY <1>1, QuietIs DEF Clk, BoardInv
<1>3. kb.bit \in 1 .. STOP + 1
  BY <1>1, Sizes DEF BoardInv, ReceiveCmd, KbRec
<1> QED
  BY <1>1, <1>2, <1>3 DEF BoardInv, ReceiveCmd

\* The keyboard samples a bit of the command.
LEMMA ReceiveRise ==
  ASSUME BoardInv, KbRise, kb.st = "receive", kb.bit <= STOP
  PROVE  BoardInv'
<1>1. /\ kb.low /\ Quiet /\ ~tx.clk_oe /\ ~clk_buf[3] /\ UNCHANGED ctrlVars
      /\ kb \in KbRec /\ kb.alive /\ kb.bit \in 1 .. STOP + 1 /\ Len(kb.got) = kb.bit - 1
      /\ \A i \in 1 .. Len(kb.got) : kb.got[i] = BitsOf(tx.data)[i]
      /\ tx.state = "TX_SEND" /\ tx.bit = kb.bit
  BY ReceiveQuiet
<1> DEFINE g == Append(kb.got, Dat)
<1>2. kb' = [kb EXCEPT !.low = FALSE, !.got = g]
  BY <1>1, Sizes DEF KbRise, Kb
<1>3. Dat = BitsOf(tx.data)[kb.bit]
  <2>1. tx.data \in Byte /\ Dat \in BOOLEAN /\ kb.bit \in 0 .. STOP
    BY <1>1, LevelsTyped, Sizes DEF BoardInv
  <2>2. Dat <=> ~tx.dat_oe
    BY <1>1, DatIs DEF BoardInv
  <2>3. tx.dat_oe <=> Dat_oe
    BY <1>1, QuietIs DEF BoardInv
  <2>4. Dat_oe <=> ~Tx_frame_bit(tx.data, kb.bit)
    BY <1>1 DEF Dat_oe
  <2>5. Dat <=> BitsOf(tx.data)[kb.bit]
    BY <2>1, <2>2, <2>3, <2>4, BitsAre
  <2>6. BitsOf(tx.data)[kb.bit] \in BOOLEAN
    BY <2>1, BitsAre
  <2> QED
    BY <2>1, <2>5, <2>6, SameBit
<1>4. /\ g \in Seq(BOOLEAN) /\ Len(g) = kb.bit
      /\ \A i \in 1 .. Len(g) : g[i] = BitsOf(tx.data)[i]
  <2>1. kb.got \in Seq(BOOLEAN) /\ Dat \in BOOLEAN /\ kb.bit \in Nat
    BY <1>1, LevelsTyped, Sizes DEF BoardInv, KbRec
  <2>2. /\ g \in Seq(BOOLEAN) /\ Len(g) = Len(kb.got) + 1
        /\ \A i \in 1 .. Len(kb.got) : g[i] = kb.got[i]
        /\ g[Len(kb.got) + 1] = Dat
    BY <2>1, Appended
  <2> HIDE DEF g
  <2>3. Len(g) = kb.bit /\ g[kb.bit] = Dat
    BY <1>1, <2>1, <2>2
  <2>4. ASSUME NEW i \in 1 .. Len(g)
        PROVE  g[i] = BitsOf(tx.data)[i]
    <3>1. CASE i = kb.bit
      BY <1>3, <2>3, <3>1
    <3>2. CASE i # kb.bit
      <4>1. i \in 1 .. Len(kb.got)
        BY <1>1, <2>1, <2>3, <3>2
      <4> QED
        BY <1>1, <2>2, <4>1
    <3> QED
      BY <3>1, <3>2
  <2> QED
    BY <2>2, <2>3, <2>4
<1> HIDE DEF g
<1>5. /\ kb' \in KbRec /\ kb'.low = FALSE /\ kb'.st = "receive" /\ kb'.bit = kb.bit
      /\ kb'.got = g /\ kb'.last = kb.last /\ kb'.alive = kb.alive
  BY <1>1, <1>2, <1>4 DEF KbRec
<1>6. CtrlType' /\ tx' = tx /\ RxReset' = RxReset
  BY <1>1, MoveKeeps DEF BoardInv
<1>7. KbType'
  BY <1>1, <1>5 DEF KbType
<1>8. Lines'
  BY <1>1, <1>5, RiseLines
<1>9. RxStill' /\ SendFrame'
  BY <1>5, <1>6 DEF BoardInv, RxStill, SendFrame
<1>10. ReceiveCmd'
  BY <1>1, <1>4, <1>5, <1>6 DEF ReceiveCmd
<1>11. Reply'
  BY <1>1, <1>5, <1>6 DEF BoardInv, Reply
<1> QED
  BY <1>6, <1>7, <1>8, <1>9, <1>10, <1>11 DEF BoardInv

\* The keyboard has taken in the byte in the TXDATA register.
LEMMA AnswerIs ==
  ASSUME BoardInv, KbRise, kb.st = "receive", kb.bit > STOP
  PROVE  \E resp \in {PS2_RESP_ACK, PS2_RESP_RESEND} :
           /\ kb' \in KbRec /\ kb'.st = "idle" /\ kb'.low = FALSE /\ kb'.reply = resp
           /\ kb'.last = <<tx.data, resp>> /\ kb'.alive = kb.alive
           /\ kb'.leds = IF resp = PS2_RESP_ACK /\ tx.data # CMD_SET_LEDS THEN tx.data ELSE kb.leds
<1> DEFINE b == tx.data
<1>1. /\ kb \in KbRec /\ kb.bit \in 1 .. STOP + 1 /\ Len(kb.got) = kb.bit - 1
      /\ \A i \in 1 .. Len(kb.got) : kb.got[i] = BitsOf(tx.data)[i]
  BY ReceiveQuiet
<1>2. kb.got \in Seq(BOOLEAN) /\ Len(kb.got) = STOP /\ b \in Byte
  BY <1>1, LevelsTyped, Sizes DEF BoardInv, KbRec
<1>3. SubSeq(kb.got, 1, DATA_BITS) = b
  BY <1>1, <1>2, GoodFrame
<1>4. PICK resp \in {PS2_RESP_ACK, PS2_RESP_RESEND} :
        kb' \in {Answer(b, resp), [Answer(b, resp) EXCEPT !.resends = @ + 1]}
  <2>1. KbAnswer
    BY <1>1, Sizes DEF KbRise
  <2> QED
    BY <1>3, <2>1 DEF KbAnswer, Kb
<1> DEFINE e == IF resp = PS2_RESP_ACK THEN b = CMD_SET_LEDS ELSE kb.expect
           l == IF resp = PS2_RESP_ACK /\ b # CMD_SET_LEDS THEN b ELSE kb.leds
           a == Answer(b, resp)
<1>5. resp \in Byte
  BY Ps2BoardAssumption
<1>6. a = [kb EXCEPT !.st = "idle", !.low = FALSE, !.bit = 0, !.got = << >>, !.reply = resp,
                     !.last = <<b, resp>>, !.expect = e, !.leds = l]
  BY <1>1 DEF Answer, KbRec
<1>7. /\ e \in BOOLEAN /\ l \in Byte \cup {NoByte} /\ <<b, resp>> \in Byte \X Byte
      /\ 0 \in 0 .. STOP + 1
  <2>1. kb.expect \in BOOLEAN /\ kb.leds \in Byte \cup {NoByte}
    BY <1>1 DEF KbRec
  <2>2. (b = CMD_SET_LEDS) \in BOOLEAN
    BY Zenon
  <2>3. e \in BOOLEAN
    BY <2>1, <2>2, Zenon
  <2>4. l \in Byte \cup {NoByte}
    BY <1>2, <2>1
  <2>5. <<b, resp>> \in Byte \X Byte /\ 0 \in 0 .. STOP + 1
    BY <1>2, <1>5, Sizes
  <2> QED
    BY <2>3, <2>4, <2>5
<1> HIDE DEF e, l
<1>8. /\ a \in KbRec /\ a.st = "idle" /\ a.low = FALSE /\ a.reply = resp
      /\ a.last = <<b, resp>> /\ a.alive = kb.alive /\ a.leds = l
  <2> DEFINE p == <<b, resp>>
  <2>1. p \in {<< >>} \cup (Byte \X Byte) /\ resp \in Byte \cup {NoByte} /\ << >> \in Seq(BOOLEAN)
    BY <1>5, <1>7, EmptyIs
  <2>2. a = [kb EXCEPT !.st = "idle", !.low = FALSE, !.bit = 0, !.got = << >>, !.reply = resp,
                       !.last = p, !.expect = e, !.leds = l]
    BY <1>6
  <2> HIDE DEF p, a
  <2>3. a \in KbRec
    BY <1>1, <1>7, <2>1, <2>2 DEF KbRec
  <2>4. /\ a.st = "idle" /\ a.low = FALSE /\ a.reply = resp /\ a.last = p
        /\ a.alive = kb.alive /\ a.leds = l
    BY <1>1, <2>2 DEF KbRec
  <2> QED
    BY <2>3, <2>4 DEF p
<1> HIDE DEF a
<1>9. /\ kb' \in KbRec /\ kb'.st = a.st /\ kb'.low = a.low /\ kb'.reply = a.reply
      /\ kb'.last = a.last /\ kb'.alive = a.alive /\ kb'.leds = a.leds
  <2> DEFINE n == a.resends + 1
  <2>1. n \in Nat
    BY <1>8 DEF KbRec
  <2>2. kb' = a \/ kb' = [a EXCEPT !.resends = n]
    BY <1>4 DEF a
  <2> HIDE DEF n
  <2> QED
    BY <1>8, <2>1, <2>2 DEF KbRec
<1> QED
  BY <1>8, <1>9 DEF l

LEMMA AnswerStep ==
  ASSUME BoardInv, KbRise, kb.st = "receive", kb.bit > STOP
  PROVE  BoardInv'
<1>1. /\ kb.low /\ Quiet /\ UNCHANGED ctrlVars /\ kb.alive /\ tx.state = "TX_WAIT_RESP"
  BY ReceiveQuiet
<1>2. PICK resp \in {PS2_RESP_ACK, PS2_RESP_RESEND} :
        /\ kb' \in KbRec /\ kb'.st = "idle" /\ kb'.low = FALSE /\ kb'.reply = resp
        /\ kb'.last = <<tx.data, resp>> /\ kb'.alive = kb.alive
  BY AnswerIs
<1>3. resp # NoByte
  BY Ps2BoardAssumption, NoByteIs
<1>4. CtrlType' /\ tx' = tx /\ RxReset' = RxReset
  BY <1>1, MoveKeeps DEF BoardInv
<1>5. KbType'
  BY <1>2 DEF KbType
<1>6. Lines'
  BY <1>1, <1>2, RiseLines
<1>7. RxStill' /\ SendFrame' /\ ReceiveCmd'
  BY <1>2, <1>4 DEF BoardInv, RxStill, SendFrame, ReceiveCmd
<1>8. Reply'
  BY <1>1, <1>2, <1>3, <1>4 DEF BoardInv, Reply, Answers
<1> QED
  BY <1>4, <1>5, <1>6, <1>7, <1>8 DEF BoardInv

LEMMA RiseStep == BoardInv /\ KbRise => BoardInv'
<1> SUFFICES ASSUME BoardInv, KbRise PROVE BoardInv'
  OBVIOUS
<1>1. kb.low /\ kb.st \in {"send", "receive"} /\ kb.bit \in 0 .. STOP + 1 /\ (kb.st = "send" => kb.bit <= STOP)
  BY DEF KbRise, BoardInv, KbType, KbRec
<1>2. \/ kb.st = "send" /\ kb.bit < STOP
      \/ kb.st = "send" /\ kb.bit = STOP
      \/ kb.st = "receive" /\ kb.bit <= STOP
      \/ kb.st = "receive" /\ kb.bit > STOP
  BY <1>1, Sizes
<1> QED
  BY <1>2, SendRise, SendDone, ReceiveRise, AnswerStep

-----------------------------------------------------------------------------
(***************************************************************************)
(* The edges of the driver's steps, and the invariant.                     *)
(***************************************************************************)
LEMMA Accesses ==
  /\ Access(ReadData) /\ Access(ReadStat) /\ Access(ClearStat) /\ Access(NoAccess)
  /\ \A b \in Byte : Access(TxData(b))
  /\ ReadData.op # "TXDATA" /\ ReadStat.op # "TXDATA" /\ ClearStat.op # "TXDATA"
  /\ NoAccess.op # "TXDATA" /\ \A b : TxData(b).op = "TXDATA" /\ TxData(b).byte = b
BY DEF Access, ReadData, ReadStat, ClearStat, NoAccess, TxData

\* Every step of the clock is an edge with some access, and only DrvWrite writes
\* the TXDATA register.
LEMMA EdgeSteps ==
  ASSUME NoAccessEdge \/ Expire \/ DrvAccess, BoardInv, drv \in DrvRec
  PROVE  \E acc, expired :
           /\ expired \in BOOLEAN /\ Access(acc) /\ Edged(acc, expired)
           /\ acc.op = "TXDATA" => drv.pc = "write"
           /\ expired => tx.state \in {"TX_SEND", "TX_WAIT_RESP"}
<1>1. ASSUME NEW acc, Access(acc), Edge(acc), acc.op = "TXDATA" => drv.pc = "write"
      PROVE  /\ FALSE \in BOOLEAN /\ Access(acc) /\ Edged(acc, FALSE)
             /\ acc.op = "TXDATA" => drv.pc = "write"
             /\ FALSE => tx.state \in {"TX_SEND", "TX_WAIT_RESP"}
  BY <1>1 DEF Edge, Edged
<1>2. CASE NoAccessEdge \/ DrvClear \/ DrvBusy \/ DrvPoll \/ DrvReady \/ DrvData
  BY <1>1, <1>2, Accesses DEF NoAccessEdge, DrvClear, DrvBusy, DrvPoll, DrvReady, DrvData
<1>3. CASE DrvWrite
  <2> DEFINE b == IF drv.cmd = 1 THEN CMD_SET_LEDS ELSE LOCK_MASK[drv.mask]
  <2>1. Edge(TxData(b)) /\ drv.pc = "write"
    BY <1>3 DEF DrvWrite
  <2>2. b \in Byte
    BY Ps2BoardAssumption DEF DrvRec
  <2> HIDE DEF b
  <2>3. Access(TxData(b))
    BY <2>2, Accesses
  <2> QED
    BY <1>1, <2>1, <2>3
<1>4. CASE Expire
  <2>1. /\ ~kb.alive /\ CtrlEdge(Clk, Dat, NoAccess, TRUE) /\ kb' = kb
        /\ tx.state \in {"TX_SEND", "TX_WAIT_RESP"}
    BY <1>4 DEF Expire
  <2>2. ~MustMove
    BY <2>1 DEF MustMove, Inhibited, BoardInv, KbType
  <2>3. TRUE \in BOOLEAN /\ Access(NoAccess) /\ Edged(NoAccess, TRUE) /\ NoAccess.op # "TXDATA"
    BY <2>1, <2>2, Accesses DEF Edged
  <2> QED
    BY <2>1, <2>3
<1> QED
  BY <1>2, <1>3, <1>4 DEF DrvAccess

LEMMA BoardInit == Init => BoardInv /\ drv \in DrvRec
<1> SUFFICES ASSUME Init PROVE BoardInv /\ drv \in DrvRec
  OBVIOUS
<1>1. /\ clk_buf = <<TRUE, TRUE, TRUE>> /\ dat_buf = <<TRUE, TRUE>>
      /\ rx_state = "IDLE" /\ bit_cnt = 0 /\ shift_reg = << >> /\ rx_valid = FALSE
      /\ rx_scan_code = Zero
      /\ tx = [state |-> "TX_IDLE", data |-> Zero, bit |-> 0, timer |-> 0, idle |-> 0,
               done |-> FALSE, error |-> FALSE, resp_valid |-> FALSE, resp |-> Zero,
               clk_oe |-> FALSE, dat_oe |-> FALSE]
      /\ kb = [st |-> "idle", bit |-> 0, low |-> FALSE, got |-> << >>, byte |-> NoByte,
               reply |-> NoByte, keys |-> 0, presses |-> 0, resends |-> 0,
               expect |-> FALSE, leds |-> NoByte, last |-> << >>, alive |-> TRUE]
      /\ drv = [pc |-> "clear", cmd |-> 1, attempt |-> 0, resp |-> Zero, ret |-> -1,
                lock |-> FALSE, last |-> FALSE, mask |-> FALSE]
  BY DEF Init, CtrlInit, KbInit, DrvInit
<1>2. /\ Zero \in Byte /\ 0 \in 0 .. STOP /\ 0 \in 0 .. STOP + 1 /\ 0 \in 0 .. TIMER_MOD - 1
      /\ 0 \in 0 .. IDLE_MIN_TICKS_C /\ FALSE \in BOOLEAN /\ TRUE \in BOOLEAN
      /\ 0 \in 0 .. DATA_BITS + 1 /\ << >> \in Seq(BOOLEAN) /\ 0 # DATA_BITS + 1
  BY ZeroIsByte, Ps2Assumption, Sizes
<1>3. tx \in TxRec
  BY <1>1, <1>2 DEF TxRec, Tx_state
<1>4. kb \in KbRec
  BY <1>1, <1>2 DEF KbRec
<1>5. drv \in DrvRec
  BY <1>1, <1>2 DEF DrvRec
<1>6. SyncType
  BY <1>1, TwoBits, ThreeBits DEF SyncType
<1>7. RxType /\ RxShape
  BY <1>1, <1>2, EmptyIs DEF RxType, RxShape, Received
<1>8. FifoType
  BY <1>2, Ps2Assumption DEF Init, CtrlInit, FifoType
<1>9. tx.state = "TX_IDLE" /\ ~tx.clk_oe /\ ~tx.dat_oe /\ ~tx.resp_valid
  BY <1>1
<1>10. kb.st = "idle" /\ ~kb.low
  BY <1>1
<1>11. clk_buf[1] = TRUE /\ clk_buf[2] = TRUE /\ clk_buf[3] = TRUE
  BY <1>1, ThreeBits
<1>12. KbType
  BY <1>4, <1>10 DEF KbType
<1>13. Lines
  BY <1>9, <1>10, <1>11 DEF Lines, Rising, Falling, Clk
<1>14. RxStill /\ SendFrame /\ ReceiveCmd /\ Reply
  BY <1>1, <1>9, <1>10 DEF RxStill, RxReset, SendFrame, ReceiveCmd, Reply
<1> QED
  BY <1>3, <1>5, <1>6, <1>7, <1>8, <1>12, <1>13, <1>14 DEF BoardInv, CtrlType

\* The driver's variables keep their types.
LEMMA DrvTyped ==
  ASSUME CtrlType, drv \in DrvRec, [Next]_vars
  PROVE  drv' \in DrvRec
<1>1. /\ "clear" \in {"clear", "busy", "write", "poll", "ready", "data"}
      /\ "busy" \in {"clear", "busy", "write", "poll", "ready", "data"}
      /\ "write" \in {"clear", "busy", "write", "poll", "ready", "data"}
      /\ "poll" \in {"clear", "busy", "write", "poll", "ready", "data"}
      /\ "ready" \in {"clear", "busy", "write", "poll", "ready", "data"}
      /\ "data" \in {"clear", "busy", "write", "poll", "ready", "data"}
      /\ 1 \in {1, 2} /\ 2 \in {1, 2} /\ 0 \in {0, 1} /\ 1 \in {0, 1} /\ -1 \in {-1, 0}
      /\ 0 \in {-1, 0} /\ Zero \in Byte
  BY ZeroIsByte
<1>2. ASSUME NEW d \in DrvRec, NEW ret \in {-1, 0}
      PROVE  Return(d, ret) \in DrvRec
  BY <1>1 DEF Return, DrvRec
<1>3. ASSUME NEW d \in DrvRec
      PROVE  StartSync(d) \in DrvRec
  BY <1>1 DEF StartSync, DrvRec
<1>4. ASSUME NEW d \in DrvRec, NEW sent \in BOOLEAN
      PROVE  AfterSend(d, sent) \in DrvRec
  <2>1. /\ [d EXCEPT !.pc = "clear", !.cmd = 2] \in DrvRec
        /\ [d EXCEPT !.pc = "clear", !.cmd = 1, !.attempt = 1] \in DrvRec
    BY <1>1 DEF DrvRec
  <2>2. Return(d, 0) \in DrvRec /\ Return(d, -1) \in DrvRec
    BY <1>1, <1>2
  <2>3. d.cmd = 1 \/ d.cmd = 2
    BY DEF DrvRec
  <2> QED
    BY <2>1, <2>2, <2>3 DEF AfterSend
<1>5. CASE UNCHANGED drv
  BY <1>5
<1>6. CASE DrvClear \/ DrvWrite
  <2>1. drv' = [drv EXCEPT !.pc = "busy"] \/ drv' = [drv EXCEPT !.pc = "poll"]
    BY <1>6 DEF DrvClear, DrvWrite
  <2> QED
    BY <1>1, <2>1 DEF DrvRec
<1>7. CASE DrvBusy
  <2>1. drv' = [drv EXCEPT !.pc = "write"] \/ drv' = drv \/ drv' = AfterSend(drv, FALSE)
    BY <1>7 DEF DrvBusy
  <2>2. [drv EXCEPT !.pc = "write"] \in DrvRec
    BY <1>1 DEF DrvRec
  <2> QED
    BY <1>4, <2>1, <2>2
<1>8. CASE DrvPoll
  <2> DEFINE d == [drv EXCEPT !.resp = tx.resp]
             sent == ~tx.error /\ tx.resp_valid
  <2>1. drv' = AfterSend(d, sent) \/ drv' = drv \/ drv' = AfterSend(drv, FALSE)
    BY <1>8 DEF DrvPoll
  <2>2. d \in DrvRec
    <3>1. tx.resp \in Byte
      BY LevelsTyped
    <3> QED
      BY <3>1 DEF DrvRec
  <2>3. sent \in BOOLEAN
    BY Zenon
  <2> HIDE DEF d, sent
  <2> QED
    BY <1>4, <2>1, <2>2, <2>3
<1>9. CASE DrvReady
  BY <1>1, <1>9 DEF DrvReady, DrvRec
<1>10. CASE DrvData
  <2> DEFINE lock == IF Rd_byte = SCAN_CAPS THEN ~drv.lock ELSE drv.lock
             seen == [drv EXCEPT !.pc = "ready", !.lock = lock]
  <2>1. drv' = StartSync(seen) \/ drv' = seen
    BY <1>10 DEF DrvData
  <2>2. lock \in BOOLEAN
    <3>1. drv.lock \in BOOLEAN /\ (~drv.lock) \in BOOLEAN
      BY DEF DrvRec
    <3> QED
      BY <3>1, Zenon
  <2> HIDE DEF lock
  <2>3. seen \in DrvRec
    BY <1>1, <2>2 DEF DrvRec
  <2> HIDE DEF seen
  <2> QED
    BY <1>3, <2>1, <2>3
<1> QED
  BY <1>5, <1>6, <1>7, <1>8, <1>9, <1>10 DEF Next, vars, DrvAccess, NoAccessEdge, Expire, KbMoves,
     KbStart, KbAbort, KbRequest, KbFall, KbRise, KbAnswer, KbPress, KbDie, Kb

LEMMA BoardStep ==
  ASSUME SetupSettles, BoardInv, drv \in DrvRec, Next
  PROVE  BoardInv'
<1>1. CASE NoAccessEdge \/ Expire \/ DrvAccess
  BY <1>1, EdgeSteps, BoardEdge
<1> QED
  BY <1>1, PressStep, DieStep, StartStep, AbortStep, RequestStep, FallStep, RiseStep DEF Next, KbMoves

LEMMA BoardStutter == BoardInv /\ UNCHANGED vars => BoardInv'
<1> SUFFICES ASSUME BoardInv, UNCHANGED vars PROVE BoardInv'
  OBVIOUS
<1>1. kb' = kb /\ UNCHANGED ctrlVars
  BY DEF vars
<1> QED
  BY <1>1, BoardUnseen DEF BoardInv, KbType

\* The port keeps its invariant: what is on the lines, what of it the receiver and
\* the transmitter have seen, and what the keyboard is about to do.
THEOREM BoardAlways == ASSUME SetupSettles PROVE Spec => [](BoardInv /\ drv \in DrvRec)
<1>1. BoardInv /\ drv \in DrvRec /\ [Next]_vars => (BoardInv /\ drv \in DrvRec)'
  BY BoardStep, BoardStutter, DrvTyped DEF BoardInv
<1> QED
  BY <1>1, BoardInit, PTL DEF Spec

-----------------------------------------------------------------------------
(***************************************************************************)
(* The driver and the LEDs.                                                *)
(***************************************************************************)
LEMMA AfterSendIs ==
  ASSUME NEW d \in DrvRec, NEW sent \in BOOLEAN, NEW n, n = AfterSend(d, sent)
  PROVE  /\ n.lock = d.lock
         /\ \/ n.pc = "clear" /\ n.mask = d.mask
            \/ n.pc = "ready" /\ n.last = d.lock /\ n.ret = -1
            \/ /\ n.pc = "ready" /\ n.last = d.lock
               /\ sent /\ d.resp = PS2_RESP_ACK /\ d.cmd = 2
<1>1. d.cmd = 1 \/ d.cmd = 2
  BY DEF DrvRec
<1>2. \/ n = [d EXCEPT !.pc = "clear", !.cmd = 2]
      \/ n = [d EXCEPT !.pc = "clear", !.cmd = 1, !.attempt = 1]
      \/ n = Return(d, -1)
      \/ n = Return(d, 0) /\ sent /\ d.resp = PS2_RESP_ACK /\ d.cmd = 2
  BY <1>1 DEF AfterSend
<1> QED
  BY <1>2 DEF Return, DrvRec

\* The LEDs show the last byte the keyboard acknowledged, if it was not a command.
LedsInv ==
  kb.last # << >> /\ kb.last[2] = PS2_RESP_ACK /\ kb.last[1] # CMD_SET_LEDS => kb.leds = kb.last[1]

LEMMA LedsKept ==
  ASSUME BoardInv, drv \in DrvRec, [Next]_vars
  PROVE  \/ kb'.leds = kb.leds /\ kb'.last = kb.last
         \/ KbRise /\ kb.st = "receive" /\ kb.bit > STOP
<1>1. kb \in KbRec
  BY DEF BoardInv, KbType
<1>2. CASE kb' = kb
  BY <1>2
<1>3. CASE KbPress \/ KbDie \/ KbStart \/ KbAbort \/ KbRequest
  BY <1>1, <1>3 DEF KbPress, KbDie, KbStart, KbAbort, KbRequest, Kb, KbRec
<1>4. CASE KbFall
  <2>1. \/ kb' = [kb EXCEPT !.low = TRUE] \/ kb' = [kb EXCEPT !.low = TRUE, !.bit = @ + 1]
        \/ kb' = [Sent EXCEPT !.low = TRUE]
    BY <1>4 DEF KbFall, Kb
  <2>2. Sent.leds = kb.leds /\ Sent.last = kb.last /\ Sent \in [DOMAIN kb -> {Sent[i] : i \in DOMAIN kb}]
    BY <1>1 DEF Sent, KbRec
  <2> QED
    BY <1>1, <2>1, <2>2 DEF KbRec
<1>5. CASE KbRise /\ ~(kb.st = "receive" /\ kb.bit > STOP)
  <2>1. \/ kb' = [kb EXCEPT !.low = FALSE, !.bit = @ + 1]
        \/ kb' = [kb EXCEPT !.low = FALSE, !.bit = 0, !.st = "idle"]
        \/ kb' = [kb EXCEPT !.low = FALSE, !.got = Append(@, Dat)]
    BY <1>5 DEF KbRise, Kb
  <2> QED
    BY <1>1, <2>1 DEF KbRec
<1>6. kb' = kb \/ KbPress \/ KbDie \/ KbStart \/ KbAbort \/ KbRequest \/ KbFall \/ KbRise
  BY DEF Next, vars, DrvAccess, NoAccessEdge, Expire, KbMoves, Edge, DrvClear, DrvBusy, DrvWrite,
     DrvPoll, DrvReady, DrvData
<1> QED
  BY <1>2, <1>3, <1>4, <1>5, <1>6

LEMMA LedsStep ==
  ASSUME BoardInv, drv \in DrvRec, LedsInv, [Next]_vars
  PROVE  LedsInv'
<1>1. CASE kb'.leds = kb.leds /\ kb'.last = kb.last
  BY <1>1 DEF LedsInv
<1>2. CASE KbRise /\ kb.st = "receive" /\ kb.bit > STOP
  <2>1. PICK resp \in {PS2_RESP_ACK, PS2_RESP_RESEND} :
          /\ kb'.last = <<tx.data, resp>>
          /\ kb'.leds = IF resp = PS2_RESP_ACK /\ tx.data # CMD_SET_LEDS THEN tx.data ELSE kb.leds
    BY <1>2, AnswerIs
  <2>2. kb'.last[1] = tx.data /\ kb'.last[2] = resp
    BY <2>1
  <2> QED
    BY <2>1, <2>2 DEF LedsInv
<1> QED
  BY <1>1, <1>2, LedsKept

\* A byte is written to an idle transmitter, what a poll is about is still in its
\* data register, and outside ps2_sync_leds the last answer still stands.
Talking == drv.pc \notin {"ready", "data"}

DrvInv ==
  /\ drv.pc = "write" => tx.state = "TX_IDLE"
  /\ drv.pc = "poll" /\ drv.cmd = 2 => tx.data = LOCK_MASK[drv.mask]
  /\ Talking => drv.mask = drv.lock
  /\ ~Talking => drv.last = drv.lock
  /\ ~Talking /\ drv.ret = 0 => tx.state = "TX_IDLE" /\ kb.leds = LOCK_MASK[drv.lock]

\* What the driver relies on between two of its register accesses.
LEMMA TxBetween ==
  ASSUME BoardInv, drv \in DrvRec, [Next]_vars
  PROVE  \/ /\ drv.pc # "write" \/ drv' = drv
            /\ tx'.data = tx.data
            /\ tx.state = "TX_IDLE" => tx'.state = "TX_IDLE"
         \/ DrvWrite
<1>1. CASE UNCHANGED ctrlVars /\ drv' = drv
  BY <1>1 DEF ctrlVars
<1>2. CASE NoAccessEdge \/ Expire \/ (DrvAccess /\ ~DrvWrite)
  <2>1. \E acc, expired : /\ expired \in BOOLEAN /\ Access(acc) /\ Edged(acc, expired)
                          /\ acc.op # "TXDATA"
    <3>1. ASSUME NEW acc, Access(acc), Edge(acc), acc.op # "TXDATA"
          PROVE  /\ FALSE \in BOOLEAN /\ Access(acc) /\ Edged(acc, FALSE) /\ acc.op # "TXDATA"
      BY <3>1 DEF Edge, Edged
    <3>2. CASE Expire
      <4>1. /\ ~kb.alive /\ CtrlEdge(Clk, Dat, NoAccess, TRUE) /\ kb' = kb
        BY <3>2 DEF Expire
      <4>2. ~MustMove
        BY <4>1 DEF MustMove, Inhibited, BoardInv, KbType
      <4>3. TRUE \in BOOLEAN /\ Access(NoAccess) /\ Edged(NoAccess, TRUE) /\ NoAccess.op # "TXDATA"
        BY <4>1, <4>2, Accesses DEF Edged
      <4> QED
        BY <4>3
    <3> QED
      BY <1>2, <3>1, <3>2, Accesses DEF NoAccessEdge, DrvAccess, DrvClear, DrvBusy, DrvPoll,
         DrvReady, DrvData
  <2>2. PICK acc, expired : /\ expired \in BOOLEAN /\ Access(acc) /\ Edged(acc, expired)
                            /\ acc.op # "TXDATA"
    BY <2>1
  <2>3. TxMove(acc, expired)
    BY <2>2, EdgeMoves DEF BoardInv
  <2>4. tx'.data = tx.data /\ (tx.state = "TX_IDLE" => tx'.state = "TX_IDLE")
    BY <2>2, <2>3 DEF TxMove
  <2>5. drv.pc # "write" \/ drv' = drv
    BY <1>2 DEF NoAccessEdge, Expire, DrvAccess, DrvClear, DrvBusy, DrvPoll, DrvReady, DrvData
  <2> QED
    BY <2>4, <2>5
<1>3. CASE DrvWrite
  BY <1>3
<1> QED
  BY <1>1, <1>2, <1>3 DEF Next, vars, KbMoves, KbStart, KbAbort, KbRequest, KbFall, KbRise, KbAnswer,
     KbPress, KbDie, Kb

\* The driver's variables after a step of anything else.
LEMMA DrvInvElse ==
  ASSUME BoardInv, drv \in DrvRec, LedsInv, DrvInv, [Next]_vars, drv' = drv, ~DrvWrite
  PROVE  DrvInv'
<1>1. tx'.data = tx.data /\ (tx.state = "TX_IDLE" => tx'.state = "TX_IDLE")
  BY TxBetween
<1>2. tx.state = "TX_IDLE" => kb'.leds = kb.leds
  <2>1. KbRise /\ kb.st = "receive" /\ kb.bit > STOP => tx.state # "TX_IDLE"
    BY ReceiveQuiet
  <2> QED
    BY <2>1, LedsKept
<1> QED
  BY <1>1, <1>2 DEF DrvInv, Talking

LEMMA DrvInvStep ==
  ASSUME BoardInv, drv \in DrvRec, LedsInv, DrvInv, [Next]_vars
  PROVE  DrvInv'
<1>1. CASE DrvWrite
  <2> DEFINE b == IF drv.cmd = 1 THEN CMD_SET_LEDS ELSE LOCK_MASK[drv.mask]
             acc == TxData(b)
  <2>1. drv.pc = "write" /\ Edge(acc) /\ drv' = [drv EXCEPT !.pc = "poll"]
    BY <1>1 DEF DrvWrite
  <2>2. tx.state = "TX_IDLE" /\ drv.mask = drv.lock
    BY <2>1 DEF DrvInv, Talking
  <2>3. b \in Byte
    BY Ps2BoardAssumption DEF DrvRec
  <2> HIDE DEF b
  <2>4. Access(acc) /\ acc.op = "TXDATA" /\ acc.byte = b
    BY <2>3, Accesses
  <2>5. FALSE \in BOOLEAN /\ Edged(acc, FALSE)
    BY <2>1 DEF Edge, Edged
  <2>6. TxMove(acc, FALSE)
    BY <2>4, <2>5, EdgeMoves DEF BoardInv
  <2>7. tx'.data = b
    BY <2>2, <2>4, <2>6 DEF TxMove
  <2>8. drv'.pc = "poll" /\ drv'.mask = drv.mask /\ drv'.lock = drv.lock /\ drv'.cmd = drv.cmd
    BY <2>1 DEF DrvRec
  <2>9. drv.cmd = 2 => b = LOCK_MASK[drv.mask]
    BY DEF b
  <2> QED
    BY <2>2, <2>7, <2>8, <2>9 DEF DrvInv, Talking
<1>2. CASE drv' = drv /\ ~DrvWrite
  BY <1>2, DrvInvElse
<1>3. CASE DrvAccess /\ ~DrvWrite
  <2>1. /\ tx'.data = tx.data /\ (tx.state = "TX_IDLE" => tx'.state = "TX_IDLE") /\ kb' = kb
    BY <1>3, TxBetween DEF DrvAccess, DrvClear, DrvBusy, DrvPoll, DrvReady, DrvData, Edge
  <2>2. CASE DrvClear
    <3>1. drv.pc = "clear" /\ drv' = [drv EXCEPT !.pc = "busy"]
      BY <2>2 DEF DrvClear
    <3>2. drv'.pc = "busy" /\ drv'.mask = drv.mask /\ drv'.lock = drv.lock
      BY <3>1 DEF DrvRec
    <3> QED
      BY <3>1, <3>2 DEF DrvInv, Talking
  <2>3. ASSUME NEW d \in DrvRec, NEW sent \in BOOLEAN, drv' = AfterSend(d, sent),
               Talking, d.lock = drv.lock, d.mask = drv.mask, d.cmd = drv.cmd,
               sent => /\ drv.pc = "poll" /\ tx.resp_valid /\ d.resp = tx.resp
        PROVE  DrvInv'
    <3>1. /\ drv'.lock = d.lock
          /\ \/ drv'.pc = "clear" /\ drv'.mask = d.mask
             \/ drv'.pc = "ready" /\ drv'.last = d.lock /\ drv'.ret = -1
             \/ /\ drv'.pc = "ready" /\ drv'.last = d.lock
                /\ sent /\ d.resp = PS2_RESP_ACK /\ d.cmd = 2
      BY <2>3, AfterSendIs
    <3>2. drv.mask = drv.lock
      BY <2>3 DEF DrvInv
    <3>3. ASSUME sent, d.resp = PS2_RESP_ACK, d.cmd = 2
          PROVE  tx.state = "TX_IDLE" /\ kb.leds = LOCK_MASK[drv.lock]
      <4>1. tx.state = "TX_IDLE" /\ kb.last = <<tx.data, PS2_RESP_ACK>>
        BY <2>3, <3>3 DEF BoardInv, Reply
      <4>2. tx.data = LOCK_MASK[drv.lock]
        BY <2>3, <3>2, <3>3 DEF DrvInv
      <4>3. tx.data # CMD_SET_LEDS
        <5>1. drv.lock \in BOOLEAN
          BY DEF DrvRec
        <5> QED
          BY <4>2, <5>1, Ps2BoardAssumption
      <4>4. kb.last[1] = tx.data /\ kb.last[2] = PS2_RESP_ACK /\ kb.last # << >>
        BY <4>1
      <4> QED
        BY <4>1, <4>2, <4>3, <4>4 DEF LedsInv
    <3> QED
      BY <2>1, <2>3, <3>1, <3>2, <3>3 DEF DrvInv, Talking
  <2>4. CASE DrvBusy /\ drv' # drv
    <3>1. /\ drv.pc = "busy"
          /\ \/ tx.state = "TX_IDLE" /\ drv' = [drv EXCEPT !.pc = "write"]
             \/ drv' = AfterSend(drv, FALSE)
      BY <2>4 DEF DrvBusy
    <3>2. CASE tx.state = "TX_IDLE" /\ drv' = [drv EXCEPT !.pc = "write"]
      <4>1. drv'.pc = "write" /\ drv'.mask = drv.mask /\ drv'.lock = drv.lock
        BY <3>2 DEF DrvRec
      <4> QED
        BY <2>1, <3>1, <3>2, <4>1 DEF DrvInv, Talking
    <3>3. CASE drv' = AfterSend(drv, FALSE)
      BY <2>3, <3>1, <3>3 DEF Talking
    <3> QED
      BY <3>1, <3>2, <3>3
  <2>5. CASE DrvPoll /\ drv' # drv
    <3> DEFINE d == [drv EXCEPT !.resp = tx.resp]
               sent == ~tx.error /\ tx.resp_valid
    <3>1. drv.pc = "poll" /\ (drv' = AfterSend(d, sent) \/ drv' = AfterSend(drv, FALSE))
      BY <2>5 DEF DrvPoll
    <3>2. /\ d \in DrvRec /\ d.lock = drv.lock /\ d.mask = drv.mask /\ d.cmd = drv.cmd
          /\ d.resp = tx.resp
      <4>1. tx.resp \in Byte
        BY LevelsTyped DEF BoardInv
      <4> QED
        BY <4>1 DEF DrvRec
    <3>3. sent \in BOOLEAN /\ (sent => tx.resp_valid)
      BY Zenon
    <3> HIDE DEF d, sent
    <3>4. CASE drv' = AfterSend(d, sent)
      BY <2>3, <3>1, <3>2, <3>3, <3>4 DEF Talking
    <3>5. CASE drv' = AfterSend(drv, FALSE)
      BY <2>3, <3>1, <3>5 DEF Talking
    <3> QED
      BY <3>1, <3>4, <3>5
  <2>6. CASE DrvReady /\ drv' # drv
    <3>1. drv.pc = "ready" /\ drv' = [drv EXCEPT !.pc = "data"]
      BY <2>6 DEF DrvReady
    <3>2. /\ drv'.pc = "data" /\ drv'.last = drv.last /\ drv'.lock = drv.lock /\ drv'.ret = drv.ret
      BY <3>1 DEF DrvRec
    <3> QED
      BY <2>1, <3>1, <3>2 DEF DrvInv, Talking
  <2>7. CASE DrvData
    <3> DEFINE lock == IF Rd_byte = SCAN_CAPS THEN ~drv.lock ELSE drv.lock
               seen == [drv EXCEPT !.pc = "ready", !.lock = lock]
    <3>1. drv.pc = "data" /\ drv' = IF lock # drv.last THEN StartSync(seen) ELSE seen
      BY <2>7 DEF DrvData
    <3> HIDE DEF lock
    <3>2. /\ seen.pc = "ready" /\ seen.lock = lock /\ seen.last = drv.last /\ seen.ret = drv.ret
      BY DEF DrvRec
    <3>3. StartSync(seen).pc = "clear" /\ StartSync(seen).mask = lock /\ StartSync(seen).lock = lock
      <4> SUFFICES ASSUME NEW s, s = seen
                   PROVE  StartSync(s).pc = "clear" /\ StartSync(s).mask = lock /\ StartSync(s).lock = lock
        OBVIOUS
      <4> QED
        BY <3>2 DEF StartSync, DrvRec
    <3> HIDE DEF seen
    <3>4. CASE lock # drv.last
      <4>1. drv' = StartSync(seen)
        BY <3>1, <3>4
      <4> QED
        BY <3>3, <4>1 DEF DrvInv, Talking
    <3>5. CASE lock = drv.last
      <4>1. drv' = seen
        BY <3>1, <3>5
      <4>2. drv.last = drv.lock
        BY <3>1 DEF DrvInv, Talking
      <4> QED
        BY <2>1, <3>1, <3>2, <3>5, <4>1, <4>2 DEF DrvInv, Talking
    <3> QED
      BY <3>4, <3>5
  <2> QED
    BY <1>2, <1>3, <2>2, <2>4, <2>5, <2>6, <2>7 DEF DrvAccess
<1> QED
  BY <1>1, <1>2, <1>3 DEF Next, vars, NoAccessEdge, Expire, KbMoves, KbStart, KbAbort, KbRequest,
     KbFall, KbRise, KbAnswer, KbPress, KbDie, Kb, DrvAccess, DrvWrite

LEMMA DriverInit == Init => LedsInv /\ DrvInv
<1> SUFFICES ASSUME Init PROVE LedsInv /\ DrvInv
  OBVIOUS
<1>1. /\ kb.last = << >> /\ drv.pc = "clear" /\ drv.mask = FALSE /\ drv.lock = FALSE
  BY DEF Init, KbInit, DrvInit
<1> QED
  BY <1>1 DEF LedsInv, DrvInv, Talking

\* The LEDs show the byte last acknowledged, and what the driver has
\* noted of it stays true between its accesses.
THEOREM DriverAlways == ASSUME SetupSettles PROVE Spec => [](LedsInv /\ DrvInv)
<1>1. /\ BoardInv /\ drv \in DrvRec /\ LedsInv /\ DrvInv /\ [Next]_vars
         => LedsInv' /\ DrvInv'
  BY LedsStep, DrvInvStep
<1> QED
  BY <1>1, BoardAlways, DriverInit, PTL DEF Spec

-----------------------------------------------------------------------------
(***************************************************************************)
(* The theorems.                                                           *)
(***************************************************************************)

LEMMA StillTyped == CtrlType /\ UNCHANGED ctrlVars => CtrlType'
BY MoveKeeps

LEMMA EdgeTyped ==
  ASSUME CtrlType, NEW acc, Access(acc), NEW expired \in BOOLEAN, CtrlEdge(Clk, Dat, acc, expired)
  PROVE  CtrlType'
<1>1. Clk \in BOOLEAN /\ Dat \in BOOLEAN
  BY LevelsTyped
<1> QED
  BY <1>1, CtrlTyped

LEMMA TypeStep ==
  ASSUME CtrlType, drv \in DrvRec, [Next]_vars
  PROVE  CtrlType'
<1>1. CASE NoAccessEdge \/ DrvClear \/ DrvBusy \/ DrvPoll \/ DrvReady \/ DrvData
  <2>1. \E acc \in {NoAccess, ReadData, ReadStat, ClearStat} : Edge(acc)
    BY <1>1 DEF NoAccessEdge, DrvClear, DrvBusy, DrvPoll, DrvReady, DrvData
  <2>2. PICK acc \in {NoAccess, ReadData, ReadStat, ClearStat} : Edge(acc)
    BY <2>1
  <2>3. Access(acc) /\ FALSE \in BOOLEAN
    BY Accesses
  <2> QED
    BY <2>2, <2>3, EdgeTyped DEF Edge
<1>2. CASE DrvWrite
  <2> DEFINE b == IF drv.cmd = 1 THEN CMD_SET_LEDS ELSE LOCK_MASK[drv.mask]
  <2>1. CtrlEdge(Clk, Dat, TxData(b), FALSE)
    BY <1>2 DEF DrvWrite, Edge
  <2>2. b \in Byte
    BY Ps2BoardAssumption DEF DrvRec
  <2> HIDE DEF b
  <2>3. Access(TxData(b)) /\ FALSE \in BOOLEAN
    BY <2>2, Accesses
  <2> QED
    BY <2>1, <2>3, EdgeTyped
<1>3. CASE Expire
  <2>1. CtrlEdge(Clk, Dat, NoAccess, TRUE)
    BY <1>3 DEF Expire
  <2>2. Access(NoAccess) /\ TRUE \in BOOLEAN
    BY Accesses
  <2> QED
    BY <2>1, <2>2, EdgeTyped
<1>4. CASE KbMoves \/ KbPress \/ KbDie \/ UNCHANGED vars
  <2>1. UNCHANGED ctrlVars
    BY <1>4 DEF vars, KbMoves, KbStart, KbAbort, KbRequest, KbFall, KbRise, KbAnswer, KbPress, KbDie, Kb
  <2> QED
    BY <2>1, StillTyped
<1> QED
  BY <1>1, <1>2, <1>3, <1>4 DEF Next, DrvAccess

\* The FIFO of ps2_controller.vhd never holds more than it has room for, its
\* pointers and the transmitter's counters stay in range, and a byte is taken
\* from the shift register only when all its bits are in.
THEOREM TypeCorrect == Spec => []TypeOK
<1>1. Init => CtrlType /\ drv \in DrvRec
  BY BoardInit DEF BoardInv
<1>2. CtrlType /\ drv \in DrvRec /\ [Next]_vars => (CtrlType /\ drv \in DrvRec)'
  BY TypeStep, DrvTyped
<1>3. CtrlType /\ drv \in DrvRec => TypeOK
  BY TypeIs
<1> QED
  BY <1>1, <1>2, <1>3, PTL DEF Spec

\* The receiver of ps2_receiver.vhd reports the keyboard's bytes and nothing else,
\* for every length of a byte, and whatever the host does on the lines meanwhile.
THEOREM ReceivesExactly == ASSUME SetupSettles PROVE Spec => []RxExact
<1>1. BoardInv => RxExact
  BY DEF BoardInv, SendFrame, RxStill, RxReset, RxExact
<1> QED
  BY <1>1, BoardAlways, PTL

\* A frame the host cuts off leaves nothing behind in the receiver: rx_enable
\* puts it back to the start bit.
THEOREM ReceiverAligned == ASSUME SetupSettles PROVE Spec => []RxAligned
<1>1. BoardInv => RxAligned
  BY DEF BoardInv, RxStill, RxReset, RxAligned
<1> QED
  BY <1>1, BoardAlways, PTL

\* The frame the transmitter puts on the data line is the one the keyboard
\* samples: the byte in the TXDATA register, its parity and its stop bit.
THEOREM CommandSafe == ASSUME SetupSettles PROVE Spec => []CommandDelivered
<1>1. ASSUME BoardInv
      PROVE  CommandDelivered
  <2> SUFFICES ASSUME kb.st = "receive"
               PROVE  /\ tx.state \in {"TX_SEND", "TX_WAIT_RESP"}
                      /\ kb.got = SubSeq(FrameOf(tx.data), 1, Len(kb.got))
    BY DEF CommandDelivered
  <2>1. /\ tx.state \in {"TX_SEND", "TX_WAIT_RESP"}
        /\ Len(kb.got) = IF kb.low THEN kb.bit - 1 ELSE kb.bit
        /\ \A i \in 1 .. Len(kb.got) : kb.got[i] = BitsOf(tx.data)[i]
        /\ ~kb.low => kb.bit <= STOP
    BY <1>1 DEF BoardInv, ReceiveCmd
  <2>2. kb.got \in Seq(BOOLEAN) /\ tx.data \in Byte /\ kb.bit \in 0 .. STOP + 1
    BY <1>1, LevelsTyped DEF BoardInv, KbType, KbRec
  <2>3. Len(kb.got) <= STOP
    BY <2>1, <2>2, Sizes
  <2> QED
    BY <2>1, <2>2, <2>3, FrameStart
<1> QED
  BY <1>1, BoardAlways, PTL

\* The response the software reads is the answer to its own last byte.
THEOREM ResponseSafe == ASSUME SetupSettles PROVE Spec => []ResponseIsReply
<1>1. BoardInv => ResponseIsReply
  BY DEF BoardInv, Reply, ResponseIsReply
<1> QED
  BY <1>1, BoardAlways, PTL

\* After a ps2_sync_leds that returned 0 the LEDs show the locks.
THEOREM LedsSafe == ASSUME SetupSettles PROVE Spec => []LedsSet
<1>1. DrvInv => LedsSet
  BY DEF DrvInv, Talking, LedsSet
<1> QED
  BY <1>1, DriverAlways, PTL
====
