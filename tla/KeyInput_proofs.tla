-------------------------- MODULE KeyInput_proofs --------------------------
(***************************************************************************)
(* Keys on their way to the queue: the automaton of the boot sequence, the *)
(* decoders that share the bytes of the keyboard, and the characters of    *)
(* the terminal, for any keys, any number of them and any timing.          *)
(***************************************************************************)
EXTENDS KeyInput, SequenceTheorems, TLAPS

-----------------------------------------------------------------------------
(***************************************************************************)
(* The boot sequence.                                                      *)
(***************************************************************************)
LEMMA BootSequence ==
  /\ soft_boot_seq \in Seq(Int) /\ Len(soft_boot_seq) = 6
  /\ soft_boot_seq[1] = 0 /\ soft_boot_seq[6] = 0
  /\ \A i \in 2 .. 5 : soft_boot_seq[i] # 0
  /\ \A i \in 1 .. 6 : soft_boot_seq[i] \in Int
BY DEF soft_boot_seq

\* The last n bytes of s are the first n of the sequence.
Ends(s, n) == n <= Len(s) /\ \A i \in 1 .. n : soft_boot_seq[i] = s[Len(s) - n + i]

LEMMA StartOf ==
  ASSUME NEW s \in Seq(Int), NEW n \in 0 .. Len(s)
  PROVE  /\ SubSeq(s, 1, n) \in Seq(Int) /\ Len(SubSeq(s, 1, n)) = n
         /\ \A i \in 1 .. n : SubSeq(s, 1, n)[i] = s[i]
OBVIOUS

LEMMA EndsIsMatched ==
  ASSUME NEW s \in Seq(Int), NEW n \in 0 .. 6
  PROVE  (n <= Len(s) /\ SubSeq(soft_boot_seq, 1, n) = SubSeq(s, Len(s) - n + 1, Len(s)))
           <=> Ends(s, n)
<1> SUFFICES ASSUME n <= Len(s)
             PROVE  SubSeq(soft_boot_seq, 1, n) = SubSeq(s, Len(s) - n + 1, Len(s))
                      <=> \A i \in 1 .. n : soft_boot_seq[i] = s[Len(s) - n + i]
  BY DEF Ends
<1> DEFINE a == SubSeq(soft_boot_seq, 1, n)
           b == SubSeq(s, Len(s) - n + 1, Len(s))
<1>1. a \in Seq(Int) /\ Len(a) = n /\ \A i \in 1 .. n : a[i] = soft_boot_seq[i]
  BY BootSequence, StartOf
<1>2. b \in Seq(Int) /\ Len(b) = n /\ \A i \in 1 .. n : b[i] = s[Len(s) - n + i]
  <2> DEFINE m == Len(s) - n + 1
  <2>1. m \in 1 .. Len(s) + 1 /\ Len(s) \in m - 1 .. Len(s) /\ Len(s) - m + 1 = n
    OBVIOUS
  <2>2. /\ b \in Seq(Int) /\ Len(b) = (IF m <= Len(s) THEN Len(s) - m + 1 ELSE 0)
        /\ \A i \in 1 .. Len(s) - m + 1 : b[i] = s[m + i - 1]
    BY <2>1, SubSeqProperties
  <2> HIDE DEF b
  <2>3. Len(b) = n
    BY <2>1, <2>2
  <2>4. ASSUME NEW i \in 1 .. n PROVE b[i] = s[Len(s) - n + i]
    <3>1. m + i - 1 = Len(s) - n + i
      OBVIOUS
    <3> HIDE DEF m
    <3> QED
      BY <2>1, <2>2, <3>1
  <2> QED
    BY <2>2, <2>3, <2>4
<1>3. a = b <=> \A i \in 1 .. n : a[i] = b[i]
  BY <1>1, <1>2, SeqEqual
<1> HIDE DEF a, b
<1> QED
  BY <1>1, <1>2, <1>3 DEF a, b

\* One byte more.
Shifted(s, byte) == SubSeq(s \o <<byte>>, IF Len(s) = 6 THEN 2 ELSE 1, Len(s) + 1)

LEMMA ShiftedEnds ==
  ASSUME NEW s \in Seq(Int), Len(s) <= 6, NEW byte \in Int
  PROVE  /\ Shifted(s, byte) \in Seq(Int) /\ Len(Shifted(s, byte)) <= 6
         /\ Ends(Shifted(s, byte), 0)
         /\ \A n \in 0 .. 5 : Ends(Shifted(s, byte), n + 1)
                                <=> Ends(s, n) /\ soft_boot_seq[n + 1] = byte
<1> DEFINE t == Shifted(s, byte)
           c == s \o <<byte>>
<1>1. c \in Seq(Int) /\ Len(c) = Len(s) + 1 /\ c[Len(s) + 1] = byte
      /\ \A i \in 1 .. Len(s) : c[i] = s[i]
  OBVIOUS
<1>2. /\ t \in Seq(Int) /\ Len(t) = (IF Len(s) = 6 THEN 6 ELSE Len(s) + 1)
      /\ \A j \in 0 .. Len(t) - 1 : t[Len(t) - j] = c[Len(c) - j]
  <2> HIDE DEF c
  <2>1. CASE Len(s) = 6
    BY <1>1, <2>1, SMTT(60) DEF Shifted, c
  <2>2. CASE Len(s) # 6
    BY <1>1, <2>2, SMTT(60) DEF Shifted, c
  <2> QED
    BY <2>1, <2>2
<1> HIDE DEF t, c
<1>21. Len(t) \in Nat /\ Len(t) <= 6
  <2>0. Len(s) \in Nat
    OBVIOUS
  <2>a. \A n \in Nat : n <= 6 => n = 6 \/ n + 1 <= 6
    OBVIOUS
  <2>1. Len(s) = 6 \/ Len(s) + 1 <= 6
    BY <2>0, <2>a
  <2>2. CASE Len(s) = 6
    BY <2>0, <2>2, <1>2
  <2>3. CASE Len(s) # 6
    BY <2>0, <2>1, <2>3, <1>2
  <2> QED
    BY <2>2, <2>3
<1>22. Ends(t, 0)
  BY <1>21 DEF Ends
<1>3. t[Len(t)] = byte /\ \A j \in 1 .. Len(t) - 1 : t[Len(t) - j] = s[Len(s) - j + 1]
  <2>1. t[Len(t) - 0] = c[Len(c) - 0]
    <3>1. 0 \in 0 .. Len(t) - 1
      BY <1>2
    <3> QED
      BY <3>1, <1>2
  <2>2. ASSUME NEW j \in 1 .. Len(t) - 1 PROVE t[Len(t) - j] = s[Len(s) - j + 1]
    <3>0. j \in 0 .. Len(t) - 1
      BY <1>2
    <3>1. t[Len(t) - j] = c[Len(c) - j]
      BY <3>0, <1>2
    <3>2. Len(s) - j + 1 \in 1 .. Len(s) /\ Len(c) - j = Len(s) - j + 1
      BY <1>1, <1>2
    <3> QED
      BY <3>1, <3>2, <1>1
  <2> QED
    BY <1>1, <1>2, <2>1, <2>2
<1>4. ASSUME NEW n \in 0 .. 5
      PROVE  Ends(t, n + 1) <=> Ends(s, n) /\ soft_boot_seq[n + 1] = byte
  <2>1. ASSUME Ends(t, n + 1) PROVE Ends(s, n) /\ soft_boot_seq[n + 1] = byte
    <3>0. n + 1 \in 1 .. n + 1 /\ Len(t) - (n + 1) + (n + 1) = Len(t)
      BY <1>21
    <3>1. n <= Len(s) /\ soft_boot_seq[n + 1] = t[Len(t)]
      BY <2>1, <1>2, <3>0 DEF Ends
    <3>2. ASSUME NEW i \in 1 .. n PROVE soft_boot_seq[i] = s[Len(s) - n + i]
      <4>1. soft_boot_seq[i] = t[Len(t) - (n + 1) + i]
        BY <2>1 DEF Ends
      <4>2. n + 1 - i \in 1 .. Len(t) - 1
        BY <2>1, <1>2 DEF Ends
      <4>3. t[Len(t) - (n + 1 - i)] = s[Len(s) - (n + 1 - i) + 1]
        BY <4>2, <1>3
      <4> QED
        BY <4>1, <4>3, <1>2
    <3> QED
      BY <3>1, <3>2, <1>2, <1>3 DEF Ends
  <2>2. ASSUME Ends(s, n), soft_boot_seq[n + 1] = byte PROVE Ends(t, n + 1)
    <3>1. n + 1 <= Len(t)
      BY <2>2, <1>2 DEF Ends
    <3>2. ASSUME NEW i \in 1 .. n + 1 PROVE soft_boot_seq[i] = t[Len(t) - (n + 1) + i]
      <4>1. CASE i = n + 1
        <5>1. Len(t) - (n + 1) + i = Len(t)
          BY <4>1, <1>21
        <5> QED
          BY <4>1, <5>1, <2>2, <1>3
      <4>2. CASE i # n + 1
        <5>1. n + 1 - i \in 1 .. Len(t) - 1
          BY <4>2, <3>1, <1>2
        <5>2. t[Len(t) - (n + 1 - i)] = s[Len(s) - (n + 1 - i) + 1]
          BY <5>1, <1>3
        <5>3. soft_boot_seq[i] = s[Len(s) - n + i]
          BY <4>2, <2>2 DEF Ends
        <5> QED
          BY <5>2, <5>3, <1>2
      <4> QED
        BY <4>1, <4>2
    <3> QED
      BY <3>1, <3>2 DEF Ends
  <2> QED
    BY <2>1, <2>2
<1> QED
  BY <1>2, <1>21, <1>22, <1>4 DEF t

\* Of the sequence, no more than the empty part is both a start and an end of
\* a longer part that falls short of the whole.
LEMMA Borders ==
  ASSUME NEW s \in Seq(Int), NEW n \in 0 .. 5, NEW m \in 1 .. 5, Ends(s, n), Ends(s, m), m <= n
  PROVE  m = n
<1>1. soft_boot_seq[1] = s[Len(s) - m + 1]
  BY DEF Ends
<1>2. n - m + 1 \in 1 .. n /\ soft_boot_seq[n - m + 1] = s[Len(s) - n + (n - m + 1)]
  BY DEF Ends
<1>0. Len(s) - n + (n - m + 1) = Len(s) - m + 1
  OBVIOUS
<1>3. soft_boot_seq[n - m + 1] = 0
  BY <1>0, <1>1, <1>2, BootSequence
<1> QED
  BY <1>2, <1>3, BootSequence

\* A byte on its way from the terminal, with the key it belongs to.
UartByte == [byte : Int, key : UART_KEYS, pos : Nat]

\* What the automaton knows of the last bytes.
BootInv ==
  /\ line \in Seq(UartByte) /\ uart_rx \in Seq(UartByte) /\ raw \in Seq(Int) /\ Len(raw) <= 6
  /\ pc = "boot" => Ends(raw, 6)
  /\ pc # "boot" => /\ soft_boot_state \in 0 .. 5 /\ Ends(raw, soft_boot_state)
                    /\ \A n \in soft_boot_state + 1 .. 6 : ~Ends(raw, n)

LEMMA BootInvExact == BootInv => BootExactly
<1> SUFFICES ASSUME BootInv PROVE BootExactly
  OBVIOUS
<1> DEFINE matched == {n \in 0..6 : n <= Len(raw) /\ SubSeq(soft_boot_seq, 1, n)
                                                  = SubSeq(raw, Len(raw) - n + 1, Len(raw))}
<1>1. \A n \in 0 .. 6 : n \in matched <=> Ends(raw, n)
  BY EndsIsMatched DEF BootInv
<1>2. \A n \in matched : n \in 0 .. 6
  OBVIOUS
<1>3. BootExactly <=> IF pc = "boot" THEN 6 \in matched
                      ELSE 6 \notin matched /\ soft_boot_state \in matched
                           /\ \A n \in matched : n <= soft_boot_state
  BY DEF BootExactly
<1> HIDE DEF matched
<1>4. CASE pc = "boot"
  BY <1>1, <1>3, <1>4 DEF BootInv
<1>5. CASE pc # "boot"
  <2>1. 6 \notin matched /\ soft_boot_state \in matched
    BY <1>1, <1>5 DEF BootInv
  <2>2. ASSUME NEW n \in matched PROVE n <= soft_boot_state
    <3>1. n \in 0 .. 6 /\ Ends(raw, n) /\ soft_boot_state \in 0 .. 5
      BY <1>1, <1>2, <1>5 DEF BootInv
    <3>2. ~(n \in soft_boot_state + 1 .. 6)
      BY <3>1, <1>5 DEF BootInv
    <3> QED
      BY <3>1, <3>2
  <2> QED
    BY <1>3, <1>5, <2>1, <2>2
<1> QED
  BY <1>4, <1>5

\* One byte.
LEMMA FeedKeepsExact ==
  ASSUME NEW byte \in Int, BootInv, pc # "boot",
         NEW r, r = Shifted(raw, byte)
  PROVE  /\ r \in Seq(Int) /\ Len(r) <= 6
         /\ soft_boot_seq_feed(byte) \in 0 .. 6
         /\ Ends(r, soft_boot_seq_feed(byte))
         /\ \A n \in soft_boot_seq_feed(byte) + 1 .. 6 : ~Ends(r, n)
<1> DEFINE st == soft_boot_state
           f  == soft_boot_seq_feed(byte)
<1>1. st \in 0 .. 5 /\ Ends(raw, st) /\ \A n \in st + 1 .. 6 : ~Ends(raw, n)
  BY DEF BootInv
<1>2. raw \in Seq(Int) /\ Len(raw) <= 6
  BY DEF BootInv
<1>3. /\ r \in Seq(Int) /\ Len(r) <= 6 /\ Ends(r, 0)
      /\ \A n \in 0 .. 5 : Ends(r, n + 1) <=> Ends(raw, n) /\ soft_boot_seq[n + 1] = byte
  BY <1>2, ShiftedEnds
<1>4. f = IF byte = soft_boot_seq[st + 1] THEN st + 1
          ELSE IF byte = 0 THEN 1 ELSE 0
  BY BootSequence DEF soft_boot_seq_feed
<1>5. Ends(raw, 0)
  BY <1>2 DEF Ends
<1>6. \A n \in 1 .. 5 : Ends(raw, n) => n = st
  <2> SUFFICES ASSUME NEW n \in 1 .. 5, Ends(raw, n) PROVE n = st
    OBVIOUS
  <2>1. n <= st
    BY <1>1
  <2> QED
    BY <1>1, <1>2, <2>1, Borders
<1> HIDE DEF st, f
<1>7. ASSUME NEW k \in 1 .. 6 
      PROVE  Ends(r, k) <=> (k = 1 \/ k - 1 = st) /\ soft_boot_seq[k] = byte
  <2>1. k - 1 \in 0 .. 5 /\ (k - 1) + 1 = k
    OBVIOUS
  <2>2. Ends(r, (k - 1) + 1) <=> Ends(raw, k - 1) /\ soft_boot_seq[(k - 1) + 1] = byte
    BY <1>3, <2>1
  <2>3. Ends(r, k) <=> Ends(raw, k - 1) /\ soft_boot_seq[k] = byte
    BY <2>1, <2>2
  <2>4. Ends(raw, k - 1) <=> (k = 1 \/ k - 1 = st)
    BY <1>1, <1>5, <1>6, <2>1
  <2> QED
    BY <2>3, <2>4
<1>8. CASE byte = soft_boot_seq[st + 1]
  <2>1. f = st + 1 /\ f \in 1 .. 6
    BY <1>1, <1>4, <1>8
  <2>2. Ends(r, f)
    BY <1>7, <1>8, <2>1, <1>1
  <2>3. \A k \in f + 1 .. 6 : ~Ends(r, k)
    BY <1>7, <2>1, <1>1
  <2> QED
    BY <1>3, <2>1, <2>2, <2>3 DEF f
<1>9. CASE byte # soft_boot_seq[st + 1] /\ byte = 0
  <2>1. f = 1
    BY <1>4, <1>9
  <2>2. Ends(r, 1)
    BY <1>7, <1>9, BootSequence
  <2>3. \A k \in 2 .. 6 : ~Ends(r, k)
    BY <1>7, <1>9, <1>1
  <2> QED
    BY <1>3, <2>1, <2>2, <2>3 DEF f
<1>10. CASE byte # soft_boot_seq[st + 1] /\ byte # 0
  <2>1. f = 0
    BY <1>4, <1>10
  <2>3. \A k \in 1 .. 6 : ~Ends(r, k)
    BY <1>7, <1>10, <1>1, BootSequence
  <2> QED
    BY <1>3, <2>1, <2>3 DEF f
<1> QED
  BY <1>8, <1>9, <1>10
-----------------------------------------------------------------------------
\* A step that is given no byte of the terminal.
LEMMA BootInvElse ==
  ASSUME BootInv, line' \in Seq(UartByte), uart_rx' \in Seq(UartByte), raw' = raw,
         soft_boot_state' = soft_boot_state, (pc = "boot") <=> (pc' = "boot")
  PROVE  BootInv'
BY DEF BootInv, Ends

LEMMA Encodings ==
  \A k \in UART_KEYS : Encoding[k] \in Seq(Int)
<1>1. DOMAIN Encoding = {"up", "f1", "f10", "esc", "nul", "B", "O", "dump", "boot"}
  BY DEF Encoding
<1>2. /\ Encoding["up"] = <<27, 91, 65>> /\ Encoding["f1"] = <<27, 79, 80>>
      /\ Encoding["f10"] = <<27, 91, 50, 49, 126>> /\ Encoding["esc"] = <<27>>
      /\ Encoding["nul"] = <<0>> /\ Encoding["B"] = <<66>> /\ Encoding["O"] = <<79>>
      /\ Encoding["dump"] = <<20>> /\ Encoding["boot"] = soft_boot_seq
  BY DEF Encoding
<1>3. \A k \in DOMAIN Encoding : Encoding[k] \in Seq(Int)
  <2>1. /\ <<27, 91, 65>> \in Seq(Int) /\ <<27, 79, 80>> \in Seq(Int)
        /\ <<27, 91, 50, 49, 126>> \in Seq(Int) /\ <<27>> \in Seq(Int) /\ <<0>> \in Seq(Int)
        /\ <<66>> \in Seq(Int) /\ <<79>> \in Seq(Int) /\ <<20>> \in Seq(Int)
    OBVIOUS
  <2>2. \A k \in DOMAIN Encoding :
          Encoding[k] \in {<<27, 91, 65>>, <<27, 79, 80>>, <<27, 91, 50, 49, 126>>, <<27>>,
                           <<0>>, <<66>>, <<79>>, <<20>>, soft_boot_seq}
    BY <1>1, <1>2
  <2> QED
    BY <2>1, <2>2, BootSequence
<1> QED
  BY <1>3, KeysAssumption

\* The bytes of a key.
KeyBytesOf(k) == [i \in 1 .. Len(Encoding[k]) |-> [byte |-> Encoding[k][i], key |-> k, pos |-> i]]

LEMMA KeyBytesTyped ==
  ASSUME NEW k \in UART_KEYS
  PROVE  /\ KeyBytesOf(k) \in Seq(UartByte) /\ Len(KeyBytesOf(k)) = Len(Encoding[k])
         /\ \A i \in 1 .. Len(Encoding[k]) :
              KeyBytesOf(k)[i] = [byte |-> Encoding[k][i], key |-> k, pos |-> i]
<1>1. Len(Encoding[k]) \in Nat /\ \A i \in 1 .. Len(Encoding[k]) : Encoding[k][i] \in Int
  BY Encodings
<1>2. \A i \in 1 .. Len(Encoding[k]) : [byte |-> Encoding[k][i], key |-> k, pos |-> i] \in UartByte
  BY <1>1 DEF UartByte
<1> QED
  BY <1>1, <1>2 DEF KeyBytesOf

LEMMA BootInvStep == BootInv /\ [Next]_vars => BootInv'
<1> SUFFICES ASSUME BootInv, [Next]_vars PROVE BootInv'
  OBVIOUS
<1> USE DEF filter, csi, decoders, program, terminal, keyboard, history, events
<1>0. line \in Seq(UartByte) /\ uart_rx \in Seq(UartByte)
  BY DEF BootInv
<1>1. ASSUME NEW k \in UART_KEYS, Type(k) PROVE BootInv'
  <2>1. line' = KeyBytesOf(k)
    BY <1>1 DEF Type, KeyBytesOf
  <2> QED
    BY <1>1, <1>0, <2>1, BootInvElse, KeyBytesTyped DEF Type
<1>2. CASE Uart_byte
  <2>1. Head(line) \in UartByte /\ Tail(line) \in Seq(UartByte)
    BY <1>0, <1>2 DEF Uart_byte
  <2> QED
    BY <1>2, <1>0, <2>1, BootInvElse DEF Uart_byte
<1>3. ASSUME NEW k \in PS2_KEYS, Press(k) \/ Release(k) PROVE BootInv'
  BY <1>3, <1>0, BootInvElse DEF Press, Release
<1>4. CASE Esc_timeout
  BY <1>4, <1>0, BootInvElse DEF Esc_timeout, Queue
<1>5. CASE No_byte
  BY <1>5, <1>0, BootInvElse DEF No_byte
<1>6. CASE Byte
  <2> DEFINE byte == Head(uart_rx).byte
             f == soft_boot_seq_feed(byte)
  <2>1. byte \in Int /\ uart_rx' \in Seq(UartByte) /\ line' \in Seq(UartByte) /\ pc # "boot"
    <3>1. Head(uart_rx) \in UartByte /\ Tail(uart_rx) \in Seq(UartByte)
      BY <1>6, <1>0 DEF Byte
    <3> QED
      BY <1>6, <1>0, <3>1 DEF Byte, UartByte
  <2>2. raw' = Shifted(raw, byte)
    BY <1>6 DEF Byte, Shifted
  <2>3. /\ raw' \in Seq(Int) /\ Len(raw') <= 6
        /\ f \in 0 .. 6 /\ Ends(raw', f) /\ \A n \in f + 1 .. 6 : ~Ends(raw', n)
    BY <2>1, <2>2, FeedKeepsExact
  <2>4. IF f = 6 THEN pc' = "boot" ELSE soft_boot_state' = f /\ pc' \in {"tick", "ps2"}
    BY <1>6 DEF Byte, Byte_escape, Byte_after_escape, Byte_in_csi, Byte_in_ss3, Byte_plain
  <2> HIDE DEF f, byte
  <2>5. CASE f = 6
    <3>1. pc' = "boot" /\ Ends(raw', 6)
      BY <2>3, <2>4, <2>5
    <3> QED
      BY <2>1, <2>3, <3>1 DEF BootInv, Ends
  <2>6. CASE f # 6
    <3>1. pc' # "boot" /\ soft_boot_state' = f /\ f \in 0 .. 5
      BY <2>3, <2>4, <2>6
    <3> QED
      BY <2>1, <2>3, <3>1 DEF BootInv, Ends
  <2> QED
    BY <2>5, <2>6
<1>7. CASE Ps2_enter
  BY <1>7, <1>0, BootInvElse DEF Ps2_enter
<1>8. CASE Ps2_ready \/ Ps2_byte \/ Ps2_nothing
  BY <1>8, <1>0, BootInvElse DEF Ps2_ready, Ps2_byte, Ps2_nothing
<1>9. CASE Pass_end
  BY <1>9, <1>0, BootInvElse DEF Pass_end
<1>10. ASSUME NEW p \in {"ps2", "twm"}, Launch(p) PROVE BootInv'
  BY <1>10, <1>0, BootInvElse DEF Launch
<1>11. CASE Program_init
  BY <1>11, <1>0, BootInvElse DEF Program_init
<1>12. CASE Monitor_byte
  BY <1>12, <1>0, BootInvElse DEF Monitor_byte
<1>13. CASE Tiling_byte
  BY <1>13, <1>0, BootInvElse DEF Tiling_byte
<1>14. CASE Program_exit
  BY <1>14, <1>0, BootInvElse DEF Program_exit
<1>15. CASE UNCHANGED vars
  BY <1>15, <1>0, BootInvElse DEF vars
<1> QED
  BY <1>1, <1>2, <1>3, <1>4, <1>5, <1>6, <1>7, <1>8, <1>9, <1>10, <1>11, <1>12, <1>13, <1>14,
     <1>15 DEF Next, Pass

LEMMA BootInvInit == Init => BootInv
BY BootSequence DEF Init, BootInv, Ends

\* Whatever bytes the terminal sends and whenever they come, the machine
\* restarts after the six bytes of the boot sequence and after no others
\* (soft_boot_seq_feed of de2shell_rtos/main.c): the state of the automaton is
\* the longest start of the sequence that the last bytes end with.
THEOREM BootSafe == Spec => []BootExactly
BY BootInvInit, BootInvStep, BootInvExact, PTL DEF Spec

-----------------------------------------------------------------------------
(***************************************************************************)
(* The decoders.  Any reader may be given any byte of the keyboard; a      *)
(* decoder in step holds the prefixes of the code whose rest is in front.  *)
(***************************************************************************)
EventByte == [byte : Int, first : BOOLEAN, last : BOOLEAN, key : PS2_KEYS, press : BOOLEAN]

\* The byte e comes behind the prefixes it needs: x is E0, b is F0.
Expects(x, b, e) ==
  IF e.last THEN (x <=> e.key.ext) /\ (b <=> ~e.press)
  ELSE /\ ~b
       /\ \/ e.byte = E0 /\ ~x /\ e.key.ext
          \/ e.byte = F0 /\ ~e.press /\ (x <=> e.key.ext)

Good(e) ==
  /\ IF e.last THEN e.byte = e.key.code ELSE e.byte \in {E0, F0}
  /\ e.first => Expects(FALSE, FALSE, e)

\* The byte f comes next behind e.
Joins(e, f) == IF e.last THEN f.first ELSE ~f.first /\ Expects(e.key.ext, e.byte = F0, f)

Stream(s) ==
  /\ s \in Seq(EventByte)
  /\ \A i \in 1 .. Len(s) : Good(s[i])
  /\ \A i \in 1 .. Len(s) - 1 : Joins(s[i], s[i+1])
  /\ s # << >> => s[Len(s)].last

\* A decoder in the middle of a code and in step expects what is in front.
Within(d, at, s) == at = "whole" => /\ s # << >> /\ ~s[1].first
                                    /\ Expects(d.ext_prefix, d.break_prefix, s[1])

\* The decoder d agrees with the keys w but for those in doubt.
Agrees(d, w, at, unsure) ==
  /\ d.mods \ unsure = w.mods \ unsure /\ d.locks \ unsure = w.locks \ unsure
  /\ Whole(d) <=> at = "clean"

DecoderInv ==
  /\ dec \in Decoder /\ mon \in Decoder /\ Stream(ps2_rx) /\ seen.locks \subseteq Lock
  /\ DOMAIN step = {"dec", "mon"} /\ DOMAIN doubt = {"dec", "mon"}
  /\ Within(dec, step.dec, ps2_rx) /\ Agrees(dec, seen, step.dec, doubt.dec)
  /\ Within(mon, step.mon, ps2_rx) /\ Agrees(mon, seen, step.mon, doubt.mon)

LEMMA KeyFacts == \A k \in PS2_KEYS : /\ k.code \in Int /\ k.code # E0 /\ k.code # F0
                                      /\ k.ext \in BOOLEAN /\ k = [code |-> k.code, ext |-> k.ext]
BY KeysAssumption DEF E0, F0

\* What a decoder makes of a byte, in step or not.
LEMMA FeedAnyhow ==
  ASSUME NEW d \in Decoder, NEW e \in EventByte, Good(e)
  PROVE  LET n == DecFeed(d, e.byte)
         IN  /\ n \in Decoder /\ (Whole(n) <=> e.last)
             /\ ~e.last => n.mods = d.mods /\ n.locks = d.locks
             /\ n.mods \ CodeOf(e.byte) = d.mods \ CodeOf(e.byte)
             /\ n.locks \ CodeOf(e.byte) = d.locks \ CodeOf(e.byte)
<1>1. e.key \in PS2_KEYS /\ e.last \in BOOLEAN /\ E0 # F0
  BY DEF EventByte, E0, F0
<1>2. CASE e.last
  <2> DEFINE press == ~d.break_prefix
             x     == d.ext_prefix
             mod   == IF x THEN {m \in DOMAIN ExtModifierCode : ExtModifierCode[m] = e.byte}
                           ELSE {m \in DOMAIN ModifierCode : ModifierCode[m] = e.byte}
             lock  == {l \in Lock : ~x /\ press /\ LockCode[l] = e.byte}
             n     == DecFeed(d, e.byte)
  <2>1. e.byte # E0 /\ e.byte # F0
    BY <1>1, <1>2, KeyFacts DEF Good
  <2>2. n = [mods  |-> IF press THEN d.mods \cup mod ELSE d.mods \ mod,
             locks |-> (d.locks \cup lock) \ (d.locks \cap lock),
             break_prefix |-> FALSE, ext_prefix |-> FALSE]
    BY <2>1 DEF DecFeed
  <2>3. x \in BOOLEAN /\ d.mods \subseteq Modifier /\ d.locks \subseteq Lock
    BY DEF Decoder
  <2>4. mod \subseteq Modifier /\ lock \subseteq Lock
    BY <2>3 DEF Modifier
  <2>5. mod \subseteq CodeOf(e.byte) /\ lock \subseteq CodeOf(e.byte)
    <3> DEFINE k == [code |-> e.byte, ext |-> x]
    <3>1. k.code = e.byte /\ k.ext = x
      OBVIOUS
    <3>2. KeyModifier(k) \cup KeyLock(k) \subseteq CodeOf(e.byte)
      BY <2>3 DEF CodeOf
    <3> HIDE DEF k
    <3>3. mod = KeyModifier(k) /\ lock \subseteq KeyLock(k)
      BY <3>1 DEF KeyModifier, KeyLock
    <3> QED
      BY <3>2, <3>3
  <2> HIDE DEF mod, lock
  <2>6. n \in Decoder /\ Whole(n)
    BY <2>2, <2>3, <2>4 DEF Decoder, Whole
  <2> QED
    BY <1>2, <2>2, <2>5, <2>6
<1>3. CASE ~e.last /\ e.byte = E0
  BY <1>1, <1>3 DEF DecFeed, Decoder, Whole
<1>4. CASE ~e.last /\ e.byte = F0
  BY <1>1, <1>4 DEF DecFeed, Decoder, Whole
<1> QED
  BY <1>1, <1>2, <1>3, <1>4 DEF Good

\* A decoder in step takes an event for what it is.
LEMMA FeedInStep ==
  ASSUME NEW d \in Decoder, NEW e \in EventByte, Good(e),
         Expects(d.ext_prefix, d.break_prefix, e)
  PROVE  LET n == DecFeed(d, e.byte)
             lock == {l \in KeyLock(e.key) : e.press}
         IN  /\ ~e.last => (n.ext_prefix <=> e.key.ext) /\ (n.break_prefix <=> e.byte = F0)
             /\ e.last => /\ n.mods = IF e.press THEN d.mods \cup KeyModifier(e.key)
                                                 ELSE d.mods \ KeyModifier(e.key)
                          /\ n.locks = (d.locks \ lock) \cup (lock \ d.locks)
<1>1. e.key \in PS2_KEYS /\ e.last \in BOOLEAN /\ e.press \in BOOLEAN /\ E0 # F0
  BY DEF EventByte, E0, F0
<1>2. CASE ~e.last
  BY <1>1, <1>2 DEF DecFeed, Decoder, Expects
<1>3. CASE e.last
  <2> DEFINE press == ~d.break_prefix
             x     == d.ext_prefix
             mod   == IF x THEN {m \in DOMAIN ExtModifierCode : ExtModifierCode[m] = e.byte}
                           ELSE {m \in DOMAIN ModifierCode : ModifierCode[m] = e.byte}
             lock  == {l \in Lock : ~x /\ press /\ LockCode[l] = e.byte}
             n     == DecFeed(d, e.byte)
             lck   == {l \in KeyLock(e.key) : e.press}
  <2>1. e.byte # E0 /\ e.byte # F0 /\ e.byte = e.key.code
    BY <1>1, <1>3, KeyFacts DEF Good
  <2>2. n.mods = (IF press THEN d.mods \cup mod ELSE d.mods \ mod)
        /\ n.locks = (d.locks \cup lock) \ (d.locks \cap lock)
    BY <2>1 DEF DecFeed
  <2>3. (x <=> e.key.ext) /\ (press <=> e.press)
    BY <1>3 DEF Expects
  <2>4. mod = KeyModifier(e.key) /\ lock = lck
    BY <2>1, <2>3 DEF KeyModifier, KeyLock
  <2> HIDE DEF mod, lock, lck
  <2>5. (d.locks \cup lock) \ (d.locks \cap lock) = (d.locks \ lock) \cup (lock \ d.locks)
    OBVIOUS
  <2> QED
    BY <1>3, <2>2, <2>3, <2>4, <2>5 DEF lck
<1> QED
  BY <1>1, <1>2, <1>3

LEMMA StreamTail ==
  ASSUME NEW s, Stream(s), s # << >>
  PROVE  /\ s[1] \in EventByte /\ s[1] = Head(s) /\ Good(s[1])
         /\ Stream(Tail(s))
         /\ IF Tail(s) = << >> THEN s[1].last ELSE Joins(s[1], Tail(s)[1])
<1> DEFINE t == Tail(s)
<1>1. s \in Seq(EventByte) /\ Len(s) \in Nat /\ Len(s) >= 1
  BY DEF Stream
<1>2. /\ t \in Seq(EventByte) /\ Len(t) = Len(s) - 1 /\ Head(s) = s[1]
      /\ \A i \in 1 .. Len(t) : t[i] = s[i+1]
  BY <1>1
<1> HIDE DEF t
<1>3. s[1] \in EventByte /\ Good(s[1])
  BY <1>1 DEF Stream
<1>4. \A i \in 1 .. Len(t) : Good(t[i])
  BY <1>1, <1>2 DEF Stream
<1>5. ASSUME NEW i \in 1 .. Len(t) - 1 PROVE Joins(t[i], t[i+1])
  <2>1. i + 1 \in 1 .. Len(s) - 1 /\ i + 1 \in 1 .. Len(t) /\ i \in 1 .. Len(t)
    BY <1>1, <1>2
  <2>2. Joins(s[i+1], s[(i+1)+1])
    BY <2>1 DEF Stream
  <2> QED
    BY <1>2, <2>1, <2>2
<1>6. t # << >> => Len(t) \in 1 .. Len(t) /\ t[Len(t)] = s[Len(s)] /\ Len(s) - 1 >= 1
  BY <1>1, <1>2
<1>7. t # << >> => t[1] = s[2]
  BY <1>1, <1>2, <1>6
<1>8. t = << >> => s[1].last
  <2>1. t = << >> => Len(s) = 1 /\ s[Len(s)].last
    BY <1>1, <1>2 DEF Stream
  <2> QED
    BY <2>1
<1>9. t # << >> => Joins(s[1], t[1])
  <2>1. t # << >> => Joins(s[1], s[1+1])
    BY <1>1, <1>6 DEF Stream
  <2> QED
    BY <2>1, <1>7
<1> QED
  BY <1>1, <1>2, <1>3, <1>4, <1>5, <1>6, <1>8, <1>9 DEF Stream, t

\* The bytes of an event.
LEMMA CodeBytes ==
  ASSUME NEW k \in PS2_KEYS, NEW press \in BOOLEAN
  PROVE  LET c == Code(k, press)
         IN  /\ c \in Seq(EventByte) /\ Len(c) \in 1 .. 3
             /\ \A i \in 1 .. Len(c) : Good(c[i])
             /\ \A i \in 1 .. Len(c) - 1 : Joins(c[i], c[i+1])
             /\ c[Len(c)].last /\ c[1].first
<1> DEFINE P == (IF k.ext THEN <<E0>> ELSE << >>) \o (IF press THEN << >> ELSE <<F0>>) \o <<k.code>>
           B(i) == [byte |-> P[i], first |-> i = 1, last |-> i = Len(P), key |-> k, press |-> press]
           c == Code(k, press)
<1>1. k.ext \in BOOLEAN /\ k.code \in Int /\ E0 \in Int /\ F0 \in Int /\ E0 # F0
  BY KeyFacts DEF E0, F0
<1>2. c = [i \in 1 .. Len(P) |-> B(i)]
  BY DEF Code
<1>3. /\ P \in Seq(Int) /\ Len(P) \in 1 .. 3
      /\ ~k.ext /\ press => Len(P) = 1 /\ P[1] = k.code
      /\ ~k.ext /\ ~press => Len(P) = 2 /\ P[1] = F0 /\ P[2] = k.code
      /\ k.ext /\ press => Len(P) = 2 /\ P[1] = E0 /\ P[2] = k.code
      /\ k.ext /\ ~press => Len(P) = 3 /\ P[1] = E0 /\ P[2] = F0 /\ P[3] = k.code
  <2>1. CASE ~k.ext /\ press
    BY <1>1, <2>1
  <2>2. CASE ~k.ext /\ ~press
    BY <1>1, <2>2
  <2>3. CASE k.ext /\ press
    BY <1>1, <2>3
  <2>4. CASE k.ext /\ ~press
    BY <1>1, <2>4
  <2> QED
    BY <1>1, <2>1, <2>2, <2>3, <2>4
<1> HIDE DEF P, c
<1>4. \A i \in 1 .. Len(P) : P[i] \in Int
  BY <1>3
<1>5. ASSUME NEW i \in 1 .. Len(P)
      PROVE  /\ B(i) \in EventByte /\ B(i).byte = P[i] /\ (B(i).first <=> i = 1)
             /\ (B(i).last <=> i = Len(P)) /\ B(i).key = k /\ (B(i).press <=> press)
  BY <1>4 DEF EventByte
<1> HIDE DEF B
<1>6. c \in Seq(EventByte) /\ Len(c) = Len(P) /\ \A i \in 1 .. Len(P) : c[i] = B(i)
  BY <1>2, <1>3, <1>5
<1> USE DEF Good, Joins, Expects
<1>7. CASE ~k.ext /\ press
  <2>1. Len(P) = 1 /\ P[1] = k.code
    BY <1>3, <1>7
  <2>2. 1 .. Len(P) = {1} /\ 1 .. Len(P) - 1 = {}
    BY <2>1
  <2>3. Good(c[1])
    BY <1>1, <1>5, <1>6, <1>7, <2>1, <2>2
  <2> QED
    BY <1>5, <1>6, <2>1, <2>2, <2>3 DEF c
<1>8. CASE ~k.ext /\ ~press
  <2>1. Len(P) = 2 /\ P[1] = F0 /\ P[2] = k.code
    BY <1>3, <1>8
  <2>2. 1 .. Len(P) = {1, 2} /\ 1 .. Len(P) - 1 = {1}
    BY <2>1
  <2>3. Good(c[1]) /\ Good(c[2]) /\ Joins(c[1], c[1+1])
    BY <1>1, <1>5, <1>6, <1>8, <2>1, <2>2
  <2> QED
    BY <1>5, <1>6, <2>1, <2>2, <2>3 DEF c
<1>9. CASE k.ext /\ press
  <2>1. Len(P) = 2 /\ P[1] = E0 /\ P[2] = k.code
    BY <1>3, <1>9
  <2>2. 1 .. Len(P) = {1, 2} /\ 1 .. Len(P) - 1 = {1}
    BY <2>1
  <2>3. Good(c[1]) /\ Good(c[2]) /\ Joins(c[1], c[1+1])
    BY <1>1, <1>5, <1>6, <1>9, <2>1, <2>2
  <2> QED
    BY <1>5, <1>6, <2>1, <2>2, <2>3 DEF c
<1>10. CASE k.ext /\ ~press
  <2>1. Len(P) = 3 /\ P[1] = E0 /\ P[2] = F0 /\ P[3] = k.code
    BY <1>3, <1>10
  <2>2. 1 .. Len(P) = {1, 2, 3} /\ 1 .. Len(P) - 1 = {1, 2}
    BY <2>1
  <2>3. Good(c[1]) /\ Good(c[2]) /\ Good(c[3]) /\ Joins(c[1], c[1+1]) /\ Joins(c[2], c[2+1])
    BY <1>1, <1>5, <1>6, <1>10, <2>1, <2>2
  <2> QED
    BY <1>5, <1>6, <2>1, <2>2, <2>3 DEF c
<1> QED
  BY <1>1, <1>7, <1>8, <1>9, <1>10

LEMMA StreamMore ==
  ASSUME NEW s, Stream(s), NEW k \in PS2_KEYS, NEW press \in BOOLEAN
  PROVE  LET t == s \o Code(k, press)
         IN  Stream(t) /\ t # << >> /\ (s # << >> => t[1] = s[1])
<1> DEFINE c == Code(k, press)
           t == s \o c
<1>1. /\ c \in Seq(EventByte) /\ Len(c) \in 1 .. 3
      /\ \A i \in 1 .. Len(c) : Good(c[i])
      /\ \A i \in 1 .. Len(c) - 1 : Joins(c[i], c[i+1])
      /\ c[Len(c)].last /\ c[1].first
  BY CodeBytes
<1> HIDE DEF c
<1>2. s \in Seq(EventByte) /\ Len(s) \in Nat
  BY DEF Stream
<1>3. /\ t \in Seq(EventByte) /\ Len(t) = Len(s) + Len(c) /\ t # << >>
      /\ \A i \in 1 .. Len(t) : t[i] = IF i <= Len(s) THEN s[i] ELSE c[i - Len(s)]
  BY <1>1, <1>2
<1> HIDE DEF t
<1>4. ASSUME NEW i \in 1 .. Len(t) PROVE Good(t[i])
  <2>1. CASE i <= Len(s)
    BY <1>2, <1>3, <2>1 DEF Stream
  <2>2. CASE ~(i <= Len(s))
    <3>1. i - Len(s) \in 1 .. Len(c) /\ t[i] = c[i - Len(s)]
      BY <1>2, <1>3, <2>2, <1>1
    <3> QED
      BY <3>1, <1>1
  <2> QED
    BY <2>1, <2>2
<1>5. ASSUME NEW i \in 1 .. Len(t) - 1 PROVE Joins(t[i], t[i+1])
  <2>1. CASE i < Len(s)
    <3>1. i \in 1 .. Len(s) - 1 /\ t[i] = s[i] /\ t[i+1] = s[i+1]
      BY <1>1, <1>2, <1>3, <2>1
    <3> QED
      BY <3>1 DEF Stream
  <2>2. CASE i = Len(s)
    <3>1. t[i] = s[Len(s)] /\ t[i+1] = c[1] /\ s # << >>
      BY <1>1, <1>2, <1>3, <2>2
    <3>2. s[Len(s)].last
      BY <3>1 DEF Stream
    <3> QED
      BY <1>1, <3>1, <3>2 DEF Joins
  <2>3. CASE i > Len(s)
    <3> DEFINE j == i - Len(s)
    <3>1. j \in 1 .. Len(c) - 1 /\ t[i] = c[j] /\ t[i+1] = c[j+1]
      <4>1. j \in 1 .. Len(c) - 1 /\ i + 1 - Len(s) = j + 1 /\ i + 1 \in 1 .. Len(t)
            /\ i \in 1 .. Len(t) /\ ~(i <= Len(s)) /\ ~(i + 1 <= Len(s))
        BY <1>1, <1>2, <1>3, <2>3
      <4> QED
        BY <1>3, <4>1
    <3> HIDE DEF j
    <3> QED
      BY <3>1, <1>1
  <2> QED
    BY <1>2, <2>1, <2>2, <2>3
<1>6. t[Len(t)].last
  BY <1>1, <1>2, <1>3
<1>7. s # << >> => t[1] = s[1]
  BY <1>1, <1>2, <1>3
<1> QED
  BY <1>1, <1>3, <1>4, <1>5, <1>6, <1>7 DEF Stream, c, t

\* The decoder x, which is d, is given the byte in front.
LEMMA GivenByte ==
  ASSUME NEW s, Stream(s), s # << >>, NEW x \in {"dec", "mon"}, NEW d \in Decoder,
         Within(d, step[x], s), Agrees(d, seen, step[x], doubt[x]), seen.locks \subseteq Lock,
         Read(x, Head(s))
  PROVE  LET n == DecFeed(d, Head(s).byte)
         IN  n \in Decoder /\ Within(n, step'[x], Tail(s)) /\ Agrees(n, seen', step'[x], doubt'[x])
<1> DEFINE e == Head(s)
           n == DecFeed(d, e.byte)
           lock == {l \in KeyLock(e.key) : e.press}
<1>1. /\ e \in EventByte /\ e = s[1] /\ Good(e) /\ Stream(Tail(s))
      /\ IF Tail(s) = << >> THEN e.last ELSE Joins(e, Tail(s)[1])
  BY StreamTail
<1>2. /\ seen' = (IF e.last THEN Apply(seen, e) ELSE seen)
      /\ step'[x] = (IF e.last THEN "clean" ELSE IF InStep(x, e) THEN "whole" ELSE "torn")
      /\ doubt'[x] = (IF ~e.last THEN doubt[x]
                      ELSE IF InStep(x, e) THEN doubt[x] \ KeyModifier(e.key)
                      ELSE doubt[x] \cup CodeOf(e.byte))
  BY DEF Read
<1> HIDE DEF e
<1>3. /\ n \in Decoder /\ (Whole(n) <=> e.last)
      /\ ~e.last => n.mods = d.mods /\ n.locks = d.locks
      /\ n.mods \ CodeOf(e.byte) = d.mods \ CodeOf(e.byte)
      /\ n.locks \ CodeOf(e.byte) = d.locks \ CodeOf(e.byte)
  BY <1>1, FeedAnyhow
<1>4. InStep(x, e) => Expects(d.ext_prefix, d.break_prefix, e)
  <2>1. CASE e.first
    <3>1. InStep(x, e) => ~d.ext_prefix /\ ~d.break_prefix
      BY <2>1 DEF InStep, Agrees, Whole
    <3> QED
      BY <1>1, <2>1, <3>1 DEF Good, Expects
  <2>2. CASE ~e.first
    BY <1>1, <2>2 DEF InStep, Within
  <2> QED
    BY <2>1, <2>2
<1>5. InStep(x, e) =>
        /\ ~e.last => (n.ext_prefix <=> e.key.ext) /\ (n.break_prefix <=> e.byte = F0)
        /\ e.last => /\ n.mods = IF e.press THEN d.mods \cup KeyModifier(e.key)
                                            ELSE d.mods \ KeyModifier(e.key)
                     /\ n.locks = (d.locks \ lock) \cup (lock \ d.locks)
  BY <1>1, <1>4, FeedInStep
<1>6. e.last => /\ seen'.mods = IF e.press THEN seen.mods \cup KeyModifier(e.key)
                                           ELSE seen.mods \ KeyModifier(e.key)
                /\ seen'.locks = (seen.locks \ lock) \cup (lock \ seen.locks)
  BY <1>2 DEF Apply
<1>7. e.key \in PS2_KEYS /\ e.last \in BOOLEAN /\ e.byte \in Int
  BY <1>1 DEF EventByte
<1> HIDE DEF n, lock
<1>8. Within(n, step'[x], Tail(s))
  <2> SUFFICES ASSUME step'[x] = "whole"
               PROVE  /\ Tail(s) # << >> /\ ~Tail(s)[1].first
                      /\ Expects(n.ext_prefix, n.break_prefix, Tail(s)[1])
    BY DEF Within
  <2>1. ~e.last /\ InStep(x, e)
    BY <1>2
  <2>2. Tail(s) # << >> /\ ~Tail(s)[1].first /\ Expects(e.key.ext, e.byte = F0, Tail(s)[1])
    BY <1>1, <2>1 DEF Joins
  <2>3. (n.ext_prefix <=> e.key.ext) /\ (n.break_prefix <=> e.byte = F0)
    BY <1>5, <2>1
  <2> QED
    BY <2>2, <2>3 DEF Expects
<1>9. Agrees(n, seen', step'[x], doubt'[x])
  <2>1. Whole(n) <=> step'[x] = "clean"
    BY <1>2, <1>3
  <2>2. CASE ~e.last
    BY <1>2, <1>3, <2>1, <2>2 DEF Agrees
  <2>3. CASE e.last /\ InStep(x, e)
    <3> DEFINE U == doubt[x]
               K == KeyModifier(e.key)
    <3>1. d.mods \ U = seen.mods \ U /\ d.locks \ U = seen.locks \ U
      BY DEF Agrees
    <3>2. doubt'[x] = U \ K
      BY <1>2, <2>3
    <3>3. lock \cap K = {}
      BY DEF lock, KeyLock, KeyModifier, Lock, LockCode, ModifierCode, ExtModifierCode
    <3>a. d.locks \cap K = {} /\ seen.locks \cap K = {}
      BY DEF Decoder, KeyModifier, Lock, LockCode, ModifierCode, ExtModifierCode
    <3> HIDE DEF U, K
    <3>4. n.mods \ doubt'[x] = seen'.mods \ doubt'[x]
      BY <1>5, <1>6, <2>3, <3>1, <3>2 DEF K
    <3>5. n.locks \ doubt'[x] = seen'.locks \ doubt'[x]
      BY <1>5, <1>6, <2>3, <3>1, <3>2, <3>3, <3>a
    <3> QED
      BY <2>1, <3>4, <3>5 DEF Agrees
  <2>4. CASE e.last /\ ~InStep(x, e)
    <3> DEFINE U == doubt[x]
               K == CodeOf(e.byte)
    <3>1. d.mods \ U = seen.mods \ U /\ d.locks \ U = seen.locks \ U
      BY DEF Agrees
    <3>2. doubt'[x] = U \cup K
      BY <1>2, <2>4
    <3>3. KeyModifier(e.key) \subseteq K /\ lock \subseteq K
      <4>1. e.byte = e.key.code /\ e.key = [code |-> e.key.code, ext |-> e.key.ext]
            /\ e.key.ext \in BOOLEAN
        BY <1>1, <1>7, <2>4, KeyFacts DEF Good
      <4> QED
        BY <4>1 DEF CodeOf, lock
    <3>4. n.mods \ K = d.mods \ K /\ n.locks \ K = d.locks \ K
      BY <1>3
    <3> HIDE DEF U, K
    <3>5. n.mods \ doubt'[x] = seen'.mods \ doubt'[x]
      BY <1>6, <2>4, <3>1, <3>2, <3>3, <3>4
    <3>6. n.locks \ doubt'[x] = seen'.locks \ doubt'[x]
      BY <1>6, <2>4, <3>1, <3>2, <3>3, <3>4
    <3> QED
      BY <2>1, <3>5, <3>6 DEF Agrees
  <2> QED
    BY <1>7, <2>2, <2>3, <2>4
<1> QED
  BY <1>3, <1>8, <1>9 DEF n, e

\* The decoder x, which is d, misses the byte in front: the other one is given it.
LEMMA MissedByte ==
  ASSUME NEW e, NEW t, NEW x \in {"dec", "mon"}, NEW y \in {"dec", "mon"}, x # y, NEW d,
         Agrees(d, seen, step[x], doubt[x]), Read(y, e)
  PROVE  Within(d, step'[x], t) /\ Agrees(d, seen', step'[x], doubt'[x])
<1> DEFINE lock == {l \in KeyLock(e.key) : e.press}
           K == KeyModifier(e.key) \cup KeyLock(e.key)
<1>1. /\ seen' = (IF e.last THEN Apply(seen, e) ELSE seen)
      /\ step'[x] = (IF step[x] = "whole" THEN "torn" ELSE step[x])
      /\ doubt'[x] = (IF ~e.last THEN doubt[x] ELSE doubt[x] \cup K)
  BY DEF Read
<1>2. step'[x] # "whole" /\ (step'[x] = "clean" <=> step[x] = "clean")
  BY <1>1
<1>3. Within(d, step'[x], t)
  BY <1>2 DEF Within
<1>4. e.last => /\ seen'.mods = IF e.press THEN seen.mods \cup KeyModifier(e.key)
                                           ELSE seen.mods \ KeyModifier(e.key)
                /\ seen'.locks = (seen.locks \ lock) \cup (lock \ seen.locks)
  BY <1>1 DEF Apply
<1>5. KeyModifier(e.key) \subseteq K /\ lock \subseteq K
  OBVIOUS
<1> HIDE DEF lock, K
<1>6. CASE ~e.last
  BY <1>1, <1>2, <1>3, <1>6 DEF Agrees
<1>7. CASE e.last
  BY <1>1, <1>2, <1>3, <1>4, <1>5, <1>7 DEF Agrees
<1> QED
  BY <1>6, <1>7

\* A step that leaves the keyboard and its readers alone.
LEMMA DecoderInvElse ==
  ASSUME DecoderInv, UNCHANGED <<dec, mon, seen, step, doubt, ps2_rx>>
  PROVE  DecoderInv'
BY DEF DecoderInv, Agrees, Whole, Within

\* One reader takes the byte in front.
LEMMA ReaderTakes ==
  ASSUME DecoderInv, ps2_rx # << >>, ps2_rx' = Tail(ps2_rx),
         \/ /\ dec' = DecFeed(dec, Head(ps2_rx).byte) /\ mon' = mon /\ Read("dec", Head(ps2_rx))
         \/ /\ mon' = DecFeed(mon, Head(ps2_rx).byte) /\ dec' = dec /\ Read("mon", Head(ps2_rx))
  PROVE  DecoderInv'
<1>1. /\ Stream(ps2_rx) /\ dec \in Decoder /\ mon \in Decoder /\ seen.locks \subseteq Lock
      /\ Within(dec, step["dec"], ps2_rx) /\ Agrees(dec, seen, step["dec"], doubt["dec"])
      /\ Within(mon, step["mon"], ps2_rx) /\ Agrees(mon, seen, step["mon"], doubt["mon"])
      /\ DOMAIN doubt = {"dec", "mon"}
  BY DEF DecoderInv
<1>2. Stream(Tail(ps2_rx))
  BY <1>1, StreamTail
<1>3. /\ DOMAIN step' = {"dec", "mon"} /\ DOMAIN doubt' = {"dec", "mon"}
      /\ seen'.locks \subseteq Lock
  BY <1>1 DEF Read, Apply, KeyLock
<1>4. CASE dec' = DecFeed(dec, Head(ps2_rx).byte) /\ mon' = mon /\ Read("dec", Head(ps2_rx))
  <2>1. /\ dec' \in Decoder /\ Within(dec', step'["dec"], ps2_rx')
        /\ Agrees(dec', seen', step'["dec"], doubt'["dec"])
    BY <1>1, <1>4, GivenByte
  <2>2. Within(mon, step'["mon"], ps2_rx') /\ Agrees(mon, seen', step'["mon"], doubt'["mon"])
    BY <1>1, <1>4, MissedByte
  <2> QED
    BY <1>1, <1>2, <1>3, <1>4, <2>1, <2>2 DEF DecoderInv
<1>5. CASE mon' = DecFeed(mon, Head(ps2_rx).byte) /\ dec' = dec /\ Read("mon", Head(ps2_rx))
  <2>1. /\ mon' \in Decoder /\ Within(mon', step'["mon"], ps2_rx')
        /\ Agrees(mon', seen', step'["mon"], doubt'["mon"])
    BY <1>1, <1>5, GivenByte
  <2>2. Within(dec, step'["dec"], ps2_rx') /\ Agrees(dec, seen', step'["dec"], doubt'["dec"])
    BY <1>1, <1>5, MissedByte
  <2> QED
    BY <1>1, <1>2, <1>3, <1>5, <2>1, <2>2 DEF DecoderInv
<1> QED
  BY <1>4, <1>5

\* A key event joins the stream.
LEMMA EventJoins ==
  ASSUME DecoderInv, NEW k \in PS2_KEYS, NEW press \in BOOLEAN,
         ps2_rx' = ps2_rx \o Code(k, press), UNCHANGED <<dec, mon, seen, step, doubt>>
  PROVE  DecoderInv'
<1>1. Stream(ps2_rx') /\ ps2_rx' # << >> /\ (ps2_rx # << >> => ps2_rx'[1] = ps2_rx[1])
  BY StreamMore DEF DecoderInv
<1>2. /\ Within(dec, step.dec, ps2_rx) => Within(dec, step.dec, ps2_rx')
      /\ Within(mon, step.mon, ps2_rx) => Within(mon, step.mon, ps2_rx')
  BY <1>1 DEF Within
<1> QED
  BY <1>1, <1>2 DEF DecoderInv, Agrees, Whole

LEMMA Fresh == /\ DecInit \in Decoder /\ Whole(DecInit) /\ DecInit.mods = {} /\ DecInit.locks = {}
BY DEF DecInit, Decoder, Whole

\* No code is 0: a decoder that is given it just forgets its prefixes.
LEMMA FeedNothing ==
  ASSUME NEW d \in Decoder
  PROVE  LET n == DecFeed(d, 0)
         IN  n \in Decoder /\ Whole(n) /\ n.mods = d.mods /\ n.locks = d.locks
<1>1. 0 # E0 /\ 0 # F0
  BY DEF E0, F0
<1>2. /\ {m \in DOMAIN ExtModifierCode : ExtModifierCode[m] = 0} = {}
      /\ {m \in DOMAIN ModifierCode : ModifierCode[m] = 0} = {}
      /\ \A x : {l \in Lock : x /\ LockCode[l] = 0} = {}
  BY DEF ExtModifierCode, ModifierCode, LockCode, Lock
<1>3. DecFeed(d, 0) = [mods |-> d.mods, locks |-> d.locks,
                       break_prefix |-> FALSE, ext_prefix |-> FALSE]
  BY <1>1, <1>2 DEF DecFeed
<1>4. d.mods \in SUBSET Modifier /\ d.locks \in SUBSET Lock
  BY DEF Decoder
<1>5. \A m \in SUBSET Modifier, l \in SUBSET Lock, b \in BOOLEAN :
        [mods |-> m, locks |-> l, break_prefix |-> b, ext_prefix |-> b] \in Decoder
  BY DEF Decoder
<1>6. DecFeed(d, 0) \in Decoder
  BY <1>3, <1>4, <1>5
<1> QED
  BY <1>3, <1>6 DEF Whole

LEMMA DecoderInvStep == DecoderInv /\ [Next]_vars => DecoderInv'
<1> SUFFICES ASSUME DecoderInv, [Next]_vars PROVE DecoderInv'
  OBVIOUS
<1> USE DEF filter, csi, decoders, program, terminal, keyboard, history, events
<1>1. ASSUME NEW k \in UART_KEYS, Type(k) PROVE DecoderInv'
  BY <1>1, DecoderInvElse DEF Type
<1>2. ASSUME NEW k \in PS2_KEYS, Press(k) PROVE DecoderInv'
  BY <1>2, EventJoins DEF Press
<1>3. ASSUME NEW k \in PS2_KEYS, Release(k) PROVE DecoderInv'
  BY <1>3, EventJoins DEF Release
<1>4. CASE Uart_byte \/ Esc_timeout \/ No_byte \/ Ps2_enter \/ Ps2_ready \/ Pass_end
  BY <1>4, DecoderInvElse DEF Uart_byte, Esc_timeout, No_byte, Ps2_enter, Ps2_ready, Pass_end
<1>5. CASE Byte
  BY <1>5, DecoderInvElse DEF Byte
<1>6. CASE Ps2_byte
  BY <1>6, ReaderTakes DEF Ps2_byte
<1>7. CASE Ps2_nothing
  <2>1. /\ dec' = DecFeed(dec, 0) /\ UNCHANGED <<mon, seen, doubt, ps2_rx>>
        /\ step' = [step EXCEPT !.dec = "clean"] /\ dec \in Decoder
    BY <1>7 DEF Ps2_nothing, DecoderInv
  <2>2. dec' \in Decoder /\ Whole(dec') /\ dec'.mods = dec.mods /\ dec'.locks = dec.locks
    BY <2>1, FeedNothing
  <2>3. step'.dec = "clean" /\ step'.mon = step.mon /\ DOMAIN step' = {"dec", "mon"}
    BY <2>1 DEF DecoderInv
  <2> QED
    BY <2>1, <2>2, <2>3 DEF DecoderInv, Agrees, Within
<1>8. ASSUME NEW p \in {"ps2", "twm"}, Launch(p) PROVE DecoderInv'
  BY <1>8, DecoderInvElse DEF Launch
<1>9. CASE Program_init
  <2>1. UNCHANGED ps2_rx
    BY <1>9 DEF Program_init
  <2>2. CASE mon' = DecInit /\ Restart("mon") /\ dec' = dec
    <3>1. /\ step'.mon = "clean" /\ step'.dec = step.dec /\ DOMAIN step' = {"dec", "mon"}
          /\ doubt'.mon = seen.mods \cup seen.locks /\ doubt'.dec = doubt.dec
          /\ DOMAIN doubt' = {"dec", "mon"} /\ seen' = seen
      BY <2>2 DEF Restart, DecoderInv
    <3>2. Within(mon', step'.mon, ps2_rx') /\ Agrees(mon', seen', step'.mon, doubt'.mon)
      BY <2>2, <3>1, Fresh DEF Within, Agrees
    <3> QED
      BY <2>1, <2>2, <3>1, <3>2, Fresh DEF DecoderInv
  <2>3. CASE dec' = DecInit /\ Restart("dec") /\ mon' = mon
    <3>1. /\ step'.dec = "clean" /\ step'.mon = step.mon /\ DOMAIN step' = {"dec", "mon"}
          /\ doubt'.dec = seen.mods \cup seen.locks /\ doubt'.mon = doubt.mon
          /\ DOMAIN doubt' = {"dec", "mon"} /\ seen' = seen
      BY <2>3 DEF Restart, DecoderInv
    <3>2. Within(dec', step'.dec, ps2_rx') /\ Agrees(dec', seen', step'.dec, doubt'.dec)
      BY <2>3, <3>1, Fresh DEF Within, Agrees
    <3> QED
      BY <2>1, <2>3, <3>1, <3>2, Fresh DEF DecoderInv
  <2> QED
    BY <1>9, <2>2, <2>3 DEF Program_init
<1>10. CASE Monitor_byte
  BY <1>10, ReaderTakes DEF Monitor_byte
<1>11. CASE Tiling_byte
  BY <1>11, ReaderTakes DEF Tiling_byte
<1>12. CASE Program_exit
  BY <1>12, DecoderInvElse DEF Program_exit
<1>13. CASE UNCHANGED vars
  BY <1>13, DecoderInvElse DEF vars
<1> QED
  BY <1>1, <1>2, <1>3, <1>4, <1>5, <1>6, <1>7, <1>8, <1>9, <1>10, <1>11, <1>12, <1>13
     DEF Next, Pass

LEMMA DecoderInvInit == Init => DecoderInv
<1>1. Stream(<< >>)
  BY DEF Stream
<1>2. Init => /\ dec = DecInit /\ mon = DecInit /\ ps2_rx = << >>
              /\ seen = [mods |-> {}, locks |-> {}]
              /\ step = [dec |-> "clean", mon |-> "clean"] /\ doubt = [dec |-> {}, mon |-> {}]
  BY DEF Init
<1> QED
  BY <1>1, <1>2, Fresh DEF DecoderInv, Within, Agrees

\* Whoever reads which byte of the keyboard - t_uart_input, the PS/2 monitor and
\* the window manager take it from each other inside a scan code and with keys
\* held - a decoder errs only about a key whose last event it missed or got in
\* part, or that was down when it started, and it is back in step one code later.
THEOREM DecodersSafe == Spec => []DecoderTracksKeys
<1>1. DecoderInv => DecoderTracksKeys
  BY DEF DecoderInv, DecoderTracksKeys, Agrees, Tracks
<1> QED
  BY DecoderInvInit, DecoderInvStep, <1>1, PTL DEF Spec

-----------------------------------------------------------------------------
(***************************************************************************)
(* The keys of the terminal.  Every byte on its way is a byte of a key:    *)
(* the bytes of one key follow each other, and the filter is in the state  *)
(* that the bytes read so far left it in.                                  *)
(***************************************************************************)
Follows(m, n) == IF m.pos < Len(Encoding[m.key]) THEN n.key = m.key /\ n.pos = m.pos + 1
                                                 ELSE n.pos = 1

KeyBytes(s) ==
  /\ s \in Seq(UartByte)
  /\ \A i \in 1 .. Len(s) : s[i].pos \in 1 .. Len(Encoding[s[i].key])
                            /\ s[i].byte = Encoding[s[i].key][s[i].pos]
  /\ \A i \in 1 .. Len(s) - 1 : Follows(s[i], s[i+1])
  /\ Len(s) > 0 => s[Len(s)].pos = Len(Encoding[s[Len(s)].key])

\* The state of the escape filter inside a key, in front of this byte.
FilterAt(key, pos) == IF key = "boot" THEN NONE
                      ELSE IF pos = 2 THEN ESC
                      ELSE IF key = "f1" THEN SS3 ELSE BRACKET

\* In the middle of a key the timeout of its ESC is still ahead: the terminal is
\* silent for MAX_GAP passes at most, and each pass counts down once.
InTime == uart_esc_wait + (IF pc = "byte" THEN 1 ELSE 0) + (IF uart_rx = << >> THEN gap ELSE MAX_GAP)
            >= ESC_WAIT_TICKS

\* Between two keys: all is queued; or an ESC waits; or an O is lost behind one.
AtRest ==
  \/ uart_csi_filter_state = NONE /\ hurry # "esc O" /\ xInputQueue.uart = typed.uart
  \/ uart_csi_filter_state = ESC /\ hurry = "esc" /\ typed.uart = Append(xInputQueue.uart, 27)
  \/ uart_csi_filter_state = SS3 /\ hurry = "esc O" /\ xInputQueue.uart = typed.uart

\* In front of the byte m of a key.
AtMark(m) ==
  /\ m.pos = 1 => AtRest
  /\ m.pos > 1 => /\ xInputQueue.uart = typed.uart
                  /\ uart_csi_filter_state = FilterAt(m.key, m.pos)
                  /\ m.key = "f10" => /\ m.pos \in 2 .. 3 => uart_csi_param = 0
                                      /\ m.pos = 4 => uart_csi_param = 2
                                      /\ m.pos = 5 => uart_csi_param = 21
                  /\ m.key = "boot" => soft_boot_state = m.pos - 1
                  /\ m.key \in {"up", "f1", "f10"} /\ m.pos = 2 => InTime

Started(s) == IF Len(s) = 0 THEN AtRest ELSE AtMark(s[1])

UartTypes ==
  /\ DOMAIN xInputQueue = {"uart", "ps2"} /\ DOMAIN typed = {"uart", "ps2"}
  /\ xInputQueue.uart \in Seq(Int) /\ typed.uart \in Seq(Int)
  /\ uart_esc_wait \in Nat /\ uart_csi_param \in Nat /\ gap \in 0 .. MAX_GAP
  /\ uart_rx # << >> => gap = 0

Kept == \/ xInputQueue.uart = typed.uart
        \/ hurry = "esc" /\ Append(xInputQueue.uart, 27) = typed.uart

UartInv ==
  /\ UartTypes /\ Kept
  /\ pc # "boot" => \E s : s = uart_rx \o line /\ KeyBytes(s) /\ Started(s)

\* The keys, byte by byte and character by character.
LEMMA KeyTable ==
  /\ DOMAIN Encoding = {"up", "f1", "f10", "esc", "nul", "B", "O", "dump", "boot"}
  /\ Encoding["up"] = <<27, 91, 65>>
  /\ Meaning["up"] = << << >>, << >>, <<144>> >>
  /\ Encoding["f1"] = <<27, 79, 80>>
  /\ Meaning["f1"] = << << >>, << >>, <<128>> >>
  /\ Encoding["f10"] = <<27, 91, 50, 49, 126>>
  /\ Meaning["f10"] = << << >>, << >>, << >>, << >>, <<137>> >>
  /\ Encoding["esc"] = <<27>>            /\ Meaning["esc"] = << <<27>> >>
  /\ Encoding["nul"] = <<0>>             /\ Meaning["nul"] = << <<0>> >>
  /\ Encoding["B"] = <<66>>              /\ Meaning["B"] = << <<66>> >>
  /\ Encoding["O"] = <<79>>              /\ Meaning["O"] = << <<79>> >>
  /\ Encoding["dump"] = <<20>>           /\ Meaning["dump"] = << << >> >>
  /\ Encoding["boot"] = <<0, 66, 79, 79, 84, 0>>
  /\ \A p \in 1 .. 6 : Meaning["boot"][p] = IF p < 6 THEN <<soft_boot_seq[p]>> ELSE << >>
BY DEF Encoding, Meaning, soft_boot_seq, UP, VK

\* A key of several bytes starts with ESC, but for the boot sequence.
LEMMA KeyFirst ==
  ASSUME NEW k \in UART_KEYS
  PROVE  /\ Encoding[k] \in Seq(Int) /\ Len(Encoding[k]) \in 1 .. 6
         /\ k \in {"up", "f1", "f10", "esc"} <=> Encoding[k][1] = 27
         /\ k = "O" <=> Encoding[k][1] = 79
         /\ Encoding[k][1] # 91 /\ Encoding[k][1] \notin 80 .. 83
         /\ Len(Encoding[k]) > 1 <=> k \in {"up", "f1", "f10", "boot"}
<1>1. k \in DOMAIN Encoding
  BY KeysAssumption
<1>2. CASE k = "up"
  BY <1>2, KeyTable
<1>3. CASE k = "f1"
  BY <1>3, KeyTable
<1>4. CASE k = "f10"
  BY <1>4, KeyTable
<1>5. CASE k = "esc"
  BY <1>5, KeyTable
<1>6. CASE k = "nul"
  BY <1>6, KeyTable
<1>7. CASE k = "B"
  BY <1>7, KeyTable
<1>8. CASE k = "O"
  BY <1>8, KeyTable
<1>9. CASE k = "dump"
  BY <1>9, KeyTable
<1>10. CASE k = "boot"
  BY <1>10, KeyTable
<1> QED
  BY <1>1, <1>2, <1>3, <1>4, <1>5, <1>6, <1>7, <1>8, <1>9, <1>10, KeyTable

\* The first byte of the key is lost to an ESC in front of it.
Lost(m) == m.pos = 1 /\ m.byte # 27 /\ uart_csi_filter_state # NONE

\* The character that the byte m completes.
Yields(m) == m.key # "esc" /\ ~Lost(m) /\ Meaning[m.key][m.pos] # << >>

\* What a byte of a key does.
ByteDone(m) ==
  /\ pc' \in {"tick", "ps2"} /\ DOMAIN xInputQueue' = {"uart", "ps2"}
  /\ uart_csi_filter_state' =
       IF Lost(m) /\ uart_csi_filter_state = ESC /\ m.byte = 79 THEN SS3
       ELSE IF m.pos < Len(Encoding[m.key]) THEN FilterAt(m.key, m.pos + 1)
       ELSE IF m.key = "esc" THEN ESC ELSE NONE
  /\ IF Yields(m) THEN xInputQueue'.uart = Append(xInputQueue.uart, Meaning[m.key][m.pos][1])
                  ELSE xInputQueue'.uart = xInputQueue.uart
  /\ uart_csi_filter_state' = ESC => uart_esc_wait' = ESC_WAIT_TICKS
  /\ uart_esc_wait' \in Nat /\ uart_csi_param' \in Nat
  /\ m.key = "f10" => /\ m.pos \in 1 .. 2 => uart_csi_param' = 0
                      /\ m.pos = 3 => uart_csi_param' = 2
                      /\ m.pos = 4 => uart_csi_param' = 21

LEMMA ByteAtMark ==
  ASSUME UartTypes, NEW m \in UartByte, m.pos \in 1 .. Len(Encoding[m.key]), AtMark(m),
         NEW byte, byte = Encoding[m.key][m.pos], m.byte = byte, ~(m.key = "boot" /\ m.pos = 6),
         \/ Byte_escape(byte) \/ Byte_after_escape(byte) \/ Byte_in_csi(byte)
         \/ Byte_in_ss3(byte) \/ Byte_plain(byte)
  PROVE  ByteDone(m)
<1>1. m.key \in UART_KEYS /\ m.pos \in Nat /\ m.key \in DOMAIN Encoding
  BY KeysAssumption DEF UartByte
<1> DEFINE s == uart_csi_filter_state
<1>2. /\ byte = 27 => /\ uart_csi_filter_state' = ESC /\ uart_esc_wait' = ESC_WAIT_TICKS
                      /\ uart_csi_param' = 0 /\ pc' = "tick" /\ xInputQueue' = xInputQueue
      /\ byte # 27 /\ s = ESC =>
           /\ uart_csi_filter_state' = IF byte = 91 THEN BRACKET ELSE IF byte = 79 THEN SS3 ELSE NONE
           /\ uart_esc_wait' = 0 /\ uart_csi_param' = uart_csi_param /\ pc' = "tick"
           /\ xInputQueue' = xInputQueue
      /\ byte # 27 /\ s = BRACKET /\ byte \in 48..57 =>
           /\ uart_csi_filter_state' = s /\ uart_csi_param' = uart_csi_param * 10 + byte - 48
           /\ xInputQueue' = xInputQueue /\ uart_esc_wait' = uart_esc_wait /\ pc' = "tick"
      /\ byte # 27 /\ s = BRACKET /\ byte = 65 =>
           /\ uart_csi_filter_state' = NONE /\ uart_csi_param' = uart_csi_param
           /\ Queue("uart", 144) /\ uart_esc_wait' = uart_esc_wait /\ pc' = "tick"
      /\ byte # 27 /\ s = BRACKET /\ byte = 126 /\ uart_csi_param = 21 =>
           /\ uart_csi_filter_state' = NONE /\ uart_csi_param' = uart_csi_param
           /\ Queue("uart", 137) /\ uart_esc_wait' = uart_esc_wait /\ pc' = "tick"
      /\ byte # 27 /\ s = SS3 /\ byte = 80 =>
           /\ uart_csi_filter_state' = NONE /\ uart_csi_param' = uart_csi_param
           /\ Queue("uart", 128) /\ uart_esc_wait' = uart_esc_wait /\ pc' = "tick"
      /\ byte # 27 /\ s = SS3 /\ byte \notin 80 .. 83 =>
           /\ uart_csi_filter_state' = NONE /\ uart_csi_param' = uart_csi_param
           /\ xInputQueue' = xInputQueue /\ uart_esc_wait' = uart_esc_wait /\ pc' = "tick"
      /\ byte # 27 /\ s = NONE =>
           /\ uart_csi_filter_state' = s /\ uart_csi_param' = uart_csi_param
           /\ uart_esc_wait' = uart_esc_wait /\ pc' = "ps2"
           /\ IF byte = 20 THEN xInputQueue' = xInputQueue ELSE Queue("uart", byte)
      /\ NONE # ESC /\ NONE # BRACKET /\ NONE # SS3 /\ ESC # BRACKET /\ ESC # SS3
      /\ BRACKET # SS3 /\ uart_esc_wait \in Nat /\ uart_csi_param \in Nat
      /\ ESC_WAIT_TICKS \in Nat
  <2>0. /\ NONE # ESC /\ NONE # BRACKET /\ NONE # SS3 /\ ESC # BRACKET /\ ESC # SS3
        /\ BRACKET # SS3
    BY DEF NONE, ESC, BRACKET, SS3
  <2>1. uart_esc_wait \in Nat /\ uart_csi_param \in Nat /\ ESC_WAIT_TICKS \in Nat
    BY KeyInputAssumption DEF UartTypes
  <2>2. CASE byte = 27
    BY <2>0, <2>1, <2>2 DEF Byte_escape, Byte_after_escape, Byte_in_csi, Byte_in_ss3, Byte_plain
  <2>3. CASE byte # 27 /\ s = ESC
    BY <2>0, <2>1, <2>3 DEF Byte_escape, Byte_after_escape, Byte_in_csi, Byte_in_ss3, Byte_plain, csi
  <2>4. CASE byte # 27 /\ s = BRACKET
    <3>1. Byte_in_csi(byte)
      BY <2>0, <2>4 DEF Byte_escape, Byte_after_escape, Byte_in_ss3, Byte_plain
    <3>2. CsiChar(65, uart_csi_param) = {144}
      BY DEF CsiChar, UP
    <3>3. CsiChar(126, 21) = {137}
      BY DEF CsiChar, VK
    <3>4. \A x : QueueIf({x}) => Queue("uart", x)
      BY DEF QueueIf
    <3>5. CASE byte \in 48..57
      <4>1. /\ uart_csi_filter_state' = s /\ uart_csi_param' = uart_csi_param * 10 + byte - 48
            /\ xInputQueue' = xInputQueue /\ uart_esc_wait' = uart_esc_wait /\ pc' = "tick"
        BY <3>1, <3>5 DEF Byte_in_csi
      <4>2. byte # 65 /\ byte # 126 /\ byte # 27
        BY <2>4, <3>5
      <4> QED
        BY <2>0, <2>1, <2>4, <4>1, <4>2
    <3>6. CASE byte = 65
      BY <2>0, <2>1, <2>4, <3>1, <3>2, <3>4, <3>6 DEF Byte_in_csi
    <3>7. CASE byte = 126 /\ uart_csi_param = 21
      BY <2>0, <2>1, <2>4, <3>1, <3>3, <3>4, <3>7 DEF Byte_in_csi
    <3>8. CASE byte \notin 48..57 /\ byte # 65 /\ ~(byte = 126 /\ uart_csi_param = 21)
      BY <2>0, <2>1, <2>4, <3>8
    <3> QED
      BY <3>5, <3>6, <3>7, <3>8
  <2>5. CASE byte # 27 /\ s = SS3
    <3>1. Byte_in_ss3(byte)
      BY <2>0, <2>5 DEF Byte_escape, Byte_after_escape, Byte_in_csi, Byte_plain
    <3>2. Ss3Char(80) = {128}
      BY DEF Ss3Char, VK
    <3>3. \A x : QueueIf({x}) => Queue("uart", x)
      BY DEF QueueIf
    <3>4. CASE byte = 80
      <4>1. Ss3Char(byte) = {128}
        BY <3>2, <3>4
      <4>2. /\ uart_csi_filter_state' = NONE /\ pc' = "tick" /\ QueueIf({128})
            /\ uart_esc_wait' = uart_esc_wait /\ uart_csi_param' = uart_csi_param
        BY <3>1, <4>1 DEF Byte_in_ss3
      <4>3. Queue("uart", 128)
        BY <3>3, <4>2
      <4> QED
        BY <2>0, <2>1, <2>5, <3>4, <4>2, <4>3, SMTT(60)
    <3>5. CASE byte \notin 80 .. 83
      <4>1. Ss3Char(byte) = {}
        BY <3>5 DEF Ss3Char
      <4>2. /\ uart_csi_filter_state' = NONE /\ pc' = "tick" /\ xInputQueue' = xInputQueue
            /\ uart_esc_wait' = uart_esc_wait /\ uart_csi_param' = uart_csi_param
        BY <3>1, <4>1 DEF Byte_in_ss3, QueueIf
      <4>3. byte # 80
        BY <3>5
      <4> QED
        BY <2>0, <2>1, <2>5, <3>5, <4>2, <4>3
    <3>6. CASE byte \in 80 .. 83 /\ byte # 80
      BY <2>0, <2>1, <2>5, <3>6
    <3> QED
      BY <3>4, <3>5, <3>6
  <2>6. CASE byte # 27 /\ s = NONE
    BY <2>0, <2>1, <2>6 DEF Byte_escape, Byte_after_escape, Byte_in_csi, Byte_in_ss3, Byte_plain, csi
  <2>7. CASE byte # 27 /\ s \notin {ESC, BRACKET, SS3, NONE}
    BY <2>0, <2>1, <2>7
  <2> QED
    BY <2>2, <2>3, <2>4, <2>5, <2>6, <2>7
<1>a. DOMAIN xInputQueue = {"uart", "ps2"}
  BY DEF UartTypes
<1>b. \A c : Queue("uart", c) => /\ DOMAIN xInputQueue' = {"uart", "ps2"}
                                 /\ xInputQueue'.uart = Append(xInputQueue.uart, c)
  BY <1>a DEF Queue
<1>c. m.pos = 1 => s \in {NONE, ESC, SS3}
  BY DEF AtMark, AtRest
<1>d. m.pos > 1 => s = FilterAt(m.key, m.pos) /\ ~Lost(m)
  BY <1>1 DEF AtMark, Lost
<1> USE DEF Yields
<1>3. CASE m.key = "up"
  <2>1. Len(Encoding[m.key]) = 3 /\ m.pos \in 1 .. 3
    BY <1>3, <1>1, KeyTable
  <2>2. CASE m.pos = 1
    <3>1. byte = 27 /\ m.byte = 27 /\ m.key = "up" /\ m.pos = 1
      BY <1>3, <2>2, KeyTable
    <3>2. Meaning[m.key][m.pos] = << >>
      BY <1>3, <2>2, KeyTable
    <3>3. ~Lost(m)
      BY <3>1 DEF Lost
    <3> QED
      BY <1>2, <1>a, <1>b, <2>1, <3>1, <3>2, <3>3 DEF FilterAt, ByteDone
  <2>3. CASE m.pos = 2
    <3>1. byte = 91 /\ m.byte = 91 /\ m.key = "up" /\ m.pos = 2
      BY <1>3, <2>3, KeyTable
    <3>2. Meaning[m.key][m.pos] = << >>
      BY <1>3, <2>3, KeyTable
    <3>3. s = FilterAt("up", 2) /\ ~Lost(m)
      BY <1>d, <3>1
    <3> QED
      BY <1>2, <1>a, <1>b, <2>1, <3>1, <3>2, <3>3 DEF FilterAt, AtMark, ByteDone
  <2>4. CASE m.pos = 3
    <3>1. byte = 65 /\ m.byte = 65 /\ m.key = "up" /\ m.pos = 3
      BY <1>3, <2>4, KeyTable
    <3>2. Meaning[m.key][m.pos] = <<144>> /\ Meaning[m.key][m.pos] # << >> /\ Meaning[m.key][m.pos][1] = 144
      BY <1>3, <2>4, KeyTable
    <3>3. s = FilterAt("up", 3) /\ ~Lost(m)
      BY <1>d, <3>1
    <3> QED
      BY <1>2, <1>a, <1>b, <2>1, <3>1, <3>2, <3>3 DEF FilterAt, AtMark, ByteDone
  <2> QED
    BY <2>2, <2>3, <2>4, <2>1
<1>4. CASE m.key = "f1"
  <2>1. Len(Encoding[m.key]) = 3 /\ m.pos \in 1 .. 3
    BY <1>4, <1>1, KeyTable
  <2>2. CASE m.pos = 1
    <3>1. byte = 27 /\ m.byte = 27 /\ m.key = "f1" /\ m.pos = 1
      BY <1>4, <2>2, KeyTable
    <3>2. Meaning[m.key][m.pos] = << >>
      BY <1>4, <2>2, KeyTable
    <3>3. ~Lost(m)
      BY <3>1 DEF Lost
    <3> QED
      BY <1>2, <1>a, <1>b, <2>1, <3>1, <3>2, <3>3 DEF FilterAt, ByteDone
  <2>3. CASE m.pos = 2
    <3>1. byte = 79 /\ m.byte = 79 /\ m.key = "f1" /\ m.pos = 2
      BY <1>4, <2>3, KeyTable
    <3>2. Meaning[m.key][m.pos] = << >>
      BY <1>4, <2>3, KeyTable
    <3>3. s = FilterAt("f1", 2) /\ ~Lost(m)
      BY <1>d, <3>1
    <3> QED
      BY <1>2, <1>a, <1>b, <2>1, <3>1, <3>2, <3>3 DEF FilterAt, AtMark, ByteDone
  <2>4. CASE m.pos = 3
    <3>1. byte = 80 /\ m.byte = 80 /\ m.key = "f1" /\ m.pos = 3
      BY <1>4, <2>4, KeyTable
    <3>2. Meaning[m.key][m.pos] = <<128>> /\ Meaning[m.key][m.pos] # << >> /\ Meaning[m.key][m.pos][1] = 128
      BY <1>4, <2>4, KeyTable
    <3>3. s = FilterAt("f1", 3) /\ ~Lost(m)
      BY <1>d, <3>1
    <3> QED
      BY <1>2, <1>a, <1>b, <2>1, <3>1, <3>2, <3>3 DEF FilterAt, AtMark, ByteDone
  <2> QED
    BY <2>2, <2>3, <2>4, <2>1
<1>5. CASE m.key = "f10"
  <2>1. Len(Encoding[m.key]) = 5 /\ m.pos \in 1 .. 5
    BY <1>5, <1>1, KeyTable
  <2>2. CASE m.pos = 1
    <3>1. byte = 27 /\ m.byte = 27 /\ m.key = "f10" /\ m.pos = 1
      BY <1>5, <2>2, KeyTable
    <3>2. Meaning[m.key][m.pos] = << >>
      BY <1>5, <2>2, KeyTable
    <3>3. ~Lost(m)
      BY <3>1 DEF Lost
    <3> QED
      BY <1>2, <1>a, <1>b, <2>1, <3>1, <3>2, <3>3 DEF FilterAt, ByteDone
  <2>3. CASE m.pos = 2
    <3>1. byte = 91 /\ m.byte = 91 /\ m.key = "f10" /\ m.pos = 2
      BY <1>5, <2>3, KeyTable
    <3>2. Meaning[m.key][m.pos] = << >>
      BY <1>5, <2>3, KeyTable
    <3>3. s = FilterAt("f10", 2) /\ ~Lost(m)
      BY <1>d, <3>1
    <3> QED
      BY <1>2, <1>a, <1>b, <2>1, <3>1, <3>2, <3>3 DEF FilterAt, AtMark, ByteDone
  <2>4. CASE m.pos = 3
    <3>1. byte = 50 /\ m.byte = 50 /\ m.key = "f10" /\ m.pos = 3
      BY <1>5, <2>4, KeyTable
    <3>2. Meaning[m.key][m.pos] = << >>
      BY <1>5, <2>4, KeyTable
    <3>3. s = FilterAt("f10", 3) /\ ~Lost(m)
      BY <1>d, <3>1
    <3> QED
      BY <1>2, <1>a, <1>b, <2>1, <3>1, <3>2, <3>3 DEF FilterAt, AtMark, ByteDone
  <2>5. CASE m.pos = 4
    <3>1. byte = 49 /\ m.byte = 49 /\ m.key = "f10" /\ m.pos = 4
      BY <1>5, <2>5, KeyTable
    <3>2. Meaning[m.key][m.pos] = << >>
      BY <1>5, <2>5, KeyTable
    <3>3. s = FilterAt("f10", 4) /\ ~Lost(m)
      BY <1>d, <3>1
    <3> QED
      BY <1>2, <1>a, <1>b, <2>1, <3>1, <3>2, <3>3 DEF FilterAt, AtMark, ByteDone
  <2>6. CASE m.pos = 5
    <3>1. byte = 126 /\ m.byte = 126 /\ m.key = "f10" /\ m.pos = 5
      BY <1>5, <2>6, KeyTable
    <3>2. Meaning[m.key][m.pos] = <<137>> /\ Meaning[m.key][m.pos] # << >> /\ Meaning[m.key][m.pos][1] = 137
      BY <1>5, <2>6, KeyTable
    <3>3. s = FilterAt("f10", 5) /\ ~Lost(m)
      BY <1>d, <3>1
    <3> QED
      BY <1>2, <1>a, <1>b, <2>1, <3>1, <3>2, <3>3 DEF FilterAt, AtMark, ByteDone
  <2> QED
    BY <2>2, <2>3, <2>4, <2>5, <2>6, <2>1
<1>6. CASE m.key = "esc"
  <2>1. Len(Encoding[m.key]) = 1 /\ m.pos \in 1 .. 1
    BY <1>6, <1>1, KeyTable
  <2>2. CASE m.pos = 1
    <3>1. byte = 27 /\ m.byte = 27 /\ m.key = "esc" /\ m.pos = 1
      BY <1>6, <2>2, KeyTable
    <3>2. Meaning[m.key][m.pos] = <<27>> /\ Meaning[m.key][m.pos] # << >> /\ Meaning[m.key][m.pos][1] = 27
      BY <1>6, <2>2, KeyTable
    <3>3. ~Lost(m)
      BY <3>1 DEF Lost
    <3> QED
      BY <1>2, <1>a, <1>b, <2>1, <3>1, <3>2, <3>3 DEF FilterAt, ByteDone
  <2> QED
    BY <2>2, <2>1
<1>7. CASE m.key = "nul"
  <2>1. Len(Encoding[m.key]) = 1 /\ m.pos \in 1 .. 1
    BY <1>7, <1>1, KeyTable
  <2>2. CASE m.pos = 1
    <3>1. byte = 0 /\ m.byte = 0 /\ m.key = "nul" /\ m.pos = 1
      BY <1>7, <2>2, KeyTable
    <3>2. Meaning[m.key][m.pos] = <<0>> /\ Meaning[m.key][m.pos] # << >> /\ Meaning[m.key][m.pos][1] = 0
      BY <1>7, <2>2, KeyTable
    <3>3. Lost(m) <=> s # NONE
      BY <3>1 DEF Lost
    <3>4. CASE s = NONE
      BY <1>2, <1>a, <1>b, <2>1, <3>1, <3>2, <3>3, <3>4 DEF FilterAt, ByteDone
    <3>5. CASE s = ESC
      BY <1>2, <1>a, <1>b, <2>1, <3>1, <3>2, <3>3, <3>5 DEF FilterAt, ByteDone
    <3>6. CASE s = SS3
      BY <1>2, <1>a, <1>b, <2>1, <3>1, <3>2, <3>3, <3>6 DEF FilterAt, ByteDone
    <3> QED
      BY <1>c, <2>2, <3>4, <3>5, <3>6
  <2> QED
    BY <2>2, <2>1
<1>8. CASE m.key = "B"
  <2>1. Len(Encoding[m.key]) = 1 /\ m.pos \in 1 .. 1
    BY <1>8, <1>1, KeyTable
  <2>2. CASE m.pos = 1
    <3>1. byte = 66 /\ m.byte = 66 /\ m.key = "B" /\ m.pos = 1
      BY <1>8, <2>2, KeyTable
    <3>2. Meaning[m.key][m.pos] = <<66>> /\ Meaning[m.key][m.pos] # << >> /\ Meaning[m.key][m.pos][1] = 66
      BY <1>8, <2>2, KeyTable
    <3>3. Lost(m) <=> s # NONE
      BY <3>1 DEF Lost
    <3>4. CASE s = NONE
      BY <1>2, <1>a, <1>b, <2>1, <3>1, <3>2, <3>3, <3>4 DEF FilterAt, ByteDone
    <3>5. CASE s = ESC
      BY <1>2, <1>a, <1>b, <2>1, <3>1, <3>2, <3>3, <3>5 DEF FilterAt, ByteDone
    <3>6. CASE s = SS3
      BY <1>2, <1>a, <1>b, <2>1, <3>1, <3>2, <3>3, <3>6 DEF FilterAt, ByteDone
    <3> QED
      BY <1>c, <2>2, <3>4, <3>5, <3>6
  <2> QED
    BY <2>2, <2>1
<1>9. CASE m.key = "O"
  <2>1. Len(Encoding[m.key]) = 1 /\ m.pos \in 1 .. 1
    BY <1>9, <1>1, KeyTable
  <2>2. CASE m.pos = 1
    <3>1. byte = 79 /\ m.byte = 79 /\ m.key = "O" /\ m.pos = 1
      BY <1>9, <2>2, KeyTable
    <3>2. Meaning[m.key][m.pos] = <<79>> /\ Meaning[m.key][m.pos] # << >> /\ Meaning[m.key][m.pos][1] = 79
      BY <1>9, <2>2, KeyTable
    <3>3. Lost(m) <=> s # NONE
      BY <3>1 DEF Lost
    <3>4. CASE s = NONE
      BY <1>2, <1>a, <1>b, <2>1, <3>1, <3>2, <3>3, <3>4 DEF FilterAt, ByteDone
    <3>5. CASE s = ESC
      BY <1>2, <1>a, <1>b, <2>1, <3>1, <3>2, <3>3, <3>5 DEF FilterAt, ByteDone
    <3>6. CASE s = SS3
      BY <1>2, <1>a, <1>b, <2>1, <3>1, <3>2, <3>3, <3>6 DEF FilterAt, ByteDone
    <3> QED
      BY <1>c, <2>2, <3>4, <3>5, <3>6
  <2> QED
    BY <2>2, <2>1
<1>10. CASE m.key = "dump"
  <2>1. Len(Encoding[m.key]) = 1 /\ m.pos \in 1 .. 1
    BY <1>10, <1>1, KeyTable
  <2>2. CASE m.pos = 1
    <3>1. byte = 20 /\ m.byte = 20 /\ m.key = "dump" /\ m.pos = 1
      BY <1>10, <2>2, KeyTable
    <3>2. Meaning[m.key][m.pos] = << >>
      BY <1>10, <2>2, KeyTable
    <3>3. Lost(m) <=> s # NONE
      BY <3>1 DEF Lost
    <3>4. CASE s = NONE
      BY <1>2, <1>a, <1>b, <2>1, <3>1, <3>2, <3>3, <3>4 DEF FilterAt, ByteDone
    <3>5. CASE s = ESC
      BY <1>2, <1>a, <1>b, <2>1, <3>1, <3>2, <3>3, <3>5 DEF FilterAt, ByteDone
    <3>6. CASE s = SS3
      BY <1>2, <1>a, <1>b, <2>1, <3>1, <3>2, <3>3, <3>6 DEF FilterAt, ByteDone
    <3> QED
      BY <1>c, <2>2, <3>4, <3>5, <3>6
  <2> QED
    BY <2>2, <2>1
<1>11. CASE m.key = "boot"
  <2>1. Len(Encoding[m.key]) = 6 /\ m.pos \in 1 .. 6
    BY <1>11, <1>1, KeyTable
  <2>2. CASE m.pos = 1
    <3>1. byte = 0 /\ m.byte = 0 /\ m.key = "boot" /\ m.pos = 1
      BY <1>11, <2>2, KeyTable
    <3>2. Meaning[m.key][m.pos] = <<0>> /\ Meaning[m.key][m.pos] # << >> /\ Meaning[m.key][m.pos][1] = 0
      BY <1>11, <2>2, KeyTable, BootSequence DEF soft_boot_seq
    <3>3. Lost(m) <=> s # NONE
      BY <3>1 DEF Lost
    <3>4. CASE s = NONE
      BY <1>2, <1>a, <1>b, <2>1, <3>1, <3>2, <3>3, <3>4 DEF FilterAt, ByteDone
    <3>5. CASE s = ESC
      BY <1>2, <1>a, <1>b, <2>1, <3>1, <3>2, <3>3, <3>5 DEF FilterAt, ByteDone
    <3>6. CASE s = SS3
      BY <1>2, <1>a, <1>b, <2>1, <3>1, <3>2, <3>3, <3>6 DEF FilterAt, ByteDone
    <3> QED
      BY <1>c, <2>2, <3>4, <3>5, <3>6
  <2>3. CASE m.pos = 2
    <3>1. byte = 66 /\ m.byte = 66 /\ m.key = "boot" /\ m.pos = 2
      BY <1>11, <2>3, KeyTable
    <3>2. Meaning[m.key][m.pos] = <<66>> /\ Meaning[m.key][m.pos] # << >> /\ Meaning[m.key][m.pos][1] = 66
      BY <1>11, <2>3, KeyTable, BootSequence DEF soft_boot_seq
    <3>3. s = FilterAt("boot", 2) /\ ~Lost(m)
      BY <1>d, <3>1
    <3> QED
      BY <1>2, <1>a, <1>b, <2>1, <3>1, <3>2, <3>3 DEF FilterAt, AtMark, ByteDone
  <2>4. CASE m.pos = 3
    <3>1. byte = 79 /\ m.byte = 79 /\ m.key = "boot" /\ m.pos = 3
      BY <1>11, <2>4, KeyTable
    <3>2. Meaning[m.key][m.pos] = <<79>> /\ Meaning[m.key][m.pos] # << >> /\ Meaning[m.key][m.pos][1] = 79
      BY <1>11, <2>4, KeyTable, BootSequence DEF soft_boot_seq
    <3>3. s = FilterAt("boot", 3) /\ ~Lost(m)
      BY <1>d, <3>1
    <3> QED
      BY <1>2, <1>a, <1>b, <2>1, <3>1, <3>2, <3>3 DEF FilterAt, AtMark, ByteDone
  <2>5. CASE m.pos = 4
    <3>1. byte = 79 /\ m.byte = 79 /\ m.key = "boot" /\ m.pos = 4
      BY <1>11, <2>5, KeyTable
    <3>2. Meaning[m.key][m.pos] = <<79>> /\ Meaning[m.key][m.pos] # << >> /\ Meaning[m.key][m.pos][1] = 79
      BY <1>11, <2>5, KeyTable, BootSequence DEF soft_boot_seq
    <3>3. s = FilterAt("boot", 4) /\ ~Lost(m)
      BY <1>d, <3>1
    <3> QED
      BY <1>2, <1>a, <1>b, <2>1, <3>1, <3>2, <3>3 DEF FilterAt, AtMark, ByteDone
  <2>6. CASE m.pos = 5
    <3>1. byte = 84 /\ m.byte = 84 /\ m.key = "boot" /\ m.pos = 5
      BY <1>11, <2>6, KeyTable
    <3>2. Meaning[m.key][m.pos] = <<84>> /\ Meaning[m.key][m.pos] # << >> /\ Meaning[m.key][m.pos][1] = 84
      BY <1>11, <2>6, KeyTable, BootSequence DEF soft_boot_seq
    <3>3. s = FilterAt("boot", 5) /\ ~Lost(m)
      BY <1>d, <3>1
    <3> QED
      BY <1>2, <1>a, <1>b, <2>1, <3>1, <3>2, <3>3 DEF FilterAt, AtMark, ByteDone
  <2> QED
    BY <2>2, <2>3, <2>4, <2>5, <2>6, <2>1, <1>11
<1> QED
  BY <1>1, KeyTable, <1>3, <1>4, <1>5, <1>6, <1>7, <1>8, <1>9, <1>10, <1>11

\* One byte fewer.
LEMMA KeyBytesTail ==
  ASSUME NEW s, KeyBytes(s), Len(s) > 0
  PROVE  /\ KeyBytes(Tail(s)) /\ Len(Tail(s)) = Len(s) - 1 /\ s[1] \in UartByte
         /\ s[1].pos \in 1 .. Len(Encoding[s[1].key])
         /\ s[1].byte = Encoding[s[1].key][s[1].pos]
         /\ IF Len(s) = 1 THEN s[1].pos = Len(Encoding[s[1].key]) ELSE Follows(s[1], Tail(s)[1])
<1> DEFINE t == Tail(s)
<1>1. s \in Seq(UartByte) /\ Len(s) \in Nat
  BY DEF KeyBytes
<1>2. /\ t \in Seq(UartByte) /\ Len(t) = Len(s) - 1
      /\ \A i \in 1 .. Len(s) - 1 : t[i] = s[i+1]
  BY <1>1
<1> HIDE DEF t
<1>3. ASSUME NEW i \in 1 .. Len(t)
      PROVE  /\ t[i].pos \in 1 .. Len(Encoding[t[i].key])
             /\ t[i].byte = Encoding[t[i].key][t[i].pos]
  <2>1. i + 1 \in 1 .. Len(s) /\ t[i] = s[i+1]
    BY <1>1, <1>2
  <2> QED
    BY <2>1 DEF KeyBytes
<1>4. ASSUME NEW i \in 1 .. Len(t) - 1 PROVE Follows(t[i], t[i+1])
  <2>1. i + 1 \in 1 .. Len(s) - 1 /\ t[i] = s[i+1] /\ t[i+1] = s[(i+1)+1]
    BY <1>1, <1>2
  <2> QED
    BY <2>1 DEF KeyBytes
<1>5. Len(t) > 0 => t[Len(t)] = s[Len(s)]
  BY <1>1, <1>2
<1>6. 1 \in 1 .. Len(s) /\ s[1] \in UartByte
  BY <1>1
<1>7. Len(s) # 1 => Follows(s[1], t[1])
  <2>1. Len(s) # 1 => 1 \in 1 .. Len(s) - 1 /\ t[1] = s[1+1]
    BY <1>1, <1>2
  <2> QED
    BY <2>1 DEF KeyBytes
<1> QED
  BY <1>2, <1>3, <1>4, <1>5, <1>6, <1>7 DEF KeyBytes, t

\* One key more.
LEMMA KeyBytesMore ==
  ASSUME NEW s, KeyBytes(s), NEW k \in UART_KEYS
  PROVE  LET t == s \o KeyBytesOf(k)
         IN  /\ KeyBytes(t) /\ Len(t) \in Nat /\ Len(t) > 0
             /\ IF Len(s) = 0 THEN t[1].pos = 1 ELSE t[1] = s[1]
<1> DEFINE c == KeyBytesOf(k)
           N == Len(Encoding[k])
           t == s \o c
           M(i) == [byte |-> Encoding[k][i], key |-> k, pos |-> i]
<1>1. s \in Seq(UartByte) /\ Len(s) \in Nat
  BY DEF KeyBytes
<1>2. N \in Nat /\ N >= 1 /\ N <= 6
  <2>1. Len(Encoding[k]) \in 1 .. 6
    BY KeyFirst
  <2>2. \A n \in 1 .. 6 : n \in Nat /\ n >= 1 /\ n <= 6
    OBVIOUS
  <2> QED
    BY <2>1, <2>2
<1>3. c \in Seq(UartByte) /\ Len(c) = N /\ \A i \in 1 .. N : c[i] = M(i)
  BY KeyBytesTyped
<1>4. \A i : M(i).key = k /\ M(i).pos = i /\ M(i).byte = Encoding[k][i]
  OBVIOUS
<1> HIDE DEF c, M, N
<1>5. /\ t \in Seq(UartByte) /\ Len(t) = Len(s) + N
      /\ \A i \in 1 .. Len(s) : t[i] = s[i]
      /\ \A i \in Len(s) + 1 .. Len(s) + N : t[i] = M(i - Len(s))
  <2>1. /\ t \in Seq(UartByte) /\ Len(t) = Len(s) + Len(c)
        /\ \A i \in 1 .. Len(s) + Len(c) : t[i] = IF i <= Len(s) THEN s[i] ELSE c[i - Len(s)]
    BY <1>1, <1>3, ConcatProperties
  <2>2. \A i \in Len(s) + 1 .. Len(s) + N : i - Len(s) \in 1 .. N /\ ~(i <= Len(s))
                                            /\ i \in 1 .. Len(s) + Len(c)
    BY <1>1, <1>2, <1>3
  <2>3. \A i \in 1 .. Len(s) : i \in 1 .. Len(s) + Len(c)
    BY <1>1, <1>2, <1>3
  <2> HIDE DEF t
  <2> QED
    BY <1>3, <2>1, <2>2, <2>3
<1> HIDE DEF t
<1>6. ASSUME NEW i \in 1 .. Len(t)
      PROVE  /\ t[i].pos \in 1 .. Len(Encoding[t[i].key])
             /\ t[i].byte = Encoding[t[i].key][t[i].pos]
  <2>1. CASE i <= Len(s)
    <3>1. i \in 1 .. Len(s) /\ t[i] = s[i]
      BY <1>1, <1>5, <2>1
    <3> QED
      BY <3>1 DEF KeyBytes
  <2>2. CASE ~(i <= Len(s))
    <3>1. i \in Len(s) + 1 .. Len(s) + N /\ i - Len(s) \in 1 .. N
      BY <1>1, <1>2, <1>5, <2>2
    <3>2. t[i].key = k /\ t[i].pos = i - Len(s) /\ t[i].byte = Encoding[k][i - Len(s)]
      BY <1>4, <1>5, <3>1
    <3> QED
      BY <3>1, <3>2 DEF N
  <2> QED
    BY <2>1, <2>2
<1>7. ASSUME NEW i \in 1 .. Len(t) - 1 PROVE Follows(t[i], t[i+1])
  <2>1. CASE i < Len(s)
    <3>1. i \in 1 .. Len(s) - 1 /\ i \in 1 .. Len(s) /\ i + 1 \in 1 .. Len(s)
      BY <1>1, <2>1
    <3> QED
      BY <1>5, <3>1 DEF KeyBytes
  <2>2. CASE i = Len(s)
    <3>1. i + 1 \in Len(s) + 1 .. Len(s) + N /\ (i + 1) - Len(s) = 1 /\ i \in 1 .. Len(s)
      BY <1>1, <1>2, <2>2
    <3>2. t[i] = s[Len(s)] /\ t[i+1] = M(1) /\ Len(s) > 0 /\ s[Len(s)] \in UartByte
      BY <1>1, <1>5, <2>2, <3>1
    <3>3. s[Len(s)].pos = Len(Encoding[s[Len(s)].key]) /\ s[Len(s)].pos \in Nat
      BY <3>2 DEF KeyBytes, UartByte
    <3> QED
      BY <1>4, <3>2, <3>3 DEF Follows
  <2>3. CASE i > Len(s)
    <3>1. /\ i \in Len(s) + 1 .. Len(s) + N /\ i + 1 \in Len(s) + 1 .. Len(s) + N
          /\ i - Len(s) < N /\ (i + 1) - Len(s) = (i - Len(s)) + 1
      BY <1>1, <1>2, <1>5, <2>3
    <3>2. t[i] = M(i - Len(s)) /\ t[i+1] = M((i - Len(s)) + 1)
      BY <1>5, <3>1
    <3> QED
      BY <1>4, <3>1, <3>2 DEF Follows, N
  <2> QED
    BY <1>1, <2>1, <2>2, <2>3
<1>8. t[Len(t)].pos = Len(Encoding[t[Len(t)].key])
  <2>1. Len(t) \in Len(s) + 1 .. Len(s) + N /\ Len(t) - Len(s) = N
    BY <1>1, <1>2, <1>5
  <2>2. t[Len(t)] = M(N)
    BY <1>5, <2>1
  <2> QED
    BY <1>4, <2>2 DEF N
<1>9. IF Len(s) = 0 THEN t[1].pos = 1 ELSE t[1] = s[1]
  <2>1. Len(s) = 0 => 1 \in Len(s) + 1 .. Len(s) + N /\ 1 - Len(s) = 1
    BY <1>2
  <2>2. Len(s) # 0 => 1 \in 1 .. Len(s)
    BY <1>1
  <2> QED
    BY <1>4, <1>5, <2>1, <2>2
<1>10. Len(t) \in Nat /\ Len(t) > 0
  BY <1>1, <1>2, <1>5
<1> QED
  BY <1>5, <1>6, <1>7, <1>8, <1>9, <1>10 DEF KeyBytes, t, c

LEMMA BootAtMark ==
  ASSUME NEW p \in 1 .. 6, soft_boot_state \in 0 .. 5, p > 1 => soft_boot_state = p - 1
  PROVE  LET f == soft_boot_seq_feed(Encoding["boot"][p])
         IN  f # 6 => f = p /\ p # 6
<1>1. Encoding["boot"] = soft_boot_seq
  BY DEF Encoding
<1>2. CASE p = 1
  BY <1>1, <1>2, BootSequence DEF soft_boot_seq_feed
<1>3. CASE p > 1
  BY <1>1, <1>3, BootSequence DEF soft_boot_seq_feed
<1> QED
  BY <1>2, <1>3

\* The filter inside a key waits for a second byte only behind its ESC.
LEMMA EscapeAtMark ==
  ASSUME NEW m \in UartByte, m.pos \in 1 .. Len(Encoding[m.key]), m.pos > 1,
         FilterAt(m.key, m.pos) = ESC
  PROVE  m.key \in {"up", "f1", "f10"} /\ m.pos = 2
<1>1. m.key \in UART_KEYS /\ m.pos \in Nat
  BY DEF UartByte
<1>2. NONE # ESC /\ SS3 # ESC /\ BRACKET # ESC
  BY DEF NONE, ESC, SS3, BRACKET
<1>3. m.pos = 2 /\ m.key # "boot"
  BY <1>2 DEF FilterAt
<1>4. Len(Encoding[m.key]) \in 1 .. 6
  BY <1>1, KeyFirst
<1>5. Len(Encoding[m.key]) > 1
  BY <1>4
<1> QED
  BY <1>1, <1>3, <1>5, KeyFirst

\* A step that adds no character and leaves the filter alone.
LEMMA StartedKept ==
  ASSUME NEW s, Started(s), AtRest => AtRest', Len(s) > 0 /\ InTime => InTime',
         xInputQueue'.uart = xInputQueue.uart, typed'.uart = typed.uart,
         UNCHANGED <<uart_csi_filter_state, uart_csi_param, soft_boot_state>>, Len(s) \in Nat
  PROVE  Started(s)'
<1>1. CASE Len(s) = 0
  BY <1>1 DEF Started
<1>2. CASE Len(s) # 0
  <2>1. PICK m : m = s[1]
    OBVIOUS
  <2>2. AtMark(m)
    BY <1>2, <2>1 DEF Started
  <2>3. (m.pos = 1 => AtRest') /\ (InTime => InTime')
    BY <1>2, <2>2 DEF AtMark
  <2>4. AtMark(m)'
    BY <2>2, <2>3 DEF AtMark
  <2> QED
    BY <1>2, <2>1, <2>4 DEF Started
<1> QED
  BY <1>1, <1>2

\* A step that leaves the terminal and its filter alone.
LEMMA UartInvElse ==
  ASSUME UartInv, DOMAIN xInputQueue' = {"uart", "ps2"}, DOMAIN typed' = {"uart", "ps2"},
         xInputQueue'.uart = xInputQueue.uart, typed'.uart = typed.uart,
         UNCHANGED <<uart_csi_filter_state, uart_esc_wait, uart_csi_param, soft_boot_state,
                     line, gap, uart_rx, hurry>>,
         (pc = "boot") <=> (pc' = "boot"), (pc = "byte") <=> (pc' = "byte")
  PROVE  UartInv'
<1>1. (InTime => InTime') /\ (AtRest => AtRest')
  BY DEF InTime, AtRest
<1>2. UartTypes' /\ Kept'
  BY DEF UartInv, UartTypes, Kept
<1>3. ASSUME pc' # "boot" PROVE \E s : s = uart_rx' \o line' /\ KeyBytes(s) /\ Started(s)'
  <2>1. PICK s : s = uart_rx \o line /\ KeyBytes(s) /\ Started(s)
    BY <1>3 DEF UartInv
  <2>2. Len(s) \in Nat
    BY <2>1 DEF KeyBytes
  <2>3. Started(s)'
    BY <1>1, <2>1, <2>2, StartedKept
  <2> QED
    BY <2>1, <2>3
<1> QED
  BY <1>2, <1>3 DEF UartInv

LEMMA UartType ==
  ASSUME BootInv, UartInv, NEW k \in UART_KEYS, Type(k)
  PROVE  UartInv'
<1> USE DEF filter, csi, decoders, program, terminal, keyboard, history, events
<1>1. /\ line = << >> /\ pc # "boot" /\ line' = KeyBytesOf(k) /\ gap' = 0
      /\ UNCHANGED <<pc, uart_rx, xInputQueue, typed, hurry, uart_csi_filter_state, uart_esc_wait,
                     uart_csi_param, soft_boot_state>>
  BY DEF Type, KeyBytesOf
<1>2. UartTypes /\ Kept
  BY DEF UartInv
<1>3. PICK s : s = uart_rx \o line /\ KeyBytes(s) /\ Started(s)
  BY <1>1 DEF UartInv
<1>4. s = uart_rx /\ Len(s) \in Nat
  <2>1. uart_rx \in Seq(UartByte)
    BY DEF BootInv
  <2> QED
    BY <1>1, <1>3, <2>1
<1>5. PICK t : /\ t = s \o KeyBytesOf(k) /\ KeyBytes(t) /\ Len(t) \in Nat /\ Len(t) > 0
               /\ IF Len(s) = 0 THEN t[1].pos = 1 ELSE t[1] = s[1]
  BY <1>3, KeyBytesMore
<1>6. uart_rx' \o line' = t
  BY <1>1, <1>4, <1>5
<1>7. AtRest => AtRest'
  BY <1>1 DEF AtRest
<1>8. Started(t)'
  <2>1. CASE Len(s) = 0
    <3>1. PICK n : n = t[1]
      OBVIOUS
    <3>2. AtRest' /\ n.pos = 1
      BY <1>3, <1>5, <1>7, <2>1, <3>1 DEF Started
    <3>3. AtMark(n)'
      BY <3>2 DEF AtMark
    <3> QED
      BY <1>5, <3>1, <3>3 DEF Started
  <2>2. CASE Len(s) # 0
    <3>1. uart_rx # << >>
      BY <1>4, <2>2
    <3>2. InTime => InTime'
      BY <1>1, <3>1 DEF InTime
    <3>3. Started(t)
      BY <1>3, <1>5, <2>2 DEF Started
    <3> QED
      BY <1>1, <1>5, <1>7, <3>2, <3>3, StartedKept
  <2> QED
    BY <2>1, <2>2
<1>9. UartTypes' /\ Kept'
  BY <1>1, <1>2, KeyInputAssumption DEF UartTypes, Kept
<1> QED
  BY <1>5, <1>6, <1>8, <1>9 DEF UartInv

LEMMA UartArrives ==
  ASSUME BootInv, UartInv, Uart_byte
  PROVE  UartInv'
<1> USE DEF filter, csi, decoders, program, terminal, keyboard, history, events
<1>1. /\ line # << >> /\ pc # "boot" /\ uart_rx' = Append(uart_rx, Head(line))
      /\ line' = Tail(line) /\ gap' = 0
      /\ UNCHANGED <<pc, typed, hurry, xInputQueue, uart_csi_filter_state, uart_esc_wait,
                     uart_csi_param, soft_boot_state>>
  BY DEF Uart_byte
<1>2. line \in Seq(UartByte) /\ uart_rx \in Seq(UartByte)
  BY DEF BootInv
<1>3. uart_rx' \o line' = uart_rx \o line
  <2> DEFINE u == uart_rx' \o line'
             v == uart_rx \o line
  <2>1. /\ Head(line) \in UartByte /\ Head(line) = line[1] /\ Tail(line) \in Seq(UartByte)
        /\ Len(Tail(line)) = Len(line) - 1 /\ Len(line) \in Nat /\ Len(line) >= 1
        /\ \A i \in 1 .. Len(line) - 1 : Tail(line)[i] = line[i+1]
    BY <1>1, <1>2
  <2>2. /\ uart_rx' \in Seq(UartByte) /\ Len(uart_rx') = Len(uart_rx) + 1 /\ Len(uart_rx) \in Nat
        /\ uart_rx'[Len(uart_rx) + 1] = line[1]
        /\ \A i \in 1 .. Len(uart_rx) : uart_rx'[i] = uart_rx[i]
    BY <1>1, <1>2, <2>1
  <2>3. /\ u \in Seq(UartByte) /\ Len(u) = Len(uart_rx) + Len(line)
        /\ \A i \in 1 .. Len(u) : u[i] = IF i <= Len(uart_rx') THEN uart_rx'[i]
                                        ELSE line'[i - Len(uart_rx')]
    BY <1>1, <2>1, <2>2, ConcatProperties
  <2>4. /\ v \in Seq(UartByte) /\ Len(v) = Len(uart_rx) + Len(line)
        /\ \A i \in 1 .. Len(v) : v[i] = IF i <= Len(uart_rx) THEN uart_rx[i]
                                        ELSE line[i - Len(uart_rx)]
    BY <1>2, ConcatProperties
  <2> HIDE DEF u, v
  <2>5. ASSUME NEW i \in 1 .. Len(u) PROVE u[i] = v[i]
    <3>1. CASE i <= Len(uart_rx)
      <4>1. i \in 1 .. Len(uart_rx) /\ i <= Len(uart_rx') /\ i \in 1 .. Len(v)
        BY <2>2, <2>3, <2>4, <3>1
      <4> QED
        BY <2>2, <2>3, <2>4, <3>1, <4>1
    <3>2. CASE i = Len(uart_rx) + 1
      <4>1. i <= Len(uart_rx') /\ ~(i <= Len(uart_rx)) /\ i - Len(uart_rx) = 1
        BY <2>2, <3>2
      <4> QED
        BY <2>2, <2>3, <2>4, <3>2, <4>1
    <3>3. CASE i > Len(uart_rx) + 1
      <4> DEFINE k == Len(uart_rx)
                 n == Len(line)
      <4>0. k \in Nat /\ n \in Nat /\ i \in 1 .. k + n /\ i > k + 1 /\ Len(uart_rx') = k + 1
        BY <2>1, <2>2, <2>3, <3>3
      <4> HIDE DEF k, n
      <4>01. /\ i - (k + 1) \in 1 .. n - 1 /\ ~(i <= k + 1) /\ ~(i <= k)
             /\ (i - (k + 1)) + 1 = i - k
        BY <4>0
      <4>1. /\ i - Len(uart_rx') \in 1 .. Len(line) - 1 /\ ~(i <= Len(uart_rx'))
            /\ ~(i <= Len(uart_rx)) /\ (i - Len(uart_rx')) + 1 = i - Len(uart_rx)
        BY <4>0, <4>01 DEF k, n
      <4> QED
        BY <1>1, <2>1, <2>3, <2>4, <4>1
    <3> QED
      BY <2>2, <2>3, <3>1, <3>2, <3>3
  <2>6. u = v
    BY <2>3, <2>4, <2>5, SeqEqual
  <2> QED
    BY <2>6 DEF u, v
<1>4. UartTypes /\ Kept
  BY DEF UartInv
<1>5. uart_rx' # << >>
  BY <1>1, <1>2
<1>6. InTime => InTime'
  <2>1. gap \in Int /\ gap <= MAX_GAP /\ MAX_GAP \in Nat /\ uart_esc_wait \in Nat
        /\ ESC_WAIT_TICKS \in Nat
    BY <1>4, KeyInputAssumption DEF UartTypes
  <2> QED
    BY <1>1, <1>5, <2>1 DEF InTime
<1>7. AtRest => AtRest'
  BY <1>1 DEF AtRest
<1>8. PICK s : s = uart_rx \o line /\ KeyBytes(s) /\ Started(s)
  BY <1>1 DEF UartInv
<1>9. Started(s)'
  <2>1. Len(s) \in Nat
    BY <1>8 DEF KeyBytes
  <2> QED
    BY <1>1, <1>6, <1>7, <1>8, <2>1, StartedKept
<1>10. UartTypes' /\ Kept'
  BY <1>1, <1>4, KeyInputAssumption DEF UartTypes, Kept
<1> QED
  BY <1>3, <1>8, <1>9, <1>10 DEF UartInv

\* The pass counts an ESC down: one that stands for itself is queued, one at the
\* start of a sequence has time left.
LEMMA UartTimeout ==
  ASSUME BootInv, UartInv, Esc_timeout
  PROVE  UartInv'
<1> USE DEF filter, csi, decoders, program, terminal, keyboard, history, events
<1>1. /\ pc = "tick" /\ pc' = "byte"
      /\ UNCHANGED <<uart_csi_param, soft_boot_state, line, gap, uart_rx, typed, hurry>>
  BY DEF Esc_timeout
<1>2. UartTypes /\ Kept
  BY DEF UartInv
<1>3. PICK s : s = uart_rx \o line /\ KeyBytes(s) /\ Started(s)
  BY <1>1 DEF UartInv
<1>4. PICK q : q = xInputQueue.uart
  OBVIOUS
<1>5. /\ uart_esc_wait \in Nat /\ gap \in 0 .. MAX_GAP /\ MAX_GAP \in Nat
      /\ ESC_WAIT_TICKS \in Nat /\ MAX_GAP + 2 <= ESC_WAIT_TICKS
      /\ NONE # ESC /\ SS3 # ESC /\ q \in Seq(Int) /\ DOMAIN xInputQueue = {"uart", "ps2"}
  BY <1>2, <1>4, KeyInputAssumption DEF UartTypes, NONE, ESC, SS3
<1>6. Len(s) \in Nat
  BY <1>3 DEF KeyBytes
<1>7. SUFFICES UartTypes' /\ Kept' /\ Started(s)'
  BY <1>1, <1>3 DEF UartInv
<1>8. CASE ~(uart_csi_filter_state = ESC /\ uart_esc_wait > 0)
  <2>1. UNCHANGED <<uart_esc_wait, uart_csi_filter_state, xInputQueue>>
    BY <1>8 DEF Esc_timeout
  <2>2. (InTime => InTime') /\ (AtRest => AtRest')
    <3>1. InTime => InTime'
      BY <1>1, <1>5, <2>1 DEF InTime
    <3>2. AtRest => AtRest'
      BY <1>1, <2>1 DEF AtRest
    <3> QED
      BY <3>1, <3>2
  <2>3. Started(s)'
    BY <1>1, <1>3, <1>6, <2>1, <2>2, StartedKept
  <2> QED
    BY <1>1, <1>2, <2>1, <2>3 DEF UartTypes, Kept
<1>9. CASE uart_csi_filter_state = ESC /\ uart_esc_wait > 0
  <2>1. uart_esc_wait' = uart_esc_wait - 1 /\ uart_esc_wait' \in Nat
    BY <1>5, <1>9 DEF Esc_timeout
  <2>2. CASE Len(s) > 0 /\ s[1].pos # 1
    <3>1. PICK m : m = s[1]
      OBVIOUS
    <3>2. AtMark(m) /\ m.pos # 1
      BY <1>3, <2>2, <3>1 DEF Started
    <3>3. m \in UartByte /\ m.pos \in 1 .. Len(Encoding[m.key])
      BY <1>3, <2>2, <3>1, KeyBytesTail
    <3>4. m.pos > 1
      BY <3>2, <3>3 DEF UartByte
    <3>5. m.key \in {"up", "f1", "f10"} /\ m.pos = 2 /\ InTime
      <4>1. FilterAt(m.key, m.pos) = ESC
        BY <1>9, <3>2, <3>4 DEF AtMark
      <4>2. m.key \in {"up", "f1", "f10"} /\ m.pos = 2
        BY <3>3, <3>4, <4>1, EscapeAtMark
      <4> QED
        BY <3>2, <3>4, <4>2 DEF AtMark
    <3>6. uart_esc_wait >= 2
      BY <1>1, <1>5, <3>5 DEF InTime
    <3>7. UNCHANGED <<uart_csi_filter_state, xInputQueue>>
      BY <1>5, <1>9, <3>6 DEF Esc_timeout
    <3>8. InTime'
      BY <1>1, <1>5, <2>1, <3>5, <3>6 DEF InTime
    <3>9. AtRest => AtRest'
      BY <1>1, <3>7 DEF AtRest
    <3>10. Started(s)'
      BY <1>1, <1>3, <1>6, <3>7, <3>8, <3>9, StartedKept
    <3> QED
      BY <1>1, <1>2, <2>1, <3>7, <3>10 DEF UartTypes, Kept
  <2>3. CASE ~(Len(s) > 0 /\ s[1].pos # 1)
    <3>1. AtRest
      BY <1>3, <1>6, <2>3 DEF Started, AtMark
    <3>2. hurry = "esc" /\ typed.uart = Append(q, 27)
      BY <1>4, <1>5, <1>9, <3>1 DEF AtRest
    <3>3. AtRest' => Started(s)'
      <4>1. PICK m : m = s[1]
        OBVIOUS
      <4>2. Len(s) # 0 => m.pos = 1
        BY <1>6, <2>3, <4>1
      <4>3. AtRest' /\ m.pos = 1 => AtMark(m)'
        BY DEF AtMark
      <4> QED
        BY <4>1, <4>2, <4>3 DEF Started
    <3>4. CASE uart_esc_wait = 1
      <4>1. uart_csi_filter_state' = NONE /\ Queue("uart", 27)
        BY <1>9, <3>4 DEF Esc_timeout
      <4>2. /\ xInputQueue'.uart = Append(q, 27) /\ DOMAIN xInputQueue' = {"uart", "ps2"}
        BY <1>4, <1>5, <4>1 DEF Queue
      <4>3. Append(q, 27) \in Seq(Int)
        BY <1>5
      <4>4. AtRest'
        BY <1>1, <3>2, <4>1, <4>2 DEF AtRest
      <4> QED
        BY <1>1, <1>2, <2>1, <3>2, <3>3, <4>2, <4>3, <4>4 DEF UartTypes, Kept
    <3>5. CASE uart_esc_wait # 1
      <4>1. UNCHANGED <<uart_csi_filter_state, xInputQueue>>
        BY <1>9, <3>5 DEF Esc_timeout
      <4>2. AtRest'
        BY <1>1, <3>1, <4>1 DEF AtRest
      <4> QED
        BY <1>1, <1>2, <2>1, <3>3, <4>1, <4>2 DEF UartTypes, Kept
    <3> QED
      BY <3>4, <3>5
  <2> QED
    BY <2>2, <2>3
<1> QED
  BY <1>8, <1>9

LEMMA UartSilent ==
  ASSUME BootInv, UartInv, No_byte
  PROVE  UartInv'
<1> USE DEF filter, csi, decoders, program, terminal, keyboard, history, events
<1>1. /\ pc = "byte" /\ uart_rx = << >> /\ pc' = "ps2"
      /\ IF line = << >> THEN gap' = gap ELSE gap < MAX_GAP /\ gap' = gap + 1
      /\ UNCHANGED <<uart_csi_filter_state, uart_esc_wait, uart_csi_param, soft_boot_state,
                     line, uart_rx, typed, hurry, xInputQueue>>
  BY DEF No_byte
<1>2. UartTypes /\ Kept
  BY DEF UartInv
<1>3. PICK s : s = uart_rx \o line /\ KeyBytes(s) /\ Started(s)
  BY <1>1 DEF UartInv
<1>4. /\ uart_esc_wait \in Nat /\ gap \in 0 .. MAX_GAP /\ MAX_GAP \in Nat
      /\ ESC_WAIT_TICKS \in Nat /\ Len(s) \in Nat
  BY <1>2, <1>3, KeyInputAssumption DEF UartTypes, KeyBytes
<1>5. gap' \in 0 .. MAX_GAP
  BY <1>1, <1>4
<1>6. line = << >> => Len(s) = 0
  BY <1>1, <1>3
<1>7. Len(s) > 0 /\ InTime => InTime'
  BY <1>1, <1>4, <1>6 DEF InTime
<1>8. AtRest => AtRest'
  BY <1>1 DEF AtRest
<1>9. Started(s)'
  BY <1>1, <1>3, <1>4, <1>7, <1>8, StartedKept
<1>10. UartTypes' /\ Kept'
  BY <1>1, <1>2, <1>5 DEF UartTypes, Kept
<1> QED
  BY <1>1, <1>3, <1>9, <1>10 DEF UartInv

LEMMA HeadOfConcat ==
  ASSUME NEW u \in Seq(UartByte), NEW v \in Seq(UartByte), u # << >>
  PROVE  /\ u \o v \in Seq(UartByte) /\ (u \o v)[1] = Head(u) /\ Len(u \o v) \in Nat
         /\ Len(u \o v) >= 1 /\ Tail(u \o v) = Tail(u) \o v
<1> DEFINE c == u \o v
           d == Tail(u) \o v
<1>1. /\ Len(u) \in Nat /\ Len(v) \in Nat /\ Len(u) >= 1 /\ Head(u) = u[1]
      /\ Tail(u) \in Seq(UartByte) /\ Len(Tail(u)) = Len(u) - 1
      /\ \A i \in 1 .. Len(u) - 1 : Tail(u)[i] = u[i+1]
  OBVIOUS
<1>2. /\ c \in Seq(UartByte) /\ Len(c) = Len(u) + Len(v)
      /\ \A i \in 1 .. Len(u) + Len(v) : c[i] = IF i <= Len(u) THEN u[i] ELSE v[i - Len(u)]
  BY ConcatProperties
<1>3. /\ d \in Seq(UartByte) /\ Len(d) = Len(Tail(u)) + Len(v)
      /\ \A i \in 1 .. Len(Tail(u)) + Len(v) :
           d[i] = IF i <= Len(Tail(u)) THEN Tail(u)[i] ELSE v[i - Len(Tail(u))]
  BY <1>1, ConcatProperties
<1> HIDE DEF c, d
<1>4. Len(c) \in Nat /\ Len(c) >= 1 /\ c[1] = u[1] /\ c # << >>
  BY <1>1, <1>2
<1>5. /\ Tail(c) \in Seq(UartByte) /\ Len(Tail(c)) = Len(c) - 1
      /\ \A i \in 1 .. Len(c) - 1 : Tail(c)[i] = c[i+1]
  BY <1>2, <1>4
<1>6. ASSUME NEW i \in 1 .. Len(c) - 1 PROVE Tail(c)[i] = d[i]
  <2>1. i + 1 \in 1 .. Len(u) + Len(v) /\ i \in 1 .. Len(Tail(u)) + Len(v)
    BY <1>1, <1>2
  <2>2. CASE i + 1 <= Len(u)
    <3>1. i <= Len(Tail(u)) /\ i \in 1 .. Len(u) - 1
      BY <1>1, <2>2
    <3> QED
      BY <1>1, <1>2, <1>3, <1>5, <2>1, <2>2, <3>1
  <2>3. CASE ~(i + 1 <= Len(u))
    <3>1. ~(i <= Len(Tail(u))) /\ i - Len(Tail(u)) = (i + 1) - Len(u)
      BY <1>1, <2>3
    <3> QED
      BY <1>2, <1>3, <1>5, <2>1, <2>3, <3>1
  <2> QED
    BY <2>2, <2>3
<1>7. Len(d) = Len(c) - 1
  BY <1>1, <1>2, <1>3
<1>8. Tail(c) = d
  BY <1>3, <1>5, <1>6, <1>7, SeqEqual
<1> QED
  BY <1>1, <1>2, <1>4, <1>8 DEF c, d

LEMMA AppendFacts ==
  ASSUME NEW q \in Seq(Int), NEW c \in Int
  PROVE  /\ Append(q, c) \in Seq(Int) /\ Append(q, c) # q /\ Front(Append(q, c)) = q
         /\ q \o <<c>> = Append(q, c) /\ q \o << >> = q
<1> DEFINE a == Append(q, c)
<1>1. /\ a \in Seq(Int) /\ Len(a) = Len(q) + 1 /\ Len(q) \in Nat
      /\ \A i \in 1 .. Len(q) : a[i] = q[i]
  OBVIOUS
<1> HIDE DEF a
<1>2. a # q
  BY <1>1
<1>3. Front(a) = q
  <2> DEFINE f == SubSeq(a, 1, Len(q))
  <2>1. f \in Seq(Int) /\ Len(f) = Len(q) /\ \A i \in 1 .. Len(q) : f[i] = a[i]
    BY <1>1, StartOf
  <2> HIDE DEF f
  <2>2. f = q
    BY <1>1, <2>1, SeqEqual
  <2>3. Len(a) - 1 = Len(q)
    BY <1>1
  <2> QED
    BY <2>2, <2>3 DEF f, Front
<1>4. q \o <<c>> = Append(q, c) /\ q \o << >> = q
  OBVIOUS
<1> QED
  BY <1>1, <1>2, <1>3, <1>4 DEF a

\* What is due for the byte m: nothing if it is lost, else what it completes,
\* behind all that is queued.
LEMMA DueAtMark ==
  ASSUME UartTypes, NEW m \in UartByte, m.pos \in 1 .. Len(Encoding[m.key]), AtMark(m), Due(m)
  PROVE  /\ DOMAIN typed' = {"uart", "ps2"}
         /\ typed'.uart = IF Lost(m) THEN xInputQueue.uart
                          ELSE xInputQueue.uart \o Meaning[m.key][m.pos]
         /\ hurry' = IF m.key = "esc" THEN "esc"
                     ELSE IF Lost(m) /\ uart_csi_filter_state = ESC /\ m.byte = 79 THEN "esc O"
                     ELSE "no"
<1> DEFINE q    == xInputQueue.uart
           esc  == hurry = "esc" /\ q # typed.uart
           kept == IF m.pos = 1 /\ esc THEN Front(typed.uart) ELSE typed.uart
           lost == m.pos = 1 /\ m.byte # 27 /\ (esc \/ hurry = "esc O")
<1>1. /\ typed' = [typed EXCEPT !.uart = IF lost THEN kept ELSE kept \o Meaning[m.key][m.pos]]
      /\ hurry' = IF m.key = "esc" THEN "esc" ELSE IF lost /\ esc /\ m.byte = 79 THEN "esc O" ELSE "no"
  BY DEF Due
<1>2. q \in Seq(Int) /\ DOMAIN typed = {"uart", "ps2"} /\ m.pos \in Nat /\ m.pos >= 1
  BY DEF UartTypes, UartByte
<1>3. Append(q, 27) # q /\ Front(Append(q, 27)) = q
  BY <1>2, AppendFacts
<1>4. NONE # ESC /\ NONE # SS3 /\ ESC # SS3
  BY DEF NONE, ESC, SS3
<1>5. kept = q /\ (lost <=> Lost(m)) /\ (Lost(m) => (esc <=> uart_csi_filter_state = ESC))
  <2>1. CASE m.pos > 1
    <3>1. typed.uart = q /\ m.pos # 1
      BY <1>2, <2>1 DEF AtMark
    <3>2. ~lost /\ ~Lost(m) /\ kept = q
      BY <3>1 DEF Lost
    <3> QED
      BY <3>2
  <2>2. CASE m.pos = 1
    <3>1. AtRest
      BY <2>2 DEF AtMark
    <3>2. CASE uart_csi_filter_state = NONE
      BY <1>4, <2>2, <3>1, <3>2 DEF AtRest, Lost
    <3>3. CASE uart_csi_filter_state = ESC
      BY <1>3, <1>4, <2>2, <3>1, <3>3 DEF AtRest, Lost
    <3>4. CASE uart_csi_filter_state = SS3
      BY <1>4, <2>2, <3>1, <3>4 DEF AtRest, Lost
    <3> QED
      BY <3>1, <3>2, <3>3, <3>4 DEF AtRest
  <2>3. m.pos > 1 \/ m.pos = 1
    BY <1>2
  <2> HIDE DEF kept, lost, esc
  <2> QED
    BY <2>1, <2>2, <2>3
<1> HIDE DEF kept, lost, esc
<1>6. typed'.uart = (IF lost THEN kept ELSE kept \o Meaning[m.key][m.pos])
      /\ DOMAIN typed' = {"uart", "ps2"}
  BY <1>1, <1>2
<1>7. hurry' = IF m.key = "esc" THEN "esc"
               ELSE IF Lost(m) /\ uart_csi_filter_state = ESC /\ m.byte = 79 THEN "esc O" ELSE "no"
  BY <1>1, <1>5
<1>8. typed'.uart = IF Lost(m) THEN q ELSE q \o Meaning[m.key][m.pos]
  BY <1>5, <1>6
<1> QED
  BY <1>6, <1>7, <1>8

\* What a byte completes is one character or none.
LEMMA MeaningFacts ==
  ASSUME NEW m \in UartByte, m.pos \in 1 .. Len(Encoding[m.key])
  PROVE  /\ Meaning[m.key][m.pos] # << >> =>
              /\ Meaning[m.key][m.pos] = <<Meaning[m.key][m.pos][1]>>
              /\ Meaning[m.key][m.pos][1] \in Int
         /\ m.key = "esc" => m.pos = 1 /\ Meaning[m.key][m.pos] = <<27>> /\ Encoding[m.key][1] = 27
<1>1. m.key \in DOMAIN Encoding /\ m.pos \in Nat
  BY KeysAssumption DEF UartByte
<1>2. CASE m.key = "up"
  <2>1. m.pos \in 1 .. 3
    BY <1>2, KeyTable
  <2>2. m.pos \in 1 .. 2 => Meaning["up"][m.pos] = << >>
    BY KeyTable
  <2>3. Meaning["up"][3] = <<144>>
    BY KeyTable
  <2> QED
    BY <1>2, <2>1, <2>2, <2>3
<1>3. CASE m.key = "f1"
  <2>1. m.pos \in 1 .. 3
    BY <1>3, KeyTable
  <2>2. m.pos \in 1 .. 2 => Meaning["f1"][m.pos] = << >>
    BY KeyTable
  <2>3. Meaning["f1"][3] = <<128>>
    BY KeyTable
  <2> QED
    BY <1>3, <2>1, <2>2, <2>3
<1>4. CASE m.key = "f10"
  <2>1. m.pos \in 1 .. 5
    BY <1>4, KeyTable
  <2>2. m.pos \in 1 .. 4 => Meaning["f10"][m.pos] = << >>
    BY KeyTable
  <2>3. Meaning["f10"][5] = <<137>>
    BY KeyTable
  <2> QED
    BY <1>4, <2>1, <2>2, <2>3
<1>5. CASE m.key \in {"esc", "nul", "B", "O", "dump"}
  <2>1. \A k \in {"esc", "nul", "B", "O", "dump"} : Len(Encoding[k]) = 1
    <3>1. Len(Encoding["esc"]) = 1
      BY KeyTable
    <3>2. Len(Encoding["nul"]) = 1
      BY KeyTable
    <3>3. Len(Encoding["B"]) = 1
      BY KeyTable
    <3>4. Len(Encoding["O"]) = 1
      BY KeyTable
    <3>5. Len(Encoding["dump"]) = 1
      BY KeyTable
    <3> QED
      BY <3>1, <3>2, <3>3, <3>4, <3>5
  <2>2. m.pos = 1
    <3>1. \A p : p \in 1 .. 1 => p = 1
      OBVIOUS
    <3>2. m.pos \in 1 .. 1
      BY <1>5, <2>1
    <3> QED
      BY <3>1, <3>2
  <2>3. CASE m.key = "esc"
    BY <2>2, <2>3, KeyTable
  <2>4. CASE m.key = "nul"
    BY <2>2, <2>4, KeyTable
  <2>5. CASE m.key = "B"
    BY <2>2, <2>5, KeyTable
  <2>6. CASE m.key = "O"
    BY <2>2, <2>6, KeyTable
  <2>7. CASE m.key = "dump"
    BY <2>2, <2>7, KeyTable
  <2> QED
    BY <1>5, <2>3, <2>4, <2>5, <2>6, <2>7
<1>6. CASE m.key = "boot"
  <2>1. m.pos \in 1 .. 6
    BY <1>6, KeyTable
  <2>2. soft_boot_seq[m.pos] \in Int
    BY <2>1 DEF soft_boot_seq
  <2>3. Meaning["boot"][m.pos] = IF m.pos < 6 THEN <<soft_boot_seq[m.pos]>> ELSE << >>
    BY <2>1, KeyTable
  <2> QED
    BY <1>6, <2>2, <2>3
<1> QED
  BY <1>1, <1>2, <1>3, <1>4, <1>5, <1>6, KeyTable

\* One byte is taken off the UART.
LEMMA UartTaken ==
  ASSUME BootInv, UartInv, Byte
  PROVE  UartInv'
<1> USE DEF filter, csi, decoders, program, terminal, keyboard, history, events
<1>0. PICK m, byte, q, r, f :
        /\ m = Head(uart_rx) /\ byte = m.byte /\ q = xInputQueue.uart /\ r = xInputQueue'.uart
        /\ f = soft_boot_seq_feed(byte)
  OBVIOUS
<1>1. pc = "byte" /\ pc # "boot" /\ uart_rx # << >> /\ uart_rx' = Tail(uart_rx)
      /\ UNCHANGED <<line, gap>>
  BY DEF Byte
<1>2. UartTypes /\ Kept
  BY DEF UartInv
<1>a. PICK s : s = uart_rx \o line /\ KeyBytes(s) /\ Started(s)
  BY <1>1 DEF UartInv
<1>3. /\ uart_rx \in Seq(UartByte) /\ line \in Seq(UartByte) /\ gap = 0 /\ gap' = 0
      /\ soft_boot_state \in 0 .. 5 /\ q \in Seq(Int)
  BY <1>0, <1>1, <1>2 DEF BootInv, UartTypes
<1>4. CASE f = 6
  <2>1. pc' = "boot" /\ UNCHANGED <<uart_esc_wait, uart_csi_param, xInputQueue, typed, hurry>>
    BY <1>0, <1>4 DEF Byte
  <2>2. UartTypes' /\ Kept'
    BY <1>1, <1>2, <1>3, <2>1 DEF UartTypes, Kept
  <2> QED
    BY <2>1, <2>2 DEF UartInv
<1>5. CASE f # 6
  <2>1. /\ soft_boot_state' = f /\ Due(m)
        /\ \/ Byte_escape(byte) \/ Byte_after_escape(byte) \/ Byte_in_csi(byte)
           \/ Byte_in_ss3(byte) \/ Byte_plain(byte)
    BY <1>0, <1>5 DEF Byte
  <2>a. /\ s[1] = m /\ Tail(s) = uart_rx' \o line' /\ Len(s) >= 1 /\ Len(s) \in Nat
    BY <1>0, <1>1, <1>3, <1>a, HeadOfConcat
  <2>2. PICK t : t = Tail(s)
    OBVIOUS
  <2>3. /\ KeyBytes(t) /\ Len(t) = Len(s) - 1 /\ m \in UartByte
        /\ m.pos \in 1 .. Len(Encoding[m.key]) /\ byte = Encoding[m.key][m.pos]
        /\ IF Len(s) = 1 THEN m.pos = Len(Encoding[m.key]) ELSE Follows(m, t[1])
    <3>1. Len(s) > 0
      BY <2>a
    <3> QED
      BY <1>0, <1>a, <2>2, <2>a, <3>1, KeyBytesTail
  <2>4. AtMark(m)
    BY <1>a, <2>a DEF Started
  <2>5. /\ m.key \in UART_KEYS /\ m.pos \in Nat /\ Len(Encoding[m.key]) \in 1 .. 6
        /\ Len(Encoding[m.key]) > 1 <=> m.key \in {"up", "f1", "f10", "boot"}
    BY <2>3, KeyFirst DEF UartByte
  <2>6. m.key = "boot" => f = m.pos /\ m.pos # 6
    <3>1. SUFFICES ASSUME m.key = "boot" PROVE f = m.pos /\ m.pos # 6
      OBVIOUS
    <3>2. Len(Encoding["boot"]) = 6
      BY KeyTable
    <3>3. m.pos \in 1 .. 6 /\ byte = Encoding["boot"][m.pos]
      BY <2>3, <3>1, <3>2
    <3>4. m.pos > 1 => soft_boot_state = m.pos - 1
      BY <2>4, <3>1 DEF AtMark
    <3> QED
      BY <1>0, <1>3, <1>5, <3>3, <3>4, BootAtMark
  <2>7. ByteDone(m)
    BY <1>0, <1>2, <2>1, <2>3, <2>4, <2>6, ByteAtMark
  <2>8. /\ DOMAIN typed' = {"uart", "ps2"}
        /\ typed'.uart = (IF Lost(m) THEN q ELSE q \o Meaning[m.key][m.pos])
        /\ hurry' = (IF m.key = "esc" THEN "esc"
                     ELSE IF Lost(m) /\ uart_csi_filter_state = ESC /\ m.byte = 79 THEN "esc O"
                     ELSE "no")
    BY <1>0, <1>2, <2>1, <2>3, <2>4, DueAtMark
  <2>9. /\ Meaning[m.key][m.pos] # << >> =>
             /\ Meaning[m.key][m.pos] = <<Meaning[m.key][m.pos][1]>>
             /\ Meaning[m.key][m.pos][1] \in Int
        /\ m.key = "esc" => m.pos = 1 /\ Meaning[m.key][m.pos] = <<27>> /\ byte = 27
    BY <2>3, MeaningFacts
  <2> DEFINE c == Meaning[m.key][m.pos][1]
  <2>10. /\ r \in Seq(Int) /\ DOMAIN xInputQueue' = {"uart", "ps2"} /\ typed'.uart \in Seq(Int)
         /\ m.key # "esc" => typed'.uart = r
         /\ m.key = "esc" => typed'.uart = Append(r, 27)
    <3>1. IF Yields(m) THEN r = Append(q, c) ELSE r = q
      BY <1>0, <2>7 DEF ByteDone
    <3>2. DOMAIN xInputQueue' = {"uart", "ps2"}
      BY <2>7 DEF ByteDone
    <3>3. CASE m.key = "esc"
      <4>1. ~Yields(m) /\ ~Lost(m)
        BY <1>0, <2>9, <3>3 DEF Yields, Lost
      <4>2. typed'.uart = q \o <<27>> /\ r = q
        BY <1>0, <2>8, <2>9, <3>1, <3>3, <4>1
      <4> QED
        BY <1>3, <3>2, <3>3, <4>2, AppendFacts
    <3>4. CASE m.key # "esc" /\ Yields(m)
      <4>1. typed'.uart = q \o <<c>> /\ r = Append(q, c) /\ c \in Int
        BY <1>0, <2>8, <2>9, <3>1, <3>4 DEF Yields
      <4> QED
        BY <1>3, <3>2, <3>4, <4>1, AppendFacts
    <3>5. CASE m.key # "esc" /\ ~Yields(m)
      <4>1. typed'.uart = q \/ typed'.uart = q \o << >>
        BY <1>0, <2>8, <3>5 DEF Yields
      <4> QED
        BY <1>3, <3>1, <3>2, <3>5, <4>1, AppendFacts
    <3> QED
      BY <3>3, <3>4, <3>5
  <2>11. /\ pc' \in {"tick", "ps2"} /\ uart_esc_wait' \in Nat /\ uart_csi_param' \in Nat
         /\ uart_csi_filter_state' =
              (IF Lost(m) /\ uart_csi_filter_state = ESC /\ m.byte = 79 THEN SS3
               ELSE IF m.pos < Len(Encoding[m.key]) THEN FilterAt(m.key, m.pos + 1)
               ELSE IF m.key = "esc" THEN ESC ELSE NONE)
         /\ uart_csi_filter_state' = ESC => uart_esc_wait' = ESC_WAIT_TICKS
         /\ m.key = "f10" => /\ m.pos \in 1 .. 2 => uart_csi_param' = 0
                             /\ m.pos = 3 => uart_csi_param' = 2
                             /\ m.pos = 4 => uart_csi_param' = 21
    BY <2>7 DEF ByteDone
  <2> HIDE DEF c
  <2>12. UartTypes'
    BY <1>0, <1>1, <1>2, <1>3, <2>8, <2>10, <2>11 DEF UartTypes
  <2>13. Kept'
    BY <1>0, <2>8, <2>10 DEF Kept
  <2>14. Lost(m) /\ m.byte = 79 => m.key = "O" /\ m.pos = 1 /\ Len(Encoding[m.key]) = 1
    <3>1. Lost(m) /\ m.byte = 79 => m.key = "O" /\ m.pos = 1
      BY <1>0, <2>3, <2>5, KeyFirst DEF Lost
    <3>2. Len(Encoding["O"]) = 1
      BY KeyTable
    <3> QED
      BY <3>1, <3>2
  <2>15. ~(m.pos < Len(Encoding[m.key])) => AtRest'
    <3>1. SUFFICES ASSUME ~(m.pos < Len(Encoding[m.key])) PROVE AtRest'
      OBVIOUS
    <3>2. CASE m.key = "esc"
      <4>1. ~Lost(m)
        BY <1>0, <2>9, <3>2 DEF Lost
      <4> QED
        BY <1>0, <2>8, <2>10, <2>11, <3>1, <3>2, <4>1 DEF AtRest
    <3>3. CASE m.key # "esc"
      BY <1>0, <2>8, <2>10, <2>11, <3>1, <3>3 DEF AtRest
    <3> QED
      BY <3>2, <3>3
  <2>16. Started(t)'
    <3>1. CASE Len(s) = 1
      <4>1. Len(t) = 0 /\ ~(m.pos < Len(Encoding[m.key]))
        BY <2>3, <2>5, <3>1
      <4> QED
        BY <2>15, <4>1 DEF Started
    <3>2. CASE Len(s) # 1
      <4>0. PICK n : n = t[1]
        OBVIOUS
      <4>1. Len(t) > 0 /\ Follows(m, n)
        BY <2>a, <2>3, <3>2, <4>0
      <4>2. CASE m.pos < Len(Encoding[m.key])
        <5>1. n.key = m.key /\ n.pos = m.pos + 1 /\ n.pos > 1 /\ n.pos # 1
          <6>1. n.key = m.key /\ n.pos = m.pos + 1
            BY <4>1, <4>2 DEF Follows
          <6>2. m.pos \in Nat /\ m.pos >= 1
            BY <2>3, <2>5
          <6> QED
            BY <6>1, <6>2
        <5>2. m.key # "esc" /\ ~(Lost(m) /\ m.byte = 79)
          <6>1. PICK N : N = Len(Encoding[m.key])
            OBVIOUS
          <6>2. N \in Nat /\ m.pos \in Nat /\ m.pos >= 1 /\ m.pos < N
            BY <2>3, <2>5, <4>2, <6>1
          <6>3. N > 1
            BY <6>2
          <6> QED
            BY <2>5, <2>14, <6>1, <6>3
        <5>3. uart_csi_filter_state' = FilterAt(n.key, n.pos) /\ typed'.uart = xInputQueue'.uart
          BY <1>0, <2>10, <2>11, <4>2, <5>1, <5>2
        <5>4. n.key = "f10" => /\ n.pos \in 2 .. 3 => uart_csi_param' = 0
                               /\ n.pos = 4 => uart_csi_param' = 2
                               /\ n.pos = 5 => uart_csi_param' = 21
          BY <2>5, <2>11, <5>1
        <5>5. n.key = "boot" => soft_boot_state' = n.pos - 1
          BY <2>1, <2>5, <2>6, <5>1
        <5>6. n.key \in {"up", "f1", "f10"} /\ n.pos = 2 => InTime'
          <6>1. SUFFICES ASSUME n.key \in {"up", "f1", "f10"}, n.pos = 2 PROVE InTime'
            OBVIOUS
          <6>2. uart_esc_wait' = ESC_WAIT_TICKS
            BY <2>11, <5>3, <6>1 DEF FilterAt
          <6>3. ESC_WAIT_TICKS \in Nat /\ MAX_GAP \in Nat
            BY KeyInputAssumption
          <6> QED
            BY <1>3, <6>2, <6>3 DEF InTime
        <5>7. AtMark(n)'
          BY <5>1, <5>3, <5>4, <5>5, <5>6 DEF AtMark
        <5> QED
          BY <4>0, <4>1, <5>7 DEF Started
      <4>3. CASE ~(m.pos < Len(Encoding[m.key]))
        <5>1. n.pos = 1
          BY <4>1, <4>3 DEF Follows
        <5>2. AtMark(n)'
          BY <2>15, <4>3, <5>1 DEF AtMark
        <5> QED
          BY <4>0, <4>1, <5>2 DEF Started
      <4> QED
        BY <4>2, <4>3
    <3> QED
      BY <3>1, <3>2
  <2> QED
    BY <2>2, <2>a, <2>3, <2>12, <2>13, <2>16 DEF UartInv
<1> QED
  BY <1>4, <1>5

LEMMA UartInvInit == Init => UartInv
<1> SUFFICES ASSUME Init PROVE UartInv
  OBVIOUS
<1>1. /\ xInputQueue = [uart |-> << >>, ps2 |-> << >>] /\ typed = [uart |-> << >>, ps2 |-> << >>]
      /\ uart_rx = << >> /\ line = << >> /\ uart_csi_filter_state = NONE /\ hurry = "no"
      /\ uart_esc_wait = 0 /\ uart_csi_param = 0 /\ gap = 0
  BY DEF Init
<1>2. UartTypes /\ Kept
  BY <1>1, KeyInputAssumption DEF UartTypes, Kept
<1>3. uart_rx \o line = << >>
  BY <1>1
<1>4. KeyBytes(<< >>)
  BY DEF KeyBytes
<1>5. Started(<< >>)
  BY <1>1 DEF Started, AtRest
<1> QED
  BY <1>2, <1>3, <1>4, <1>5 DEF UartInv

LEMMA UartInvStep ==
  ASSUME BootInv, UartInv, [Next]_vars
  PROVE  UartInv'
<1> USE DEF filter, csi, decoders, program, terminal, keyboard, history, events
<1>0. DOMAIN xInputQueue = {"uart", "ps2"} /\ DOMAIN typed = {"uart", "ps2"}
  BY DEF UartInv, UartTypes
<1>1. ASSUME NEW k \in UART_KEYS, Type(k) PROVE UartInv'
  BY <1>1, UartType
<1>2. CASE Uart_byte
  BY <1>2, UartArrives
<1>3. ASSUME NEW k \in PS2_KEYS, Press(k) PROVE UartInv'
  BY <1>0, <1>3, UartInvElse DEF Press
<1>4. ASSUME NEW k \in PS2_KEYS, Release(k) PROVE UartInv'
  BY <1>0, <1>4, UartInvElse DEF Release
<1>5. CASE Esc_timeout
  BY <1>5, UartTimeout
<1>6. CASE No_byte
  BY <1>6, UartSilent
<1>7. CASE Byte
  BY <1>7, UartTaken
<1>8. CASE Ps2_enter
  BY <1>0, <1>8, UartInvElse DEF Ps2_enter
<1>9. CASE Ps2_byte
  <2>1. /\ UNCHANGED <<uart_csi_filter_state, uart_esc_wait, uart_csi_param, soft_boot_state,
                       line, gap, uart_rx, hurry>>
        /\ pc = "data" /\ pc' = "loop"
        /\ xInputQueue' = xInputQueue \/ \E c : Queue("ps2", c)
        /\ typed' = typed \/ \E c : typed' = [typed EXCEPT !.ps2 = Append(@, c)]
    BY <1>9 DEF Ps2_byte
  <2>2. /\ DOMAIN xInputQueue' = {"uart", "ps2"} /\ xInputQueue'.uart = xInputQueue.uart
        /\ DOMAIN typed' = {"uart", "ps2"} /\ typed'.uart = typed.uart
    BY <1>0, <2>1 DEF Queue
  <2> QED
    BY <2>1, <2>2, UartInvElse
<1>10. CASE Ps2_ready
  BY <1>0, <1>10, UartInvElse DEF Ps2_ready
<1>11. CASE Ps2_nothing
  BY <1>0, <1>11, UartInvElse DEF Ps2_nothing
<1>12. CASE Pass_end
  BY <1>0, <1>12, UartInvElse DEF Pass_end
<1>13. ASSUME NEW p \in {"ps2", "twm"}, Launch(p) PROVE UartInv'
  BY <1>0, <1>13, UartInvElse DEF Launch
<1>14. CASE Program_init
  BY <1>0, <1>14, UartInvElse DEF Program_init
<1>15. CASE Monitor_byte
  BY <1>0, <1>15, UartInvElse DEF Monitor_byte
<1>16. CASE Tiling_byte
  BY <1>0, <1>16, UartInvElse DEF Tiling_byte
<1>17. CASE Program_exit
  BY <1>0, <1>17, UartInvElse DEF Program_exit
<1>18. CASE UNCHANGED vars
  BY <1>0, <1>18, UartInvElse DEF vars
<1> QED
  BY <1>1, <1>2, <1>3, <1>4, <1>5, <1>6, <1>7, <1>8, <1>9, <1>10, <1>11, <1>12, <1>13, <1>14,
     <1>15, <1>16, <1>17, <1>18 DEF Next, Pass

-----------------------------------------------------------------------------
(***************************************************************************)
(* The keys of the keyboard: a decoder in step, with no modifier of the    *)
(* character in doubt, yields the character of the key.                    *)
(***************************************************************************)
LEMMA SameChar ==
  ASSUME NEW d \in Decoder, NEW e \in EventByte, Good(e),
         Expects(d.ext_prefix, d.break_prefix, e),
         NEW s, NEW U, U \cap Shaping = {}, d.mods \ U = s.mods \ U, d.locks \ U = s.locks \ U
  PROVE  DecChar(d, e.byte) =
           {c \in {Ascii(e.key.code, e.key.ext, s.mods, s.locks)} :
              c.as # "none" /\ e.press /\ e.last}
<1>1. e.key \in PS2_KEYS /\ e.press \in BOOLEAN /\ e.last \in BOOLEAN
  BY DEF EventByte
<1>2. CASE ~e.last
  BY <1>2 DEF Expects, DecChar
<1>3. CASE e.last /\ ~e.press
  BY <1>3 DEF Expects, DecChar
<1>4. CASE e.last /\ e.press
  <2>1. /\ e.byte # E0 /\ e.byte # F0 /\ e.byte = e.key.code /\ e.key.ext \in BOOLEAN
        /\ ~d.break_prefix /\ (d.ext_prefix <=> e.key.ext) /\ d.ext_prefix \in BOOLEAN
    BY <1>1, <1>4, KeyFacts DEF Expects, Decoder, Good
  <2>2. d.ext_prefix = e.key.ext
    BY <2>1
  <2>3. /\ d.mods \cap {"shift_l", "shift_r"} = s.mods \cap {"shift_l", "shift_r"}
        /\ d.mods \cap {"ctrl_l", "ctrl_r"} = s.mods \cap {"ctrl_l", "ctrl_r"}
        /\ "caps_lock" \in d.locks <=> "caps_lock" \in s.locks
    BY DEF Shaping
  <2>4. ("caps_lock" \in d.locks) = ("caps_lock" \in s.locks)
    BY <2>3
  <2>5. Ascii(e.key.code, e.key.ext, d.mods, d.locks) = Ascii(e.key.code, e.key.ext, s.mods, s.locks)
    BY <2>3, <2>4, Zenon DEF Ascii
  <2> QED
    BY <1>4, <2>1, <2>2, <2>5 DEF DecChar
<1> QED
  BY <1>1, <1>2, <1>3, <1>4

Ps2Inv == /\ DOMAIN xInputQueue = {"uart", "ps2"} /\ DOMAIN typed = {"uart", "ps2"}
          /\ xInputQueue.ps2 = typed.ps2

LEMMA Ps2InvElse ==
  ASSUME Ps2Inv, UNCHANGED <<xInputQueue, typed>>
  PROVE  Ps2Inv'
BY DEF Ps2Inv

LEMMA Ps2InvStep ==
  ASSUME DecoderInv, Ps2Inv, [Next]_vars
  PROVE  Ps2Inv'
<1> USE DEF filter, csi, decoders, program, terminal, keyboard, history, events
<1>0. DOMAIN xInputQueue = {"uart", "ps2"} /\ DOMAIN typed = {"uart", "ps2"}
  BY DEF Ps2Inv
<1>1. CASE Esc_timeout
  <2>1. typed' = typed /\ (xInputQueue' = xInputQueue \/ Queue("uart", 27))
    BY <1>1 DEF Esc_timeout
  <2> QED
    BY <1>0, <2>1 DEF Ps2Inv, Queue
<1>2. CASE Byte
  <2>1. /\ typed' = typed \/ \E x : typed' = [typed EXCEPT !.uart = x]
        /\ xInputQueue' = xInputQueue \/ \E c : Queue("uart", c)
    BY <1>2 DEF Byte, Byte_escape, Byte_after_escape, Byte_in_csi, Byte_in_ss3, Byte_plain,
                QueueIf, Due
  <2>2. /\ DOMAIN typed' = {"uart", "ps2"} /\ typed'.ps2 = typed.ps2
        /\ DOMAIN xInputQueue' = {"uart", "ps2"} /\ xInputQueue'.ps2 = xInputQueue.ps2
    BY <1>0, <2>1 DEF Queue
  <2> QED
    BY <2>2 DEF Ps2Inv
<1>3. CASE Ps2_byte
  <2> DEFINE e == Head(ps2_rx)
             chars == DecChar(dec, e.byte)
             clear == InStep("dec", e) /\ doubt.dec \cap Shaping = {}
             due   == {c \in {Ascii(e.key.code, e.key.ext, seen.mods, seen.locks)} :
                         c.as # "none" /\ e.press /\ e.last}
             new   == IF clear THEN due ELSE chars
  <2>1. /\ ps2_rx # << >> /\ Stream(ps2_rx) /\ dec \in Decoder
        /\ Within(dec, step.dec, ps2_rx) /\ Agrees(dec, seen, step.dec, doubt.dec)
    BY <1>3 DEF Ps2_byte, DecoderInv
  <2>2. e \in EventByte /\ Good(e) /\ e = ps2_rx[1]
    BY <2>1, StreamTail
  <2>3. /\ IF chars = {} THEN UNCHANGED xInputQueue ELSE \E c \in chars : Queue("ps2", c)
        /\ IF new = {} THEN UNCHANGED typed
           ELSE \E c \in new : typed' = [typed EXCEPT !.ps2 = Append(@, c)]
    BY <1>3 DEF Ps2_byte
  <2> HIDE DEF e
  <2>4. new = chars
    <3>1. CASE clear
      <4>1. Expects(dec.ext_prefix, dec.break_prefix, e)
        <5>1. CASE e.first
          <6>1. ~dec.ext_prefix /\ ~dec.break_prefix
            BY <2>1, <3>1, <5>1 DEF InStep, Agrees, Whole
          <6> QED
            BY <2>2, <5>1, <6>1 DEF Good, Expects
        <5>2. CASE ~e.first
          BY <2>1, <2>2, <3>1, <5>2 DEF InStep, Within
        <5> QED
          BY <5>1, <5>2
      <4>2. chars = due
        BY <2>1, <2>2, <3>1, <4>1, SameChar DEF Agrees
      <4> QED
        BY <3>1, <4>2
    <3>2. CASE ~clear
      BY <3>2
    <3> QED
      BY <3>1, <3>2
  <2>5. \A a, b \in chars : a = b
    BY DEF DecChar
  <2> HIDE DEF chars, new
  <2>6. CASE chars = {}
    BY <2>3, <2>4, <2>6, Ps2InvElse
  <2>7. CASE chars # {}
    <3>1. PICK c \in chars : Queue("ps2", c)
      BY <2>3, <2>7
    <3>2. typed' = [typed EXCEPT !.ps2 = Append(@, c)]
      BY <2>3, <2>4, <2>5, <2>7
    <3> QED
      BY <1>0, <3>1, <3>2 DEF Queue, Ps2Inv
  <2> QED
    BY <2>6, <2>7
<1>4. CASE Uart_byte \/ No_byte \/ Ps2_enter \/ Ps2_ready \/ Ps2_nothing \/ Pass_end
  BY <1>4, Ps2InvElse DEF Uart_byte, No_byte, Ps2_enter, Ps2_ready, Ps2_nothing, Pass_end
<1>5. ASSUME NEW k \in UART_KEYS, Type(k) PROVE Ps2Inv'
  BY <1>5, Ps2InvElse DEF Type
<1>6. ASSUME NEW k \in PS2_KEYS, Press(k) \/ Release(k) PROVE Ps2Inv'
  BY <1>6, Ps2InvElse DEF Press, Release
<1>7. ASSUME NEW p \in {"ps2", "twm"}, Launch(p) PROVE Ps2Inv'
  BY <1>7, Ps2InvElse DEF Launch
<1>8. CASE Program_init \/ Monitor_byte \/ Tiling_byte \/ Program_exit
  BY <1>8, Ps2InvElse DEF Program_init, Monitor_byte, Tiling_byte, Program_exit
<1>9. CASE UNCHANGED vars
  BY <1>9, Ps2InvElse DEF vars
<1> QED
  BY <1>1, <1>2, <1>3, <1>4, <1>5, <1>6, <1>7, <1>8, <1>9 DEF Next, Pass

\* What is queued is what is due for the keys that were read, however the bytes
\* of the terminal, the passes of t_uart_input and the programs that take the
\* keyboard interleave: an ESC that starts a sequence has its next byte before
\* its time is up; a key that comes while a lone ESC waits costs that ESC and its
\* own first byte and nothing else; a character of a sequence is told from the
\* parameter read for this sequence alone; and a scan code that came whole, under
\* modifiers that are not in doubt, yields its own character.
THEOREM KeysSafe == Spec => []KeysAsTyped
<1> DEFINE Inv == BootInv /\ DecoderInv /\ UartInv /\ Ps2Inv
<1>1. Init => Inv
  <2>1. Init => Ps2Inv
    BY DEF Init, Ps2Inv
  <2> QED
    BY <2>1, BootInvInit, DecoderInvInit, UartInvInit
<1>2. Inv /\ [Next]_vars => Inv'
  BY BootInvStep, DecoderInvStep, UartInvStep, Ps2InvStep
<1>3. Inv => KeysAsTyped
  BY DEF UartInv, Kept, Ps2Inv, KeysAsTyped
<1> QED
  BY <1>1, <1>2, <1>3, PTL DEF Spec
=============================================================================
