------------------------------ MODULE KeyInput ------------------------------
(***************************************************************************)
(* Keys on their way to xInputQueue (de2shell_rtos/main.c, t_uart_input):  *)
(* the bytes of a terminal on the UART, with escape sequences, the timeout *)
(* of a lone ESC and the boot sequence; the scan codes of the PS/2         *)
(* keyboard; and the two programs that read the keyboard themselves: ps2.c *)
(* with a decoder of its own, twm.c with the decoder of t_uart_input.      *)
(* t_shell and the program's task have higher priorities than t_uart_input *)
(* and take the keyboard over at any byte.  Left out: the depth of the     *)
(* queue and what is dropped at its end (module Shell), the PS/2 receiver  *)
(* (Ps2Controller), the UART's overrun, a task that is stopped inside      *)
(* ps2_dec_feed.                                                           *)
(*                                                                         *)
(* History: typed, the characters due for the keys whose bytes were read;  *)
(* hurry, the key last read if it can cost the next one; raw, the bytes    *)
(* last read; seen, the modifiers and locks after all the key events that  *)
(* were read, by whomever; step and doubt, what each decoder missed of     *)
(* them.                                                                   *)
(***************************************************************************)
EXTENDS Ps2Decoder, Sequences, SequencesExt

CONSTANTS
  UART_KEYS,        \* keys of the terminal: a subset of DOMAIN Encoding
  PS2_KEYS,         \* keys of the keyboard: records [code, ext]
  BUDGETS,          \* how many keys are typed: records [uart, ps2, launch]
  ESC_WAIT_TICKS,   \* passes after which an ESC stands for itself (6)
  PS2_POLL_BUDGET,  \* scan codes read in one pass (8)
  MAX_GAP           \* passes between two bytes of a key of the terminal

ASSUME KeyInputAssumption ==
  /\ ESC_WAIT_TICKS \in Nat /\ PS2_POLL_BUDGET \in Nat \ {0}
  /\ MAX_GAP \in Nat /\ MAX_GAP + 2 <= ESC_WAIT_TICKS

VARIABLES
  pc, budget,                               \* t_uart_input
  uart_csi_filter_state, uart_esc_wait, uart_csi_param, soft_boot_state,
  g_vga_dump_req,
  dec, last_lock_mask,                      \* ps2_decoder.c, and its locks last sent
  active_prog, ready,                       \* the program; its init has run
  mon,                                      \* the decoder of ps2.c
  line, gap, uart_rx,                       \* terminal: bytes to come, passes since the last
  held, ps2_rx,                             \* keyboard: keys down, bytes to be read
  leds,                                     \* the lock mask the keyboard shows
  xInputQueue,                              \* all the keys queued, by where they are from
  left,                                     \* keys still to be typed
  typed, hurry, raw,                        \* history of the keys and the bytes,
  seen, step, doubt                         \* and of the key events

csi      == <<uart_csi_filter_state, uart_esc_wait, uart_csi_param>>
filter   == <<csi, soft_boot_state, g_vga_dump_req>>
decoders == <<dec, mon, last_lock_mask, leds>>
program  == <<active_prog, ready>>
terminal == <<line, gap, uart_rx>>
keyboard == <<held, ps2_rx>>
events   == <<seen, step, doubt>>
history  == <<typed, hurry, raw, events>>
vars     == <<pc, budget, filter, decoders, program, terminal, keyboard, xInputQueue, left, history>>

NONE == 0
ESC == 1
BRACKET == 2
SS3 == 3

VK(i) == 128 + i       \* PS2_VK_F1 + i
UP    == 144
soft_boot_seq == <<0, 66, 79, 79, 84, 0>>

\* The bytes a terminal sends for a key, and the characters each completes.
Encoding ==
  [up |-> <<27, 91, 65>>, f1 |-> <<27, 79, 80>>, f10 |-> <<27, 91, 50, 49, 126>>,
   esc |-> <<27>>, nul |-> <<0>>, B |-> <<66>>, O |-> <<79>>, dump |-> <<20>>,
   boot |-> soft_boot_seq]
Meaning ==
  [up |-> << << >>, << >>, <<UP>> >>, f1 |-> << << >>, << >>, <<VK(0)>> >>,
   f10 |-> << << >>, << >>, << >>, << >>, <<VK(9)>> >>, esc |-> << <<27>> >>,
   nul |-> << <<0>> >>, B |-> << <<66>> >>, O |-> << <<79>> >>, dump |-> << << >> >>,
   boot |-> [i \in 1..6 |-> IF i < 6 THEN <<soft_boot_seq[i]>> ELSE << >>]]

\* A key of the keyboard has a scan code that is no prefix.
ASSUME KeysAssumption ==
  /\ UART_KEYS \subseteq DOMAIN Encoding
  /\ PS2_KEYS \subseteq [code : (0..255) \ {E0, F0}, ext : BOOLEAN]

Owns == active_prog \in {"ps2", "twm"}

-----------------------------------------------------------------------------
(***************************************************************************)
(* The terminal and the keyboard.                                          *)
(***************************************************************************)
\* A key is typed at any time, whatever became of the one before.
Type(k) ==
  /\ left.uart > 0 /\ line = << >> /\ pc # "boot"
  /\ left' = [left EXCEPT !.uart = @ - 1]
  /\ line' = [i \in 1..Len(Encoding[k]) |-> [byte |-> Encoding[k][i], key |-> k, pos |-> i]]
  /\ gap' = 0
  /\ UNCHANGED <<pc, budget, filter, decoders, program, uart_rx, keyboard, xInputQueue, history>>

Uart_byte ==
  /\ line # << >> /\ pc # "boot"
  /\ uart_rx' = Append(uart_rx, Head(line)) /\ line' = Tail(line) /\ gap' = 0
  /\ UNCHANGED <<pc, budget, filter, decoders, program, keyboard, xInputQueue, left, history>>

\* The bytes of a key event; its last byte carries the event.
Code(k, press) ==
  LET bytes == (IF k.ext THEN <<E0>> ELSE << >>) \o (IF press THEN << >> ELSE <<F0>>) \o <<k.code>>
  IN  [i \in 1..Len(bytes) |-> [byte |-> bytes[i], first |-> i = 1, last |-> i = Len(bytes),
                                 key |-> k, press |-> press]]

\* A key goes down (again and again while it is held) or up.
Press(k) ==
  /\ left.ps2 > 0 /\ pc # "boot"
  /\ left' = [left EXCEPT !.ps2 = @ - 1]
  /\ held' = held \cup {k} /\ ps2_rx' = ps2_rx \o Code(k, TRUE)
  /\ UNCHANGED <<pc, budget, filter, decoders, program, terminal, xInputQueue, history>>

Release(k) ==
  /\ k \in held /\ left.ps2 > 0 /\ pc # "boot"
  /\ left' = [left EXCEPT !.ps2 = @ - 1]
  /\ held' = held \ {k} /\ ps2_rx' = ps2_rx \o Code(k, FALSE)
  /\ UNCHANGED <<pc, budget, filter, decoders, program, terminal, xInputQueue, history>>

\* The modifiers and the locks of a key; those whose code this is, behind E0
\* or not.
KeyModifier(k) == IF k.ext THEN {m \in DOMAIN ExtModifierCode : ExtModifierCode[m] = k.code}
                           ELSE {m \in DOMAIN ModifierCode : ModifierCode[m] = k.code}
KeyLock(k)     == {l \in Lock : ~k.ext /\ LockCode[l] = k.code}
CodeOf(byte)   == UNION {KeyModifier([code |-> byte, ext |-> x])
                           \cup KeyLock([code |-> byte, ext |-> x]) : x \in BOOLEAN}

\* The modifiers held and the locks on after one more event.
Apply(s, e) ==
  LET lock == {l \in KeyLock(e.key) : e.press}
  IN  [mods  |-> IF e.press THEN s.mods \cup KeyModifier(e.key) ELSE s.mods \ KeyModifier(e.key),
       locks |-> (s.locks \ lock) \cup (lock \ s.locks)]

\* A decoder is in step if it was given the code from its first byte on.
InStep(d, e) == step[d] = IF e.first THEN "clean" ELSE "whole"

\* Decoder d is given the byte e, the other one misses it.  In doubt is a key
\* of which a decoder missed the last event or got it in part.
Read(d, e) ==
  /\ seen' = IF e.last THEN Apply(seen, e) ELSE seen
  /\ step' = [x \in {"dec", "mon"} |->
                IF x = d THEN IF e.last THEN "clean" ELSE IF InStep(d, e) THEN "whole" ELSE "torn"
                         ELSE IF step[x] = "whole" THEN "torn" ELSE step[x]]
  /\ doubt' = IF ~e.last THEN doubt ELSE
               [x \in {"dec", "mon"} |->
                 IF x # d THEN doubt[x] \cup KeyModifier(e.key) \cup KeyLock(e.key)
                 ELSE IF InStep(d, e) THEN doubt[x] \ KeyModifier(e.key)
                 ELSE doubt[x] \cup CodeOf(e.byte)]

\* A decoder starts anew: it does not know what is down or on.
Restart(d) ==
  /\ step' = [step EXCEPT ![d] = "clean"]
  /\ doubt' = [doubt EXCEPT ![d] = seen.mods \cup seen.locks]
  /\ UNCHANGED seen

-----------------------------------------------------------------------------
(***************************************************************************)
(* t_uart_input, one pass: the timeout of a lone ESC, one byte of the      *)
(* UART, then scan codes.  A byte inside an escape sequence starts the     *)
(* next pass at once.                                                      *)
(***************************************************************************)
Queue(from, c) == xInputQueue' = [xInputQueue EXCEPT ![from] = Append(@, c)]

Esc_timeout ==
  /\ pc = "tick" /\ pc' = "byte"
  /\ IF uart_csi_filter_state = ESC /\ uart_esc_wait > 0
     THEN /\ uart_esc_wait' = uart_esc_wait - 1
          /\ IF uart_esc_wait = 1 THEN uart_csi_filter_state' = NONE /\ Queue("uart", 27)
                                  ELSE UNCHANGED <<uart_csi_filter_state, xInputQueue>>
     ELSE UNCHANGED <<uart_esc_wait, uart_csi_filter_state, xInputQueue>>
  /\ UNCHANGED <<budget, uart_csi_param, soft_boot_state, g_vga_dump_req, decoders, program,
                 terminal, keyboard, left, history>>

\* No byte: the terminal is never silent for long inside a key.
No_byte ==
  /\ pc = "byte" /\ uart_rx = << >> /\ pc' = "ps2"
  /\ IF line = << >> THEN UNCHANGED gap ELSE gap < MAX_GAP /\ gap' = gap + 1
  /\ UNCHANGED <<budget, filter, decoders, program, line, uart_rx, keyboard, xInputQueue,
                 left, history>>

\* Defect: a byte that does not match is not tried as the first of the sequence.
Boot_restarts_at_zero(byte) ==
  IF byte = soft_boot_seq[soft_boot_state + 1] THEN soft_boot_state + 1 ELSE 0

\* soft_boot_seq_feed: the bytes of the sequence matched so far.
soft_boot_seq_feed(byte) ==
  IF byte = soft_boot_seq[soft_boot_state + 1] THEN soft_boot_state + 1
  ELSE IF byte = soft_boot_seq[1] THEN 1 ELSE 0

\* The character behind CSI for a final byte, if there is one.
CsiChar(byte, param) ==
  CASE byte = 65 -> {UP} [] byte = 66 -> {UP + 1} [] byte = 67 -> {UP + 3} [] byte = 68 -> {UP + 2}
    [] byte = 72 -> {UP + 4} [] byte = 70 -> {UP + 5}
    [] byte = 126 /\ param \in 1..5   -> {VK(param - 1)}
    [] byte = 126 /\ param \in 17..21 -> {VK(param - 12)}
    [] byte = 126 /\ param \in 23..24 -> {VK(param - 13)}
    [] OTHER -> {}

Ss3Char(byte) == IF byte \in 80..83 THEN {VK(byte - 80)} ELSE {}

QueueIf(chars) == IF chars = {} THEN UNCHANGED xInputQueue ELSE \E c \in chars : Queue("uart", c)

\* Defect: an ESC behind a CSI keeps the parameter of the sequence before.
Byte_escape_keeps_param(byte) ==
  /\ byte = 27
  /\ uart_csi_filter_state' = ESC /\ uart_esc_wait' = ESC_WAIT_TICKS
  /\ pc' = "tick" /\ UNCHANGED <<uart_csi_param, g_vga_dump_req, xInputQueue>>

\* Defect: the timeout of the ESC is not started.
Byte_escape_no_timeout(byte) ==
  /\ byte = 27
  /\ uart_csi_filter_state' = ESC /\ uart_esc_wait' = 0 /\ uart_csi_param' = 0
  /\ pc' = "tick" /\ UNCHANGED <<g_vga_dump_req, xInputQueue>>

Byte_escape(byte) ==
  /\ byte = 27
  /\ uart_csi_filter_state' = ESC /\ uart_esc_wait' = ESC_WAIT_TICKS /\ uart_csi_param' = 0
  /\ pc' = "tick" /\ UNCHANGED <<g_vga_dump_req, xInputQueue>>

Byte_after_escape(byte) ==
  /\ byte # 27 /\ uart_csi_filter_state = ESC
  /\ uart_esc_wait' = 0
  /\ uart_csi_filter_state' = CASE byte = 91 -> BRACKET [] byte = 79 -> SS3 [] OTHER -> NONE
  /\ pc' = "tick" /\ UNCHANGED <<uart_csi_param, g_vga_dump_req, xInputQueue>>

Byte_in_csi(byte) ==
  /\ byte # 27 /\ uart_csi_filter_state = BRACKET
  /\ IF byte \in 48..57
     THEN uart_csi_param' = uart_csi_param * 10 + byte - 48
          /\ UNCHANGED <<uart_csi_filter_state, xInputQueue>>
     ELSE uart_csi_filter_state' = NONE /\ QueueIf(CsiChar(byte, uart_csi_param))
          /\ UNCHANGED uart_csi_param
  /\ pc' = "tick" /\ UNCHANGED <<uart_esc_wait, g_vga_dump_req>>

Byte_in_ss3(byte) ==
  /\ byte # 27 /\ uart_csi_filter_state = SS3
  /\ uart_csi_filter_state' = NONE /\ QueueIf(Ss3Char(byte))
  /\ pc' = "tick" /\ UNCHANGED <<uart_esc_wait, uart_csi_param, g_vga_dump_req>>

Byte_plain(byte) ==
  /\ byte # 27 /\ uart_csi_filter_state = NONE
  /\ IF byte = 20 THEN g_vga_dump_req' = TRUE /\ UNCHANGED xInputQueue
                  ELSE Queue("uart", byte) /\ UNCHANGED g_vga_dump_req
  /\ pc' = "ps2" /\ UNCHANGED csi

\* What is due for a byte of a key.  A key that comes while an ESC waits costs
\* the ESC, and its own first byte unless that is an ESC again; behind ESC and O
\* it costs its own first byte.
Due(e) ==
  LET esc  == hurry = "esc" /\ xInputQueue.uart # typed.uart
      kept == IF e.pos = 1 /\ esc THEN Front(typed.uart) ELSE typed.uart
      lost == e.pos = 1 /\ e.byte # 27 /\ (esc \/ hurry = "esc O")
  IN  /\ typed' = [typed EXCEPT !.uart = IF lost THEN kept ELSE kept \o Meaning[e.key][e.pos]]
      /\ hurry' = IF e.key = "esc" THEN "esc" ELSE IF lost /\ esc /\ e.byte = 79 THEN "esc O" ELSE "no"

Byte ==
  /\ pc = "byte" /\ uart_rx # << >>
  /\ LET byte == Head(uart_rx).byte
     IN  /\ uart_rx' = Tail(uart_rx)
         /\ raw' = SubSeq(raw \o <<byte>>, IF Len(raw) = 6 THEN 2 ELSE 1, Len(raw) + 1)
         /\ IF soft_boot_seq_feed(byte) = 6
            THEN /\ pc' = "boot" /\ soft_boot_state' = 0     \* bootloader_restart
                 /\ UNCHANGED <<csi, g_vga_dump_req, xInputQueue, typed, hurry>>
            ELSE /\ Due(Head(uart_rx))
                 /\ soft_boot_state' = soft_boot_seq_feed(byte)
                 /\ \/ Byte_escape(byte) \/ Byte_after_escape(byte) \/ Byte_in_csi(byte)
                    \/ Byte_in_ss3(byte) \/ Byte_plain(byte)
  /\ UNCHANGED <<budget, decoders, program, line, gap, keyboard, left, events>>

\* The owner of the keyboard is asked once, then scan codes are read.
Ps2_enter ==
  /\ pc = "ps2"
  /\ pc' = IF Owns THEN "tick" ELSE "loop"
  /\ budget' = PS2_POLL_BUDGET
  /\ UNCHANGED <<filter, decoders, program, terminal, keyboard, xInputQueue, left, history>>

Ps2_ready ==
  /\ pc = "loop" /\ ps2_rx # << >> /\ budget > 0
  /\ pc' = "data"
  /\ UNCHANGED <<budget, filter, decoders, program, terminal, keyboard, xInputQueue, left, history>>

\* The modifiers and the lock that a character depends on.
Shaping == {"shift_l", "shift_r", "ctrl_l", "ctrl_r", "caps_lock"}

\* A byte goes to the decoder.  What is due for a key that goes down: nothing is
\* known of a code in pieces, or under a modifier in doubt.
Ps2_byte ==
  /\ pc = "data" /\ ps2_rx # << >>
  /\ LET e == Head(ps2_rx)
         d == DecFeed(dec, e.byte)
         chars == DecChar(dec, e.byte)
         clear == InStep("dec", e) /\ doubt.dec \cap Shaping = {}
         due   == {c \in {Ascii(e.key.code, e.key.ext, seen.mods, seen.locks)} :
                     c.as # "none" /\ e.press /\ e.last}
     IN  /\ dec' = d
         /\ IF DecKnown(dec, e.byte) /\ d.locks # last_lock_mask
            THEN leds' = d.locks /\ last_lock_mask' = d.locks     \* ps2_sync_leds
            ELSE UNCHANGED <<leds, last_lock_mask>>
         /\ IF chars = {} THEN UNCHANGED xInputQueue ELSE \E c \in chars : Queue("ps2", c)
         /\ LET new == IF clear THEN due ELSE chars
            IN  IF new = {} THEN UNCHANGED typed
                ELSE \E c \in new : typed' = [typed EXCEPT !.ps2 = Append(@, c)]
         /\ Read("dec", e)
  /\ ps2_rx' = Tail(ps2_rx) /\ pc' = "loop" /\ budget' = budget - 1
  /\ UNCHANGED <<filter, mon, program, terminal, held, left, hurry, raw>>

\* A program was faster: the empty receiver reads as 0, a code of no key.
Ps2_nothing ==
  /\ pc = "data" /\ ps2_rx = << >>
  /\ dec' = DecFeed(dec, 0) /\ step' = [step EXCEPT !.dec = "clean"]
  /\ pc' = "loop" /\ budget' = budget - 1
  /\ UNCHANGED <<filter, mon, last_lock_mask, leds, program, terminal, keyboard, xInputQueue, left,
                 typed, hurry, raw, seen, doubt>>

Pass_end ==
  /\ pc = "loop" /\ (ps2_rx = << >> \/ budget = 0)
  /\ pc' = "tick"
  /\ UNCHANGED <<budget, filter, decoders, program, terminal, keyboard, xInputQueue, left, history>>

-----------------------------------------------------------------------------
(***************************************************************************)
(* Programs that read the keyboard.  t_shell sets active_prog, and later   *)
(* runs init under the mutex; the program's task runs update.              *)
(***************************************************************************)
Launch(p) ==
  /\ active_prog = "shell" /\ left.launch > 0 /\ pc # "boot"
  /\ active_prog' = p /\ ready' = FALSE
  /\ left' = [left EXCEPT !.launch = @ - 1]
  /\ UNCHANGED <<pc, budget, filter, decoders, terminal, keyboard, xInputQueue, history>>

\* init of ps2.c, and ps2_dec_init in tiling_init of twm.c.
Program_init ==
  /\ Owns /\ ~ready /\ pc # "boot"
  /\ ready' = TRUE
  /\ IF active_prog = "ps2"
     THEN mon' = DecInit /\ Restart("mon") /\ UNCHANGED dec
     ELSE dec' = DecInit /\ Restart("dec") /\ UNCHANGED mon
  /\ UNCHANGED <<pc, budget, filter, last_lock_mask, leds, active_prog, terminal, keyboard,
                 xInputQueue, left, typed, hurry, raw>>

\* update of ps2.c: the LEDs follow each lock key that goes down.
Monitor_byte ==
  /\ active_prog = "ps2" /\ ready /\ ps2_rx # << >> /\ pc # "boot"
  /\ LET e == Head(ps2_rx)
         d == DecFeed(mon, e.byte)
     IN  /\ mon' = d
         /\ leds' = IF d.locks # mon.locks THEN d.locks ELSE leds
         /\ Read("mon", e)
  /\ ps2_rx' = Tail(ps2_rx)
  /\ UNCHANGED <<pc, budget, filter, dec, last_lock_mask, program, terminal, held, xInputQueue,
                 left, typed, hurry, raw>>

\* tiling_update of twm.c
Tiling_byte ==
  /\ active_prog = "twm" /\ ready /\ ps2_rx # << >> /\ pc # "boot"
  /\ dec' = DecFeed(dec, Head(ps2_rx).byte)
  /\ Read("dec", Head(ps2_rx))
  /\ ps2_rx' = Tail(ps2_rx)
  /\ UNCHANGED <<pc, budget, filter, mon, last_lock_mask, leds, program, terminal, held,
                 xInputQueue, left, typed, hurry, raw>>

Program_exit ==
  /\ Owns /\ ready /\ pc # "boot"
  /\ active_prog' = "shell" /\ ready' = FALSE
  /\ UNCHANGED <<pc, budget, filter, decoders, terminal, keyboard, xInputQueue, left, history>>

-----------------------------------------------------------------------------
Init ==
  /\ pc = "tick" /\ budget = 0
  /\ uart_csi_filter_state = NONE /\ uart_esc_wait = 0 /\ uart_csi_param = 0
  /\ soft_boot_state = 0 /\ g_vga_dump_req = FALSE
  /\ dec = DecInit /\ mon = DecInit /\ last_lock_mask = {} /\ leds = {}
  /\ active_prog = "shell" /\ ready = FALSE
  /\ xInputQueue = [uart |-> << >>, ps2 |-> << >>]
  /\ line = << >> /\ gap = 0 /\ uart_rx = << >> /\ held = {} /\ ps2_rx = << >>
  /\ left \in BUDGETS
  /\ typed = [uart |-> << >>, ps2 |-> << >>] /\ hurry = "no" /\ raw = << >>
  /\ seen = [mods |-> {}, locks |-> {}]
  /\ step = [dec |-> "clean", mon |-> "clean"] /\ doubt = [dec |-> {}, mon |-> {}]

Pass == Esc_timeout \/ No_byte \/ Byte \/ Ps2_enter \/ Ps2_ready \/ Ps2_byte \/ Ps2_nothing \/ Pass_end

Next ==
  \/ \E k \in UART_KEYS : Type(k)
  \/ Uart_byte
  \/ \E k \in PS2_KEYS : Press(k) \/ Release(k)
  \/ Pass
  \/ \E p \in {"ps2", "twm"} : Launch(p)
  \/ Program_init \/ Monitor_byte \/ Tiling_byte \/ Program_exit

Spec == Init /\ [][Next]_vars

\* The task runs whenever the others sleep, a key's bytes all arrive, a program
\* that is launched gets to run.
Fairness == WF_vars(Pass) /\ WF_vars(Uart_byte) /\ WF_vars(Program_init)

FairSpec == Spec /\ Fairness

-----------------------------------------------------------------------------
\* The keyboard changes hands inside a scan code and with keys held, and still
\* what that can cost is bounded: a decoder is wrong only about a key whose last
\* event it missed or got in part, or that was down or on when it started; one
\* code later it is back in step (ps2_decoder.c, ps2.c, twm.c).
Whole(d) == ~d.break_prefix /\ ~d.ext_prefix

Tracks(d, at, unsure) ==
  /\ d.mods \ unsure = seen.mods \ unsure /\ d.locks \ unsure = seen.locks \ unsure
  /\ Whole(d) <=> at = "clean"

DecoderTracksKeys == Tracks(dec, step.dec, doubt.dec) /\ Tracks(mon, step.mon, doubt.mon)

\* What is queued is what is due for the keys that were read, in order, once and
\* as one character for a key: an escape sequence is never split by the timeout,
\* a scan code never yields a key it is not, and nothing is lost but an ESC, the
\* first byte of the key that comes before it has taken effect, and behind ESC
\* and O that of one key more.
KeysAsTyped ==
  /\ \/ xInputQueue.uart = typed.uart
     \/ hurry = "esc" /\ Append(xInputQueue.uart, 27) = typed.uart
  /\ xInputQueue.ps2 = typed.ps2

\* The machine restarts on the boot sequence and on nothing else: the automaton
\* always stands for the longest part of the sequence that the last bytes are.
BootExactly ==
  LET matched == {n \in 0..6 : n <= Len(raw) /\ SubSeq(soft_boot_seq, 1, n)
                                                  = SubSeq(raw, Len(raw) - n + 1, Len(raw))}
  IN  IF pc = "boot" THEN 6 \in matched
      ELSE 6 \notin matched /\ soft_boot_state \in matched
           /\ \A n \in matched : n <= soft_boot_state

\* Every key of the terminal gets through in the end, a lone ESC too, but for
\* what hurry costs.
EveryKeyArrives ==
  <>[](pc = "boot" \/ (line = << >> /\ uart_rx = << >> /\ xInputQueue.uart = typed.uart))
=============================================================================
