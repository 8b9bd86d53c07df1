-------------------------------- MODULE ExpDemo --------------------------------
(***************************************************************************)
(* demo.c, the menu of the course experiments, and the channel register of *)
(* expdemo_wb.vhd that gives the switches, LEDs and displays of the board  *)
(* to one of them.  The whole is one record, demo:                         *)
(*   active, running     the program; one experiment of it                 *)
(*   typed_value         the number being typed, -1 if none                *)
(*   selected_channel, last_hw_channel                                     *)
(*   last_draw_page      -1 none, 0 the menu, else an experiment           *)
(*   dirty               the page is to be drawn                           *)
(*   channel             the register, 0 for the processor itself          *)
(*   chain               g_chain_program, set for PROG_PS2                 *)
(* Left out: the contents of the pages and the histories they show.        *)
(***************************************************************************)
EXTENDS Integers, FiniteSets, FiniteSetsExt

CONSTANTS DEMO_KEYS, DEMO_DIGITS   \* the keys pressed

VARIABLE demo

exp_entries == {1, 2, 3, 4, 5, 8, 9, 10, 11, 12, 13}
PROG_PS2    == 3

DemoKeys == {"q", "bs", "+", "-", "enter"}

ASSUME DemoAssumption == DEMO_KEYS \subseteq DemoKeys /\ DEMO_DIGITS \subseteq 0..9

DemoState ==
  [active : BOOLEAN, running : BOOLEAN, dirty : BOOLEAN, typed_value : -1..13,
   selected_channel : {0} \cup exp_entries, last_hw_channel : {-1, 0} \cup exp_entries,
   last_draw_page : {-1, 0} \cup exp_entries,
   channel : {0} \cup exp_entries, chain : {0, PROG_PS2}]

\* The variables of demo.c before its first init.
DemoStatics ==
  [active |-> FALSE, running |-> FALSE, dirty |-> FALSE, typed_value |-> -1,
   selected_channel |-> 1, last_hw_channel |-> -1, last_draw_page |-> -1,
   channel |-> 0, chain |-> 0]

valid_channel(ch) == ch \in exp_entries \cup {0}

next_channel(ch) == LET above == {e \in exp_entries : e > ch}
                    IN  Min(IF above = {} THEN exp_entries ELSE above)
prev_channel(ch) == LET below == {e \in exp_entries : e < ch}
                    IN  Max(IF below = {} THEN exp_entries ELSE below)

-----------------------------------------------------------------------------
\* The register takes 0 to 13 but not 6 and 7.
write_channel(d, ch) == IF ch \in 0..13 \ {6, 7} THEN [d EXCEPT !.channel = ch] ELSE d

\* p_exit_mon: MENU on the remote control ends experiment 10.  Del on the
\* keyboard would end experiment 8, whose channel the program never selects.
Force_shell(d) == IF d.channel = 10 THEN [d EXCEPT !.channel = 0] ELSE d

enter_menu(d) ==
  [write_channel(d, 0) EXCEPT !.running = FALSE, !.typed_value = -1, !.dirty = TRUE,
                              !.last_draw_page = -1]

exit_demo(d) == [enter_menu(d) EXCEPT !.active = FALSE]

\* Experiment 8 is the PS/2 monitor: the shell starts it after this program.
start_channel(d, ch) ==
  LET s == [d EXCEPT !.selected_channel = ch, !.typed_value = -1]
  IN  CASE ch = 0 -> enter_menu(s)
        [] ch = 8 -> [write_channel(s, 0) EXCEPT !.chain = PROG_PS2, !.active = FALSE]
        [] OTHER  -> [write_channel(s, ch) EXCEPT !.running = TRUE, !.last_hw_channel = -1,
                                                  !.dirty = TRUE]

redraw(d) ==
  [d EXCEPT !.last_draw_page = IF d.running THEN d.selected_channel ELSE 0, !.dirty = FALSE]

\* Defect: a number of two digits is not checked.
Demo_digit_unchecked(d, digit) ==
  [d EXCEPT !.typed_value = IF @ < 0 THEN digit ELSE @ * 10 + digit, !.dirty = TRUE]

accept_digit(d, digit) ==
  LET next == d.typed_value * 10 + digit
  IN  [d EXCEPT !.typed_value = IF @ < 0 \/ next > 13 THEN digit ELSE next, !.dirty = TRUE]

accept_enter(d) ==
  LET ch == IF d.typed_value >= 0 THEN d.typed_value ELSE d.selected_channel
  IN  IF valid_channel(ch) THEN start_channel(d, ch) ELSE [d EXCEPT !.dirty = TRUE]

-----------------------------------------------------------------------------
Demo_init(d) ==
  redraw([write_channel(d, 0) EXCEPT !.active = TRUE, !.running = FALSE, !.typed_value = -1,
                                     !.last_hw_channel = -1, !.selected_channel = 1])

\* The register may have gone back to 0 by itself.  The values the page
\* monitors change at any time and make it dirty, which changes nothing here.
Demo_update(d) ==
  LET seen == IF ~d.running THEN d
              ELSE IF d.channel = 0 THEN [d EXCEPT !.running = FALSE, !.dirty = TRUE]
              ELSE IF d.channel # d.last_hw_channel
                   THEN [d EXCEPT !.last_hw_channel = d.channel,
                                  !.selected_channel = d.channel, !.dirty = TRUE]
              ELSE d
  IN  IF ~d.active THEN d ELSE IF seen.dirty THEN redraw(seen) ELSE seen

\* A key other than a digit, which goes to accept_digit.
Demo_input(d, k) ==
  CASE k = "q"     -> IF d.running THEN enter_menu(d) ELSE exit_demo(d)
    [] k = "bs"    -> [d EXCEPT !.typed_value = IF @ >= 10 THEN @ \div 10 ELSE -1,
                                !.dirty = TRUE]
    [] k = "+"     -> [d EXCEPT !.selected_channel = next_channel(@), !.typed_value = -1,
                                !.dirty = TRUE]
    [] k = "-"     -> [d EXCEPT !.selected_channel = prev_channel(@), !.typed_value = -1,
                                !.dirty = TRUE]
    [] k = "enter" -> accept_enter(d)

Demo_finish(d) == ~d.active
=============================================================================
