-------------------------------- MODULE Programs --------------------------------
(***************************************************************************)
(* The programs of the shell that have a state of their own, and their     *)
(* host (de2shell_rtos/main.c): launch_program calls init; the task        *)
(* t_active_prog then passes one key at most, calls update and asks finish,*)
(* over and over, and takes Escape, F10 and Ctrl+C for itself.  The        *)
(* variables of a program outlive it: a launch finds what the last left.   *)
(*                                                                         *)
(* One program runs at a time and no two share a variable; so a behaviour  *)
(* launches one of them only, chosen at its start with what it may do      *)
(* (left).  How tasks, mutex and queues meet while programs come and go is *)
(* the subject of module Shell, not of this one.                           *)
(***************************************************************************)
EXTENDS Snake, Conway, ExpDemo, Ntt, TextTerminal

CONSTANTS SNAKE_KEYS, CONWAY_KEYS,   \* the keys pressed
          SCENARIOS                  \* what a behaviour may do

VARIABLES active_prog,  \* "shell" or the program that runs
          pc,           \* where its loop is
          left          \* what is left of the scenario

Progs == {"snake", "conway", "expdemo", "ntt"}

\* Bounds: launches, keys passed on, and updates that change something.
Scenario == [prog : Progs \cup {"shell"}, launches : Nat, keys : Nat, moves : Nat]

ASSUME ProgramsAssumption == /\ SCENARIOS \subseteq Scenario
                             /\ SNAKE_KEYS \subseteq SnakeKeys
                             /\ CONWAY_KEYS \subseteq ConwayKeys

vars == <<active_prog, pc, left, snake, conway, demo, ntt, text>>

TypeOK ==
  /\ active_prog \in Progs \cup {"shell"}
  /\ pc \in {"input", "update", "finish"}
  /\ left \in Scenario
  /\ snake \in SnakeState /\ conway \in ConwayState /\ demo \in DemoState
  /\ ntt \in NttState /\ text \in TextState

Init == /\ active_prog = "shell" /\ pc = "input" /\ left \in SCENARIOS
        /\ snake = SnakeStatics /\ conway = ConwayStatics /\ demo = DemoStatics
        /\ ntt = NttStatics /\ text = TextStart

-----------------------------------------------------------------------------
Only(prog) == /\ prog # "snake"   => UNCHANGED snake
              /\ prog # "conway"  => UNCHANGED conway
              /\ prog # "expdemo" => UNCHANGED demo
              /\ prog # "ntt"     => UNCHANGED ntt
              /\ prog # "shell"   => UNCHANGED text

Launch ==
  /\ active_prog = "shell" /\ left.prog \in Progs /\ left.launches > 0
  /\ active_prog' = left.prog /\ pc' = "input"
  /\ left' = [left EXCEPT !.launches = @ - 1]
  /\ Only(left.prog)
  /\ \/ left.prog = "snake"   /\ snake' = Snake_init(snake)
     \/ left.prog = "conway"  /\ conway' = Conway_init(conway)
     \/ left.prog = "expdemo" /\ demo' = Demo_init(demo)
     \/ left.prog = "ntt"     /\ ntt' = Ntt_init(ntt)

\* The handler of conway_hw.c that waits for the engine has not returned.
InHandler == Conway_waiting(conway)

Running == active_prog # "shell" /\ ~InHandler

\* Defect: only the program that ends by itself gives the board back.
Exit_keeps_channel(d) == d

Exit_resets_channel(d) == [d EXCEPT !.channel = 0]

exit_active_program ==
  /\ active_prog' = "shell" /\ pc' = "input"
  /\ demo' = Exit_resets_channel(demo)
  /\ UNCHANGED <<left, snake, conway, ntt, text>>

ExitKey == Running /\ pc = "input" /\ exit_active_program

Input ==
  /\ Running /\ pc = "input" /\ left.keys > 0
  /\ pc' = "update" /\ left' = [left EXCEPT !.keys = @ - 1]
  /\ Only(active_prog) /\ UNCHANGED active_prog
  /\ \/ active_prog = "snake"   /\ \E k \in SNAKE_KEYS : snake' \in Snake_input(snake, k)
     \/ active_prog = "conway"  /\ \E k \in CONWAY_KEYS : conway' \in Conway_input(conway, k)
     \/ active_prog = "expdemo" /\ \/ \E k \in DEMO_KEYS : demo' = Demo_input(demo, k)
                                   \/ \E d \in DEMO_DIGITS : demo' = accept_digit(demo, d)
     \/ active_prog = "ntt"     /\ \/ \E c \in NttCommands : ntt' = Ntt_input(ntt, c)
                                   \/ \E v \in LOADS : ~ntt.done /\ ntt' = Ntt_load(ntt, v)

NoInput == /\ Running /\ pc = "input" /\ pc' = "update"
           /\ UNCHANGED <<active_prog, left, snake, conway, demo, ntt, text>>

Counted(moved) == /\ moved => left.moves > 0
                  /\ left' = [left EXCEPT !.moves = IF moved THEN @ - 1 ELSE @]

Update ==
  /\ Running /\ pc = "update" /\ pc' = "finish"
  /\ Only(active_prog) /\ UNCHANGED active_prog
  /\ \/ active_prog = "snake"   /\ snake' \in Snake_update(snake) /\ Counted(snake' # snake)
     \/ active_prog = "conway"  /\ conway' \in {conway, Conway_update(conway)}
                                /\ Counted(conway' # conway)
     \/ active_prog = "expdemo" /\ demo' = Demo_update(demo) /\ UNCHANGED left
     \/ active_prog = "ntt"     /\ UNCHANGED <<ntt, left>>

finished == CASE active_prog = "snake"   -> Snake_finish(snake)
              [] active_prog = "conway"  -> Conway_finish(conway)
              [] active_prog = "expdemo" -> Demo_finish(demo)
              [] active_prog = "ntt"     -> Ntt_finish(ntt)

Finish == /\ Running /\ pc = "finish"
          /\ IF finished THEN exit_active_program
             ELSE pc' = "input" /\ UNCHANGED <<active_prog, left, snake, conway, demo, ntt, text>>

-----------------------------------------------------------------------------
\* The hardware beside the program.
EngineClock ==
  /\ InHandler /\ (conway.busy = 1 \/ conway.mode # "IDLE")
  /\ conway' = Clock(conway)
  /\ UNCHANGED <<active_prog, pc, left, snake, demo, ntt, text>>

EngineDone ==
  /\ InHandler /\ conway.busy = 0
  /\ conway' = Conway_continue(conway)
  /\ UNCHANGED <<active_prog, pc, left, snake, demo, ntt, text>>

RemoteMenu ==
  /\ demo' = Force_shell(demo)
  /\ UNCHANGED <<active_prog, pc, left, snake, conway, ntt, text>>

-----------------------------------------------------------------------------
\* The shell's own line, and the status bar, one at a time.
ShellKey ==
  /\ left.prog = "shell" /\ text.out = << >> /\ left.keys > 0
  /\ \E k \in TextKeys : text' \in Text_key(text, k)
  /\ left' = [left EXCEPT !.keys = @ - 1]
  /\ UNCHANGED <<active_prog, pc, snake, conway, demo, ntt>>

ShellPrint ==
  /\ left.prog = "shell" /\ text.out # << >>
  /\ text' = Text_print(text)
  /\ UNCHANGED <<active_prog, pc, left, snake, conway, demo, ntt>>

StatusBar ==
  /\ left.prog = "shell" /\ text.out = << >>
  /\ text' = render_status_bar(text)
  /\ UNCHANGED <<active_prog, pc, left, snake, conway, demo, ntt>>

Next == \/ Launch \/ ExitKey \/ Input \/ NoInput \/ Update \/ Finish
        \/ EngineClock \/ EngineDone \/ RemoteMenu
        \/ ShellKey \/ ShellPrint \/ StatusBar

Spec == Init /\ [][Next]_vars

-----------------------------------------------------------------------------
\* The switches and displays of the board belong to an experiment only while
\* expdemo runs it: no way out of the program (its own keys, the host's exit
\* keys, experiment 8 handing over to the PS/2 monitor, the remote control)
\* leaves the channel behind (main.c:1148-1151).
MuxFollowsDemo ==
  demo.channel # 0 => active_prog = "expdemo" /\ demo.active /\ demo.running
=============================================================================
