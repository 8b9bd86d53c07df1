------------------------------- MODULE Shell -------------------------------
(***************************************************************************)
(* de2shell_rtos/main.c: the four FreeRTOS tasks of the shell, the two     *)
(* queues, the display mutex and the life of a program from its launch to  *)
(* its exit.  One action per stretch of a task between two accesses to     *)
(* shared state; the scheduler runs the ready task of the highest          *)
(* priority, so a stretch can be interrupted by a higher one only.  Left   *)
(* out: the text of the command line (a key that completes the line of a   *)
(* program's command stands for the program), what the programs draw, and  *)
(* the failure of xTaskCreate, after which vApplicationMallocFailedHook    *)
(* never returns.                                                          *)
(***************************************************************************)
EXTENDS Integers, Sequences, FiniteSetsExt

CONSTANTS
  PROGS,        \* the programs
  CLI,          \* those with PROG_FLAG_CLI
  SILENT,       \* those that never call board_status_set_program
  CHAIN,        \* [program -> the program it may chain to]
  SHELL,        \* PROG_SHELL
  EXIT_KEY, ANY_KEY, \* keys: ESC, F10 or Ctrl-C; any other key
  INPUT_DEPTH,  \* length of xInputQueue (64)
  CMD_DEPTH     \* length of xProgCmdQueue (4)

Key == PROGS \cup {EXIT_KEY, ANY_KEY}

ASSUME ShellAssumption ==
  /\ CLI \subseteq PROGS /\ SILENT \subseteq PROGS
  /\ DOMAIN CHAIN \subseteq PROGS /\ \A p \in DOMAIN CHAIN : CHAIN[p] \in PROGS
  /\ SHELL \notin PROGS
  /\ INPUT_DEPTH \in Nat \ {0} /\ CMD_DEPTH \in Nat \ {0}

VARIABLES
  pc,               \* where each task is
  active_prog, xActiveTask, g_chain_program,
  xInputQueue,      \* keys; fresh: queued since the last launch began
  xProgCmdQueue,
  xVgaMutex,        \* the task that holds it, or "none"
  pid,              \* t_shell: the program to launch
  prog, done,       \* t_active_prog: the program it runs, its finish()
  claimed, board,   \* board_status.c: claimed, and the program LCD and LEDs show
  uart_text,        \* vga_hal.c: text is mirrored to the UART
  screen            \* the program that drew the screen last

life    == <<active_prog, xActiveTask, g_chain_program>>
queues  == <<xInputQueue, xProgCmdQueue>>
locals  == <<pid, prog, done>>
display == <<claimed, board, uart_text, screen>>
vars    == <<pc, life, queues, xVgaMutex, locals, display>>

Task == {"uart", "prog", "shell", "status"}

Delays == {"delay", "sleep", "stop_wait", "cmd_sleep"}  \* in vTaskDelay
Takes  == {"take", "input_take", "update_take", "screen_take", "init_take"}

UartPc   == {"poll", "delay"}
StatusPc == {"take", "delay"}
ProgPc   == {"none", "loop", "cmd", "key", "input_take", "input", "update_take",
             "update", "finish", "delay", "exit1", "exit2", "exit3", "exit4"}
ShellPc  == {"screen_take", "screen", "top", "sleep", "woken", "recv", "take", "line",
             "cmd_sleep", "cmd_end", "launch", "stop", "stop_wait", "stopped", "active",
             "mirror", "drain", "init_take", "init", "create"}

-----------------------------------------------------------------------------
(***************************************************************************)
(* The scheduler: fixed priorities, preemption, priority inheritance on    *)
(* the mutex.                                                              *)
(***************************************************************************)

\* Defect: programs run above the shell.
BasePriorityProgHigh(t) ==
  CASE t = "uart" -> 1 [] t = "prog" -> 4 [] t = "shell" -> 3 [] t = "status" -> 4

BasePriority(t) ==
  CASE t = "uart" -> 1 [] t = "prog" -> 2 [] t = "shell" -> 3 [] t = "status" -> 4

Waiting(t) == pc[t] \in Takes /\ xVgaMutex # "none"

Priority(t) ==
  IF xVgaMutex = t THEN Max({BasePriority(u) : u \in {t} \cup {v \in Task : Waiting(v)}})
                   ELSE BasePriority(t)

Ready(t) ==
  /\ pc[t] \notin Delays \cup {"none"}
  /\ ~Waiting(t)
  /\ pc[t] = "recv" => xInputQueue # << >>

\* t is at l, ready, and nobody ready is above it.
At(t, l) ==
  /\ pc[t] = l /\ Ready(t)
  /\ \A u \in Task : Ready(u) => Priority(u) <= Priority(t)

Goto(t, l) == pc' = [pc EXCEPT ![t] = l]

Take(t) == xVgaMutex' = t
Give    == xVgaMutex' = "none"

Init ==
  /\ pc = [t \in Task |-> CASE t = "uart" -> "poll" [] t = "prog" -> "none"
                            [] t = "shell" -> "screen_take" [] t = "status" -> "take"]
  /\ active_prog = SHELL /\ xActiveTask = FALSE /\ g_chain_program = SHELL
  /\ xInputQueue = << >> /\ xProgCmdQueue = << >> /\ xVgaMutex = "none"
  /\ pid = SHELL /\ prog = SHELL /\ done = FALSE
  /\ claimed = FALSE /\ board = SHELL /\ uart_text = FALSE /\ screen = SHELL

-----------------------------------------------------------------------------
\* Defect: a key is queued without regard to the room left.
Uart_pollNoRoom ==
  /\ At("uart", "poll") /\ Goto("uart", "delay")
  /\ \E k \in Key : xInputQueue' = Append(xInputQueue, [key |-> k, fresh |-> TRUE])
  /\ UNCHANGED <<life, xProgCmdQueue, xVgaMutex, locals, display>>

(***************************************************************************)
(* t_uart_input: a key decoded from the UART or the keyboard is queued     *)
(* without waiting, and dropped when the queue is full.                    *)
(***************************************************************************)
Uart_poll ==
  /\ At("uart", "poll") /\ Goto("uart", "delay")
  /\ \/ UNCHANGED xInputQueue
     \/ /\ Len(xInputQueue) < INPUT_DEPTH
        /\ \E k \in Key : xInputQueue' = Append(xInputQueue, [key |-> k, fresh |-> TRUE])
  /\ UNCHANGED <<life, xProgCmdQueue, xVgaMutex, locals, display>>

(***************************************************************************)
(* t_status: one pass, from taking the mutex to giving it.  Nothing is     *)
(* above its priority and nothing inside it blocks, so it is one step.     *)
(***************************************************************************)
Status_pass ==
  /\ At("status", "take") /\ Goto("status", "delay")
  /\ claimed' = (claimed \/ active_prog = SHELL)
  /\ board' = IF active_prog # SHELL /\ claimed THEN board ELSE active_prog
  /\ uart_text' = (active_prog \in CLI)
  /\ UNCHANGED <<life, queues, xVgaMutex, locals, screen>>

-----------------------------------------------------------------------------
(***************************************************************************)
(* t_active_prog: its program, then commands, then keys, each without      *)
(* waiting; input and update under the mutex; finish.                      *)
(***************************************************************************)
Prog_loop ==
  /\ At("prog", "loop") /\ Goto("prog", "cmd")
  /\ prog' = active_prog
  /\ UNCHANGED <<life, queues, xVgaMutex, pid, done, display>>

Prog_cmd ==
  /\ At("prog", "cmd")
  /\ \/ xProgCmdQueue = << >> /\ Goto("prog", "key") /\ UNCHANGED xProgCmdQueue
     \/ /\ xProgCmdQueue # << >> /\ Goto("prog", "exit1")
        /\ xProgCmdQueue' = Tail(xProgCmdQueue)
  /\ UNCHANGED <<life, xInputQueue, xVgaMutex, locals, display>>

Prog_key ==
  /\ At("prog", "key")
  /\ \/ xInputQueue = << >> /\ Goto("prog", "update_take") /\ UNCHANGED xInputQueue
     \/ /\ xInputQueue # << >> /\ xInputQueue' = Tail(xInputQueue)
        /\ Goto("prog", IF Head(xInputQueue).key = EXIT_KEY THEN "exit1" ELSE "input_take")
  /\ UNCHANGED <<life, xProgCmdQueue, xVgaMutex, locals, display>>

Prog_take ==
  /\ \/ At("prog", "input_take") /\ Goto("prog", "input")
     \/ At("prog", "update_take") /\ Goto("prog", "update")
  /\ Take("prog")
  /\ UNCHANGED <<life, queues, locals, display>>

\* What a key or an update may do to the end of a program: nothing, end it,
\* or end it with a request to chain to another (start_channel of demo.c).
Ending ==
  \/ UNCHANGED <<done, g_chain_program>>
  \/ done' = TRUE /\ UNCHANGED g_chain_program
  \/ prog \in DOMAIN CHAIN /\ done' = TRUE /\ g_chain_program' = CHAIN[prog]

Prog_input ==
  /\ At("prog", "input") /\ Goto("prog", "update_take")
  /\ Ending /\ Give
  /\ UNCHANGED <<active_prog, xActiveTask, queues, pid, prog, display>>

\* Drawing: the screen, and the LCD and LEDs unless the program is silent.
Draw(p) ==
  /\ screen' = p
  /\ \/ p \in SILENT /\ UNCHANGED <<claimed, board>>
     \/ p \notin SILENT /\ claimed' = TRUE /\ board' = p

Prog_update ==
  /\ At("prog", "update") /\ Goto("prog", "finish")
  /\ Draw(prog) /\ Ending /\ Give
  /\ UNCHANGED <<active_prog, xActiveTask, queues, pid, prog, uart_text>>

Prog_finish ==
  /\ At("prog", "finish") /\ Goto("prog", IF done THEN "exit1" ELSE "delay")
  /\ UNCHANGED <<life, queues, xVgaMutex, locals, display>>

\* Defect: the program leaves without giving the console back.
ExitKeepsConsole ==
  /\ \/ At("prog", "exit1") /\ Goto("prog", "exit4") /\ UNCHANGED xActiveTask
     \/ At("prog", "exit4") /\ Goto("prog", "none") /\ xActiveTask' = FALSE
  /\ UNCHANGED <<active_prog, g_chain_program, queues, xVgaMutex, locals, display>>

\* exit_active_program.  The vTaskDelete(NULL) after the last store touches
\* nothing another task looks at.
Exit ==
  /\ \/ /\ At("prog", "exit1") /\ Goto("prog", "exit2")
        /\ uart_text' = FALSE /\ UNCHANGED <<claimed, active_prog, xActiveTask>>
     \/ /\ At("prog", "exit2") /\ Goto("prog", "exit3")
        /\ claimed' = FALSE /\ UNCHANGED <<uart_text, active_prog, xActiveTask>>
     \/ /\ At("prog", "exit3") /\ Goto("prog", "exit4")
        /\ active_prog' = SHELL /\ UNCHANGED <<uart_text, claimed, xActiveTask>>
     \/ /\ At("prog", "exit4") /\ Goto("prog", "none")
        /\ xActiveTask' = FALSE /\ UNCHANGED <<uart_text, claimed, active_prog>>
  /\ UNCHANGED <<g_chain_program, queues, xVgaMutex, locals, board, screen>>

-----------------------------------------------------------------------------
(***************************************************************************)
(* t_shell.                                                                *)
(***************************************************************************)

\* shell_init_screen: takes the mutex, draws, gives it.
Shell_screen ==
  /\ \/ /\ At("shell", "screen_take") /\ Goto("shell", "screen")
        /\ Take("shell") /\ UNCHANGED screen
     \/ At("shell", "screen") /\ Goto("shell", "top") /\ Give /\ screen' = SHELL
  /\ UNCHANGED <<life, queues, locals, claimed, board, uart_text>>

\* Defect: the shell takes keys while a program runs.
Shell_topAlways ==
  /\ At("shell", "top") /\ Goto("shell", "recv")
  /\ UNCHANGED <<life, queues, xVgaMutex, locals, display>>

Shell_top ==
  /\ At("shell", "top")
  /\ Goto("shell", IF active_prog = SHELL THEN "recv" ELSE "sleep")
  /\ UNCHANGED <<life, queues, xVgaMutex, locals, display>>

\* Defect: a request to chain is not looked at.
Shell_wokenNoChain ==
  /\ At("shell", "woken")
  /\ Goto("shell", IF active_prog = SHELL THEN "screen_take" ELSE "top")
  /\ UNCHANGED <<life, queues, xVgaMutex, locals, display>>

\* After 50 ms: a program still runs, one is to be chained to, or neither.
Shell_woken ==
  /\ At("shell", "woken")
  /\ \/ active_prog # SHELL /\ Goto("shell", "top") /\ UNCHANGED <<g_chain_program, pid>>
     \/ /\ active_prog = SHELL /\ g_chain_program # SHELL /\ Goto("shell", "launch")
        /\ pid' = g_chain_program /\ g_chain_program' = SHELL
     \/ /\ active_prog = SHELL /\ g_chain_program = SHELL /\ Goto("shell", "screen_take")
        /\ UNCHANGED <<g_chain_program, pid>>
  /\ UNCHANGED <<active_prog, xActiveTask, queues, xVgaMutex, prog, done, display>>

\* A key completes the command line of a program (pid), or it does not.
Shell_recv ==
  /\ At("shell", "recv") /\ Goto("shell", "take")
  /\ pid' = IF Head(xInputQueue).key \in PROGS THEN Head(xInputQueue).key ELSE SHELL
  /\ xInputQueue' = Tail(xInputQueue)
  /\ UNCHANGED <<life, xProgCmdQueue, xVgaMutex, prog, done, display>>

Shell_take ==
  /\ At("shell", "take") /\ Goto("shell", "line") /\ Take("shell")
  /\ UNCHANGED <<life, queues, locals, display>>

\* Defect: the mutex is not given before launch_program.
Shell_lineKeepsMutex ==
  /\ At("shell", "line")
  /\ \/ pid # SHELL /\ Goto("shell", "launch") /\ UNCHANGED xVgaMutex
     \/ pid = SHELL /\ Goto("shell", "top") /\ Give
  /\ UNCHANGED <<life, queues, locals, display>>

\* The line under the mutex: a launch, another key or command, or a command
\* that sleeps with the mutex held (pxtest).
Shell_line ==
  /\ \/ At("shell", "line") /\ pid # SHELL /\ Goto("shell", "launch") /\ Give
     \/ At("shell", "line") /\ pid = SHELL /\ Goto("shell", "top") /\ Give
     \/ At("shell", "line") /\ pid = SHELL /\ Goto("shell", "cmd_sleep") /\ UNCHANGED xVgaMutex
     \/ At("shell", "cmd_end") /\ Goto("shell", "top") /\ Give
  /\ UNCHANGED <<life, queues, locals, display>>

(***************************************************************************)
(* launch_program, after stop_active_program when a task is still there.   *)
(***************************************************************************)
Launch ==
  /\ At("shell", "launch")
  /\ Goto("shell", IF xActiveTask THEN "stop" ELSE "active")
  /\ UNCHANGED <<life, queues, xVgaMutex, locals, display>>

Stop_send ==
  /\ At("shell", "stop") /\ Goto("shell", "stop_wait")
  /\ xProgCmdQueue' = IF Len(xProgCmdQueue) < CMD_DEPTH
                      THEN Append(xProgCmdQueue, "CMD_STOP") ELSE xProgCmdQueue
  /\ UNCHANGED <<life, xInputQueue, xVgaMutex, locals, display>>

\* The wait is over when the task is gone, or after 50 ms: then it is deleted
\* wherever it is, and a mutex it holds stays taken.
Stop_done ==
  /\ At("shell", "stopped")
  /\ \/ xActiveTask /\ Goto("shell", "stop_wait") /\ UNCHANGED <<xActiveTask, claimed, active_prog>>
     \/ /\ pc' = [pc EXCEPT !["shell"] = "active", !["prog"] = "none"]
        /\ xActiveTask' = FALSE /\ claimed' = FALSE /\ active_prog' = SHELL
  /\ UNCHANGED <<g_chain_program, queues, xVgaMutex, locals, board, uart_text, screen>>

Launch_active ==
  /\ At("shell", "active") /\ Goto("shell", "mirror")
  /\ active_prog' = pid
  /\ xInputQueue' = [i \in DOMAIN xInputQueue |-> [xInputQueue[i] EXCEPT !.fresh = FALSE]]
  /\ UNCHANGED <<xActiveTask, g_chain_program, xProgCmdQueue, xVgaMutex, locals, display>>

Launch_mirror ==
  /\ At("shell", "mirror") /\ Goto("shell", "drain")
  /\ uart_text' = (pid \in CLI)
  /\ UNCHANGED <<life, queues, xVgaMutex, locals, claimed, board, screen>>

\* Defect: the keys typed before the launch are kept.
Launch_drainNothing ==
  /\ At("shell", "drain") /\ Goto("shell", "init_take")
  /\ UNCHANGED <<life, queues, xVgaMutex, locals, display>>

Launch_drain ==
  /\ At("shell", "drain") /\ Goto("shell", "init_take")
  /\ xInputQueue' = << >>
  /\ UNCHANGED <<life, xProgCmdQueue, xVgaMutex, locals, display>>

\* prog->init() under the mutex.
Launch_init ==
  /\ \/ /\ At("shell", "init_take") /\ Goto("shell", "init")
        /\ Take("shell") /\ UNCHANGED <<screen, claimed, board, done>>
     \/ /\ At("shell", "init") /\ Goto("shell", "create")
        /\ Draw(pid) /\ done' = FALSE /\ Give
  /\ UNCHANGED <<life, queues, pid, prog, uart_text>>

Launch_create ==
  /\ At("shell", "create")
  /\ pc' = [pc EXCEPT !["shell"] = "top", !["prog"] = "loop"]
  /\ xActiveTask' = TRUE
  /\ UNCHANGED <<active_prog, g_chain_program, queues, xVgaMutex, locals, display>>

-----------------------------------------------------------------------------
(***************************************************************************)
(* The tick: a delay of t ends, or its wait for a key times out.           *)
(***************************************************************************)
AfterDelay(t) ==
  CASE pc[t] = "sleep"     -> "woken"
    [] pc[t] = "stop_wait" -> "stopped"
    [] pc[t] = "cmd_sleep" -> "cmd_end"
    [] pc[t] = "recv"      -> "top"
    [] pc[t] = "delay"     -> CASE t = "prog" -> "loop" [] t = "uart" -> "poll" [] t = "status" -> "take"

Tick(t) ==
  /\ pc[t] \in Delays \/ (pc[t] = "recv" /\ xInputQueue = << >>)
  /\ Goto(t, AfterDelay(t))
  /\ UNCHANGED <<life, queues, xVgaMutex, locals, display>>

Prog ==
  \/ Prog_loop \/ Prog_cmd \/ Prog_key \/ Prog_take \/ Prog_input \/ Prog_update
  \/ Prog_finish \/ Exit

ShellTask ==
  \/ Shell_screen \/ Shell_top \/ Shell_woken \/ Shell_recv \/ Shell_take \/ Shell_line
  \/ Launch \/ Stop_send \/ Stop_done
  \/ Launch_active \/ Launch_mirror \/ Launch_drain \/ Launch_init \/ Launch_create

Next == Uart_poll \/ Status_pass \/ Prog \/ ShellTask \/ \E t \in Task : Tick(t)

Spec == Init /\ [][Next]_vars

\* Delays end, and are long against the work between them: every task gets
\* the processor again and again.
FairSpec ==
  /\ Spec
  /\ SF_vars(Uart_poll) /\ SF_vars(Status_pass) /\ SF_vars(Prog) /\ SF_vars(ShellTask)
  /\ \A t \in Task : WF_vars(Tick(t))

-----------------------------------------------------------------------------
TypeOK ==
  /\ pc["uart"] \in UartPc /\ pc["status"] \in StatusPc
  /\ pc["prog"] \in ProgPc /\ pc["shell"] \in ShellPc /\ DOMAIN pc = Task
  /\ {active_prog, g_chain_program, pid, prog, board, screen} \subseteq PROGS \cup {SHELL}
  /\ xInputQueue \in Seq([key : Key, fresh : BOOLEAN]) /\ Len(xInputQueue) <= INPUT_DEPTH
  /\ xProgCmdQueue \in Seq({"CMD_STOP"}) /\ Len(xProgCmdQueue) <= CMD_DEPTH
  /\ xVgaMutex \in {"none", "prog", "shell"}
  /\ {xActiveTask, done, claimed, uart_text} \subseteq BOOLEAN

(***************************************************************************)
(* The mutex is never orphaned: its holder exists and is in the section    *)
(* that gives it back.  stop_active_program deletes a task wherever it is, *)
(* and FreeRTOS does not give back what a deleted task holds.              *)
(***************************************************************************)
MutexHeldInSection ==
  /\ xVgaMutex = "prog"  <=> pc["prog"] \in {"input", "update"}
  /\ xVgaMutex = "shell" <=> pc["shell"] \in {"screen", "line", "cmd_sleep", "cmd_end", "init"}

(***************************************************************************)
(* The shell waits for a program only while its task exists and runs that  *)
(* program: active_prog and xActiveTask are two variables that two tasks   *)
(* write without a lock.                                                   *)
(***************************************************************************)
WaitsForLiveProgram ==
  active_prog # SHELL /\ pc["shell"] \in {"top", "sleep", "woken"} =>
    /\ xActiveTask
    /\ pc["prog"] # "none"
    /\ pc["prog"] # "loop" => prog = active_prog

(***************************************************************************)
(* The shell takes keys only on its own screen: it redraws after every     *)
(* program, although it learns of a program's end by polling active_prog.  *)
(***************************************************************************)
PromptOnShellScreen == pc["shell"] = "recv" => screen = SHELL

(***************************************************************************)
(* No key typed before the launch reaches the program: launch_program      *)
(* empties the queue that t_uart_input keeps filling.                      *)
(***************************************************************************)
KeysTypedForProgram ==
  pc["prog"] = "key" /\ xInputQueue # << >> => Head(xInputQueue).fresh

\* A program that starts to exit gives way to the shell's prompt or to another
\* program.
ExitReturns ==
  pc["prog"] = "exit1" ~> \/ pc["shell"] = "recv"
                          \/ pc["shell"] = "create"

\* A request to chain is launched: the shell finds it when it polls.
ChainLaunched == \A p \in PROGS : g_chain_program = p ~> active_prog = p

\* The status task gets the display: the mutex is given back, whatever the
\* programs, the commands and a stop do.
StatusServed == pc["status"] = "take" ~> pc["status"] = "delay"

-----------------------------------------------------------------------------
(***************************************************************************)
(* What the documents say and the code does not do.                        *)
(***************************************************************************)

\* A program that asks to chain at its exit gets the other program started: a
\* program is stopped by a command only while the shell is stopping it.
StoppedOnlyByItsStop ==
  [][Len(xProgCmdQueue') < Len(xProgCmdQueue) => pc["shell"] \in {"stop_wait", "stopped"}]_vars
=============================================================================
