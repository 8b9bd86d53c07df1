---------------------------- MODULE Shell_proofs ----------------------------
(***************************************************************************)
(* The life cycle of the shell's programs, for every set of programs,      *)
(* every chaining relation and every length of the queues: the display     *)
(* mutex, the console and its task handle, the screen under the prompt and *)
(* the keys a program reads.                                               *)
(***************************************************************************)
EXTENDS Shell, SequenceTheorems, TLAPS

Launching == {"mirror", "drain", "init_take", "init", "create"}
Prompting == {"screen_take", "screen", "recv", "take", "line", "cmd_sleep", "cmd_end"}
Stopping  == {"launch", "stop", "stop_wait", "stopped"}

\* The program has the console until the third store of its exit.
HasConsole == pc["prog"] \notin {"none", "exit4"}

\* active_prog names a program from the launch to the exit.
Console ==
  /\ active_prog # SHELL <=> HasConsole \/ pc["shell"] \in Launching
  /\ pc["shell"] \in Prompting \cup Stopping \cup {"active"} => active_prog = SHELL

\* The handle is there while the task is; a launch finds neither.
Handle ==
  /\ xActiveTask <=> pc["prog"] # "none"
  /\ pc["shell"] \in Launching \cup {"active"} => pc["prog"] = "none"

\* What is launched is a program, and a task runs the one that was.
Launched ==
  /\ pc["shell"] \in Launching \cup Stopping \cup {"active"} => pid # SHELL
  /\ HasConsole /\ pc["prog"] # "loop" => prog = active_prog

\* The queue holds keys of the present program only.
Fresh ==
  pc["prog"] # "none" \/ pc["shell"] \in {"init_take", "init", "create"} =>
    \A i \in 1 .. Len(xInputQueue) : xInputQueue[i].fresh

\* The screen is the shell's whenever t_shell finds it has the console.
OwnScreen ==
  \/ pc["shell"] \in Prompting \ {"screen_take", "screen"}
  \/ pc["shell"] = "top" /\ active_prog = SHELL
  => screen = SHELL

IInv ==
  /\ TypeOK /\ MutexHeldInSection
  /\ Console /\ Handle /\ Launched /\ Fresh /\ OwnScreen

-----------------------------------------------------------------------------
(***************************************************************************)
(* The queues.                                                             *)
(***************************************************************************)
KeyRec == [key : Key, fresh : BOOLEAN]

LEMMA QueueAppend ==
  ASSUME NEW S, NEW q \in Seq(S), NEW x \in S
  PROVE  /\ Append(q, x) \in Seq(S) /\ Len(Append(q, x)) = Len(q) + 1
         /\ \A i \in 1 .. Len(q) : Append(q, x)[i] = q[i]
         /\ Append(q, x)[Len(q) + 1] = x
OBVIOUS

LEMMA QueueTail ==
  ASSUME NEW S, NEW q \in Seq(S), q # << >>
  PROVE  /\ Head(q) = q[1] /\ Head(q) \in S
         /\ Tail(q) \in Seq(S) /\ Len(Tail(q)) = Len(q) - 1 /\ Len(q) \in Nat \ {0}
         /\ \A i \in 1 .. Len(q) - 1 : Tail(q)[i] = q[i + 1]
OBVIOUS

\* Marking the keys of a queue as old ones leaves a queue of the same length.
LEMMA QueueMark ==
  ASSUME NEW q \in Seq(KeyRec)
  PROVE  LET m == [i \in DOMAIN q |-> [q[i] EXCEPT !.fresh = FALSE]]
         IN  m \in Seq(KeyRec) /\ Len(m) = Len(q)
<1> DEFINE m == [i \in DOMAIN q |-> [q[i] EXCEPT !.fresh = FALSE]]
<1>1. DOMAIN q = 1 .. Len(q) /\ Len(q) \in Nat
  OBVIOUS
<1>2. ASSUME NEW i \in DOMAIN q
      PROVE  [q[i] EXCEPT !.fresh = FALSE] \in KeyRec
  <2>1. q[i] \in KeyRec
    BY <1>2
  <2> QED
    BY <2>1 DEF KeyRec
<1>3. m \in [1 .. Len(q) -> KeyRec]
  BY <1>1, <1>2
<1> QED
  BY <1>1, <1>3

-----------------------------------------------------------------------------
(***************************************************************************)
(* Types, in four parts: where the tasks are, the programs the variables   *)
(* name, the queues, the flags and the mutex.                              *)
(***************************************************************************)
PcOK ==
  /\ DOMAIN pc = Task
  /\ pc["uart"] \in UartPc /\ pc["status"] \in StatusPc
  /\ pc["prog"] \in ProgPc /\ pc["shell"] \in ShellPc

Name == PROGS \cup {SHELL}
NamesOK ==
  /\ active_prog \in Name /\ g_chain_program \in Name /\ pid \in Name
  /\ prog \in Name /\ board \in Name /\ screen \in Name

QueuesOK ==
  /\ xInputQueue \in Seq(KeyRec) /\ Len(xInputQueue) <= INPUT_DEPTH
  /\ xProgCmdQueue \in Seq({"CMD_STOP"}) /\ Len(xProgCmdQueue) <= CMD_DEPTH

FlagsOK ==
  /\ xVgaMutex \in {"none", "prog", "shell"}
  /\ xActiveTask \in BOOLEAN /\ done \in BOOLEAN
  /\ claimed \in BOOLEAN /\ uart_text \in BOOLEAN

LEMMA TypeParts == TypeOK <=> PcOK /\ NamesOK /\ QueuesOK /\ FlagsOK
<1>1. NamesOK <=> {active_prog, g_chain_program, pid, prog, board, screen}
                    \subseteq PROGS \cup {SHELL}
  BY DEF NamesOK, Name
<1>2. {xActiveTask, done, claimed, uart_text} \subseteq BOOLEAN
      <=> xActiveTask \in BOOLEAN /\ done \in BOOLEAN
          /\ claimed \in BOOLEAN /\ uart_text \in BOOLEAN
  OBVIOUS
<1> QED
  BY <1>1, <1>2, Zenon DEF TypeOK, PcOK, QueuesOK, FlagsOK, KeyRec

LEMMA TypeInit == Init => TypeOK
<1> SUFFICES ASSUME Init PROVE PcOK /\ NamesOK /\ QueuesOK /\ FlagsOK
  BY TypeParts
<1>1. PcOK
  BY DEF Init, PcOK, Task, UartPc, StatusPc, ProgPc, ShellPc
<1>2. NamesOK
  BY DEF Init, NamesOK, Name
<1>3. QueuesOK
  <2>1. << >> \in Seq(KeyRec) /\ << >> \in Seq({"CMD_STOP"}) /\ Len(<< >>) = 0
    OBVIOUS
  <2> QED
    BY <2>1, ShellAssumption DEF Init, QueuesOK
<1>4. FlagsOK
  BY DEF Init, FlagsOK
<1> QED
  BY <1>1, <1>2, <1>3, <1>4

\* Every jump of a task is to a place in its code.
LEMMA PcStep ==
  ASSUME PcOK, [Next]_vars
  PROVE  PcOK'
<1> USE DEF PcOK, Goto, Task, UartPc, StatusPc, ProgPc, ShellPc
<1>1. CASE Uart_poll
  BY <1>1 DEF Uart_poll
<1>2. CASE Status_pass
  BY <1>2 DEF Status_pass
<1>3. CASE Prog_loop
  BY <1>3 DEF Prog_loop
<1>4. CASE Prog_cmd
  BY <1>4 DEF Prog_cmd
<1>5. CASE Prog_key
  BY <1>5 DEF Prog_key
<1>6. CASE Prog_take
  BY <1>6 DEF Prog_take, Take
<1>7. CASE Prog_input
  BY <1>7 DEF Prog_input, Give, Ending
<1>8. CASE Prog_update
  BY <1>8 DEF Prog_update, Give, Ending, Draw
<1>9. CASE Prog_finish
  BY <1>9 DEF Prog_finish
<1>10. CASE Exit
  BY <1>10 DEF Exit
<1>11. CASE Shell_screen
  BY <1>11 DEF Shell_screen, Take, Give
<1>12. CASE Shell_top
  BY <1>12 DEF Shell_top
<1>13. CASE Shell_woken
  BY <1>13 DEF Shell_woken
<1>14. CASE Shell_recv
  BY <1>14 DEF Shell_recv
<1>15. CASE Shell_take
  BY <1>15 DEF Shell_take, Take
<1>16. CASE Shell_line
  BY <1>16 DEF Shell_line, Give
<1>17. CASE Launch
  BY <1>17 DEF Launch
<1>18. CASE Stop_send
  BY <1>18 DEF Stop_send
<1>19. CASE Stop_done
  BY <1>19 DEF Stop_done
<1>20. CASE Launch_active
  BY <1>20 DEF Launch_active
<1>21. CASE Launch_mirror
  BY <1>21 DEF Launch_mirror
<1>22. CASE Launch_drain
  BY <1>22 DEF Launch_drain
<1>23. CASE Launch_init
  BY <1>23 DEF Launch_init, Take, Give, Draw
<1>24. CASE Launch_create
  BY <1>24 DEF Launch_create
<1>25. CASE \E t \in Task : Tick(t)
  <2> PICK t \in Task : Tick(t)
    BY <1>25
  <2>1. /\ t = "uart" => AfterDelay(t) = "poll"
        /\ t = "status" => AfterDelay(t) = "take"
        /\ t = "prog" => AfterDelay(t) = "loop"
        /\ t = "shell" => AfterDelay(t) \in {"woken", "stopped", "cmd_end", "top"}
    BY DEF Tick, AfterDelay, Delays, PcOK, Task, UartPc, StatusPc, ProgPc, ShellPc
  <2> QED
    BY <2>1 DEF Tick, Goto, PcOK, Task, UartPc, StatusPc, ProgPc, ShellPc
<1>26. CASE UNCHANGED vars
  BY <1>26 DEF vars
<1> QED
  BY <1>1, <1>2, <1>3, <1>4, <1>5, <1>6, <1>7, <1>8, <1>9, <1>10, <1>11,
     <1>12, <1>13, <1>14, <1>15, <1>16, <1>17, <1>18, <1>19, <1>20, <1>21,
     <1>22, <1>23, <1>24, <1>25, <1>26 DEF Next, Prog, ShellTask

\* The variables that name a program go on naming one, or the shell.
LEMMA NamesStep ==
  ASSUME TypeOK, [Next]_vars
  PROVE  NamesOK'
<1> NamesOK /\ QueuesOK
  BY TypeParts
<1> USE DEF NamesOK, Name, life, queues, locals, display
<1>1. CASE Uart_poll
  BY <1>1 DEF Uart_poll
<1>2. CASE Status_pass
  BY <1>2 DEF Status_pass
<1>3. CASE Prog_loop
  BY <1>3 DEF Prog_loop
<1>4. CASE Prog_cmd
  BY <1>4 DEF Prog_cmd
<1>5. CASE Prog_key
  BY <1>5 DEF Prog_key
<1>6. CASE Prog_take
  BY <1>6 DEF Prog_take, Take
<1>7. CASE Prog_input
  BY <1>7, ShellAssumption DEF Prog_input, Give, Ending
<1>8. CASE Prog_update
  BY <1>8, ShellAssumption DEF Prog_update, Give, Ending, Draw
<1>9. CASE Prog_finish
  BY <1>9 DEF Prog_finish
<1>10. CASE Exit
  BY <1>10 DEF Exit
<1>11. CASE Shell_screen
  BY <1>11 DEF Shell_screen, Take, Give
<1>12. CASE Shell_top
  BY <1>12 DEF Shell_top
<1>13. CASE Shell_woken
  BY <1>13 DEF Shell_woken
<1>14. CASE Shell_recv
  <2>1. pid' \in Name
    BY <1>14 DEF Shell_recv, Name
  <2> QED
    BY <1>14, <2>1 DEF Shell_recv
<1>15. CASE Shell_take
  BY <1>15 DEF Shell_take, Take
<1>16. CASE Shell_line
  BY <1>16 DEF Shell_line, Give
<1>17. CASE Launch
  BY <1>17 DEF Launch
<1>18. CASE Stop_send
  BY <1>18 DEF Stop_send
<1>19. CASE Stop_done
  BY <1>19 DEF Stop_done
<1>20. CASE Launch_active
  BY <1>20 DEF Launch_active
<1>21. CASE Launch_mirror
  BY <1>21 DEF Launch_mirror
<1>22. CASE Launch_drain
  BY <1>22 DEF Launch_drain
<1>23. CASE Launch_init
  BY <1>23 DEF Launch_init, Take, Give, Draw
<1>24. CASE Launch_create
  BY <1>24 DEF Launch_create
<1>25. CASE \E t \in Task : Tick(t)
  BY <1>25 DEF Tick
<1>26. CASE UNCHANGED vars
  BY <1>26 DEF vars
<1> QED
  BY <1>1, <1>2, <1>3, <1>4, <1>5, <1>6, <1>7, <1>8, <1>9, <1>10, <1>11,
     <1>12, <1>13, <1>14, <1>15, <1>16, <1>17, <1>18, <1>19, <1>20, <1>21,
     <1>22, <1>23, <1>24, <1>25, <1>26 DEF Next, Prog, ShellTask

\* Both queues keep to their lengths: a full one refuses.
LEMMA QueuesStep ==
  ASSUME TypeOK, [Next]_vars
  PROVE  QueuesOK'
<1> QueuesOK /\ CMD_DEPTH \in Nat \ {0} /\ INPUT_DEPTH \in Nat \ {0}
  BY TypeParts, ShellAssumption
<1> USE DEF QueuesOK, life, queues, locals, display
<1>1. CASE Uart_poll
  <2>1. \/ xInputQueue' = xInputQueue
        \/ /\ Len(xInputQueue) < INPUT_DEPTH
           /\ \E r \in KeyRec : xInputQueue' = Append(xInputQueue, r)
    BY <1>1 DEF Uart_poll, KeyRec
  <2> QED
    BY <1>1, <2>1, QueueAppend DEF Uart_poll
<1>2. CASE Status_pass
  BY <1>2 DEF Status_pass
<1>3. CASE Prog_loop
  BY <1>3 DEF Prog_loop
<1>4. CASE Prog_cmd
  BY <1>4, QueueTail DEF Prog_cmd
<1>5. CASE Prog_key
  BY <1>5, QueueTail DEF Prog_key
<1>6. CASE Prog_take
  BY <1>6 DEF Prog_take, Take
<1>7. CASE Prog_input
  BY <1>7 DEF Prog_input, Give, Ending
<1>8. CASE Prog_update
  BY <1>8 DEF Prog_update, Give, Ending, Draw
<1>9. CASE Prog_finish
  BY <1>9 DEF Prog_finish
<1>10. CASE Exit
  BY <1>10 DEF Exit
<1>11. CASE Shell_screen
  BY <1>11 DEF Shell_screen, Take, Give
<1>12. CASE Shell_top
  BY <1>12 DEF Shell_top
<1>13. CASE Shell_woken
  BY <1>13 DEF Shell_woken
<1>14. CASE Shell_recv
  <2>1. xInputQueue # << >>
    BY <1>14 DEF Shell_recv, At, Ready
  <2> QED
    BY <1>14, <2>1, QueueTail DEF Shell_recv
<1>15. CASE Shell_take
  BY <1>15 DEF Shell_take, Take
<1>16. CASE Shell_line
  BY <1>16 DEF Shell_line, Give
<1>17. CASE Launch
  BY <1>17 DEF Launch
<1>18. CASE Stop_send
  BY <1>18, QueueAppend DEF Stop_send
<1>19. CASE Stop_done
  BY <1>19 DEF Stop_done
<1>20. CASE Launch_active
  BY <1>20, QueueMark DEF Launch_active
<1>21. CASE Launch_mirror
  BY <1>21 DEF Launch_mirror
<1>22. CASE Launch_drain
  <2>1. << >> \in Seq(KeyRec) /\ Len(<< >>) = 0
    OBVIOUS
  <2> QED
    BY <1>22, <2>1 DEF Launch_drain
<1>23. CASE Launch_init
  BY <1>23 DEF Launch_init, Take, Give, Draw
<1>24. CASE Launch_create
  BY <1>24 DEF Launch_create
<1>25. CASE \E t \in Task : Tick(t)
  BY <1>25 DEF Tick
<1>26. CASE UNCHANGED vars
  BY <1>26 DEF vars
<1> QED
  BY <1>1, <1>2, <1>3, <1>4, <1>5, <1>6, <1>7, <1>8, <1>9, <1>10, <1>11,
     <1>12, <1>13, <1>14, <1>15, <1>16, <1>17, <1>18, <1>19, <1>20, <1>21,
     <1>22, <1>23, <1>24, <1>25, <1>26 DEF Next, Prog, ShellTask

\* The flags stay flags, and the holder of the mutex is a task that takes it.
LEMMA FlagsStep ==
  ASSUME TypeOK, [Next]_vars
  PROVE  FlagsOK'
<1> FlagsOK
  BY TypeParts
<1> USE DEF FlagsOK, life, queues, locals, display
<1>1. CASE Uart_poll
  BY <1>1 DEF Uart_poll
<1>2. CASE Status_pass
  BY <1>2 DEF Status_pass
<1>3. CASE Prog_loop
  BY <1>3 DEF Prog_loop
<1>4. CASE Prog_cmd
  BY <1>4 DEF Prog_cmd
<1>5. CASE Prog_key
  BY <1>5 DEF Prog_key
<1>6. CASE Prog_take
  BY <1>6 DEF Prog_take, Take
<1>7. CASE Prog_input
  BY <1>7 DEF Prog_input, Give, Ending
<1>8. CASE Prog_update
  BY <1>8 DEF Prog_update, Give, Ending, Draw
<1>9. CASE Prog_finish
  BY <1>9 DEF Prog_finish
<1>10. CASE Exit
  BY <1>10 DEF Exit
<1>11. CASE Shell_screen
  BY <1>11 DEF Shell_screen, Take, Give
<1>12. CASE Shell_top
  BY <1>12 DEF Shell_top
<1>13. CASE Shell_woken
  BY <1>13 DEF Shell_woken
<1>14. CASE Shell_recv
  BY <1>14 DEF Shell_recv
<1>15. CASE Shell_take
  BY <1>15 DEF Shell_take, Take
<1>16. CASE Shell_line
  BY <1>16 DEF Shell_line, Give
<1>17. CASE Launch
  BY <1>17 DEF Launch
<1>18. CASE Stop_send
  BY <1>18 DEF Stop_send
<1>19. CASE Stop_done
  BY <1>19 DEF Stop_done
<1>20. CASE Launch_active
  BY <1>20 DEF Launch_active
<1>21. CASE Launch_mirror
  BY <1>21 DEF Launch_mirror
<1>22. CASE Launch_drain
  BY <1>22 DEF Launch_drain
<1>23. CASE Launch_init
  BY <1>23 DEF Launch_init, Take, Give, Draw
<1>24. CASE Launch_create
  BY <1>24 DEF Launch_create
<1>25. CASE \E t \in Task : Tick(t)
  BY <1>25 DEF Tick
<1>26. CASE UNCHANGED vars
  BY <1>26 DEF vars
<1> QED
  BY <1>1, <1>2, <1>3, <1>4, <1>5, <1>6, <1>7, <1>8, <1>9, <1>10, <1>11,
     <1>12, <1>13, <1>14, <1>15, <1>16, <1>17, <1>18, <1>19, <1>20, <1>21,
     <1>22, <1>23, <1>24, <1>25, <1>26 DEF Next, Prog, ShellTask

\* The end of a delay moves one task, and nothing else.
LEMMA TickMoves ==
  ASSUME PcOK, NEW t \in Task, Tick(t)
  PROVE  /\ UNCHANGED <<life, queues, xVgaMutex, locals, display>>
         /\ pc'["prog"] = pc["prog"] \/ (pc["prog"] = "delay" /\ pc'["prog"] = "loop")
         /\ \/ pc'["shell"] = pc["shell"]
            \/ pc["shell"] = "sleep" /\ pc'["shell"] = "woken"
            \/ pc["shell"] = "stop_wait" /\ pc'["shell"] = "stopped"
            \/ pc["shell"] = "cmd_sleep" /\ pc'["shell"] = "cmd_end"
            \/ pc["shell"] = "recv" /\ pc'["shell"] = "top"
<1>1. UNCHANGED <<life, queues, xVgaMutex, locals, display>>
  BY DEF Tick
<1>2. pc' = [pc EXCEPT ![t] = AfterDelay(t)] /\ DOMAIN pc = Task
  BY DEF Tick, Goto, PcOK
<1>3. \A u \in Task \ {t} : pc'[u] = pc[u]
  BY <1>2
<1>4. CASE t \in {"uart", "status"}
  <2>1. pc'["prog"] = pc["prog"] /\ pc'["shell"] = pc["shell"]
    BY <1>3, <1>4 DEF Task
  <2> QED
    BY <1>1, <2>1, Zenon
<1>5. CASE t = "prog"
  <2>1. pc["prog"] = "delay"
    BY <1>5 DEF Tick, Delays, PcOK, ProgPc
  <2>2. pc'["prog"] = "loop"
    BY <1>2, <1>5, <2>1 DEF AfterDelay, Task
  <2>3. pc'["shell"] = pc["shell"]
    BY <1>3, <1>5 DEF Task
  <2> QED
    BY <1>1, <2>1, <2>2, <2>3, Zenon
<1>6. CASE t = "shell"
  <2>1. pc["shell"] \in {"sleep", "stop_wait", "cmd_sleep", "recv"}
    BY <1>6 DEF Tick, Delays, PcOK, ShellPc
  <2>2. pc'["shell"] = AfterDelay("shell")
    BY <1>2, <1>6 DEF Task
  <2>3. \/ pc["shell"] = "sleep" /\ pc'["shell"] = "woken"
        \/ pc["shell"] = "stop_wait" /\ pc'["shell"] = "stopped"
        \/ pc["shell"] = "cmd_sleep" /\ pc'["shell"] = "cmd_end"
        \/ pc["shell"] = "recv" /\ pc'["shell"] = "top"
    BY <2>1, <2>2 DEF AfterDelay
  <2>4. pc'["prog"] = pc["prog"]
    BY <1>3, <1>6 DEF Task
  <2> QED
    BY <1>1, <2>3, <2>4, Zenon
<1> QED
  BY <1>4, <1>5, <1>6 DEF Task

\* While t_shell looks at active_prog, a program that does not hold the mutex
\* cannot run: its priority is the lower one.
LEMMA ShellFirst ==
  ASSUME TypeOK, MutexHeldInSection, NEW l, At("prog", l), l \notin {"input", "update"}
  PROVE  pc["shell"] # "top"
<1> SUFFICES ASSUME pc["shell"] = "top" PROVE FALSE
  OBVIOUS
<1>1. xVgaMutex \notin {"prog", "shell"}
  BY DEF At, MutexHeldInSection
<1>2. Ready("shell")
  BY DEF Ready, Delays, Waiting, Takes
<1>3. Priority("shell") = 3 /\ Priority("prog") = 2
  BY <1>1 DEF Priority, BasePriority
<1> QED
  BY <1>2, <1>3 DEF At, Task

\* The mutex is taken and given by the section that needs it, and a program that is
\* deleted does not hold it.
LEMMA MutexStep ==
  ASSUME IInv, [Next]_vars
  PROVE  MutexHeldInSection'
<1> PcOK /\ FlagsOK /\ NamesOK
  BY TypeParts DEF IInv
<1> USE DEF IInv, MutexHeldInSection, Console, HasConsole, Handle, Launching,
       Stopping, At, Ready, Waiting, Takes, PcOK, Goto, Task, UartPc,
       StatusPc, ProgPc, ShellPc
<1>1. CASE Uart_poll
  BY <1>1 DEF Uart_poll
<1>2. CASE Status_pass
  BY <1>2 DEF Status_pass
<1>3. CASE Prog_loop
  BY <1>3 DEF Prog_loop
<1>4. CASE Prog_cmd
  BY <1>4 DEF Prog_cmd
<1>5. CASE Prog_key
  BY <1>5 DEF Prog_key
<1>6. CASE Prog_take
  BY <1>6 DEF Prog_take, Take
<1>7. CASE Prog_input
  BY <1>7 DEF Prog_input, Give, Ending
<1>8. CASE Prog_update
  BY <1>8 DEF Prog_update, Give, Ending, Draw
<1>9. CASE Prog_finish
  BY <1>9 DEF Prog_finish
<1>10. CASE Exit
  BY <1>10 DEF Exit
<1>11. CASE Shell_screen
  BY <1>11 DEF Shell_screen, Take, Give
<1>12. CASE Shell_top
  BY <1>12 DEF Shell_top
<1>13. CASE Shell_woken
  BY <1>13 DEF Shell_woken
<1>14. CASE Shell_recv
  BY <1>14 DEF Shell_recv
<1>15. CASE Shell_take
  BY <1>15 DEF Shell_take, Take
<1>16. CASE Shell_line
  BY <1>16 DEF Shell_line, Give
<1>17. CASE Launch
  BY <1>17 DEF Launch
<1>18. CASE Stop_send
  BY <1>18 DEF Stop_send
<1>19. CASE Stop_done
  BY <1>19 DEF Stop_done
<1>20. CASE Launch_active
  BY <1>20 DEF Launch_active
<1>21. CASE Launch_mirror
  BY <1>21 DEF Launch_mirror
<1>22. CASE Launch_drain
  BY <1>22 DEF Launch_drain
<1>23. CASE Launch_init
  BY <1>23 DEF Launch_init, Take, Give, Draw
<1>24. CASE Launch_create
  BY <1>24 DEF Launch_create
<1>25. CASE \E t \in Task : Tick(t)
  <2> PICK t \in Task : Tick(t)
    BY <1>25
  <2> QED
    BY TickMoves DEF IInv, MutexHeldInSection
<1>26. CASE UNCHANGED vars
  BY <1>26 DEF vars
<1> QED
  BY <1>1, <1>2, <1>3, <1>4, <1>5, <1>6, <1>7, <1>8, <1>9, <1>10, <1>11,
     <1>12, <1>13, <1>14, <1>15, <1>16, <1>17, <1>18, <1>19, <1>20, <1>21,
     <1>22, <1>23, <1>24, <1>25, <1>26 DEF Next, Prog, ShellTask

\* The console changes hands at a launch and at an exit only.
LEMMA ConsoleStep ==
  ASSUME IInv, [Next]_vars
  PROVE  Console'
<1> PcOK /\ FlagsOK /\ NamesOK
  BY TypeParts DEF IInv
<1> USE DEF IInv, Console, HasConsole, Handle, Launched, Launching, Prompting,
       Stopping, life, locals, At, Ready, Waiting, Takes, PcOK, Goto, Task,
       UartPc, StatusPc, ProgPc, ShellPc
<1>1. CASE Uart_poll
  BY <1>1 DEF Uart_poll
<1>2. CASE Status_pass
  BY <1>2 DEF Status_pass
<1>3. CASE Prog_loop
  BY <1>3 DEF Prog_loop
<1>4. CASE Prog_cmd
  BY <1>4 DEF Prog_cmd
<1>5. CASE Prog_key
  BY <1>5 DEF Prog_key
<1>6. CASE Prog_take
  BY <1>6 DEF Prog_take, Take
<1>7. CASE Prog_input
  BY <1>7 DEF Prog_input, Give, Ending
<1>8. CASE Prog_update
  BY <1>8 DEF Prog_update, Give, Ending, Draw
<1>9. CASE Prog_finish
  BY <1>9 DEF Prog_finish
<1>10. CASE Exit
  BY <1>10 DEF Exit
<1>11. CASE Shell_screen
  BY <1>11 DEF Shell_screen, Take, Give
<1>12. CASE Shell_top
  BY <1>12 DEF Shell_top
<1>13. CASE Shell_woken
  BY <1>13 DEF Shell_woken
<1>14. CASE Shell_recv
  BY <1>14 DEF Shell_recv
<1>15. CASE Shell_take
  BY <1>15 DEF Shell_take, Take
<1>16. CASE Shell_line
  BY <1>16 DEF Shell_line, Give
<1>17. CASE Launch
  BY <1>17 DEF Launch
<1>18. CASE Stop_send
  BY <1>18 DEF Stop_send
<1>19. CASE Stop_done
  BY <1>19 DEF Stop_done
<1>20. CASE Launch_active
  BY <1>20 DEF Launch_active
<1>21. CASE Launch_mirror
  BY <1>21 DEF Launch_mirror
<1>22. CASE Launch_drain
  BY <1>22 DEF Launch_drain
<1>23. CASE Launch_init
  BY <1>23 DEF Launch_init, Take, Give, Draw
<1>24. CASE Launch_create
  BY <1>24 DEF Launch_create
<1>25. CASE \E t \in Task : Tick(t)
  <2> PICK t \in Task : Tick(t)
    BY <1>25
  <2> QED
    BY TickMoves DEF IInv, Console, HasConsole, Launching, Prompting, Stopping, life
<1>26. CASE UNCHANGED vars
  BY <1>26 DEF vars
<1> QED
  BY <1>1, <1>2, <1>3, <1>4, <1>5, <1>6, <1>7, <1>8, <1>9, <1>10, <1>11,
     <1>12, <1>13, <1>14, <1>15, <1>16, <1>17, <1>18, <1>19, <1>20, <1>21,
     <1>22, <1>23, <1>24, <1>25, <1>26 DEF Next, Prog, ShellTask

\* The handle is set and cleared with the task.
LEMMA HandleStep ==
  ASSUME IInv, [Next]_vars
  PROVE  Handle'
<1> PcOK /\ FlagsOK /\ NamesOK
  BY TypeParts DEF IInv
<1> USE DEF IInv, Console, HasConsole, Handle, Launching, Prompting, Stopping,
       life, locals, At, Ready, Waiting, Takes, PcOK, Goto, Task, UartPc,
       StatusPc, ProgPc, ShellPc
<1>1. CASE Uart_poll
  BY <1>1 DEF Uart_poll
<1>2. CASE Status_pass
  BY <1>2 DEF Status_pass
<1>3. CASE Prog_loop
  BY <1>3 DEF Prog_loop
<1>4. CASE Prog_cmd
  BY <1>4 DEF Prog_cmd
<1>5. CASE Prog_key
  BY <1>5 DEF Prog_key
<1>6. CASE Prog_take
  BY <1>6 DEF Prog_take, Take
<1>7. CASE Prog_input
  BY <1>7 DEF Prog_input, Give, Ending
<1>8. CASE Prog_update
  BY <1>8 DEF Prog_update, Give, Ending, Draw
<1>9. CASE Prog_finish
  BY <1>9 DEF Prog_finish
<1>10. CASE Exit
  BY <1>10 DEF Exit
<1>11. CASE Shell_screen
  BY <1>11 DEF Shell_screen, Take, Give
<1>12. CASE Shell_top
  BY <1>12 DEF Shell_top
<1>13. CASE Shell_woken
  BY <1>13 DEF Shell_woken
<1>14. CASE Shell_recv
  BY <1>14 DEF Shell_recv
<1>15. CASE Shell_take
  BY <1>15 DEF Shell_take, Take
<1>16. CASE Shell_line
  BY <1>16 DEF Shell_line, Give
<1>17. CASE Launch
  BY <1>17 DEF Launch
<1>18. CASE Stop_send
  BY <1>18 DEF Stop_send
<1>19. CASE Stop_done
  BY <1>19 DEF Stop_done
<1>20. CASE Launch_active
  BY <1>20 DEF Launch_active
<1>21. CASE Launch_mirror
  BY <1>21 DEF Launch_mirror
<1>22. CASE Launch_drain
  BY <1>22 DEF Launch_drain
<1>23. CASE Launch_init
  BY <1>23 DEF Launch_init, Take, Give, Draw
<1>24. CASE Launch_create
  BY <1>24 DEF Launch_create
<1>25. CASE \E t \in Task : Tick(t)
  <2> PICK t \in Task : Tick(t)
    BY <1>25
  <2> QED
    BY TickMoves DEF IInv, Handle, Launching, life
<1>26. CASE UNCHANGED vars
  BY <1>26 DEF vars
<1> QED
  BY <1>1, <1>2, <1>3, <1>4, <1>5, <1>6, <1>7, <1>8, <1>9, <1>10, <1>11,
     <1>12, <1>13, <1>14, <1>15, <1>16, <1>17, <1>18, <1>19, <1>20, <1>21,
     <1>22, <1>23, <1>24, <1>25, <1>26 DEF Next, Prog, ShellTask

\* What t_shell launches is a program, and the task keeps running that one.
LEMMA LaunchedStep ==
  ASSUME IInv, [Next]_vars
  PROVE  Launched'
<1> PcOK /\ FlagsOK /\ NamesOK
  BY TypeParts DEF IInv
<1> USE DEF IInv, Console, HasConsole, Handle, Launched, Launching, Prompting,
       Stopping, life, locals, At, Ready, Waiting, Takes, PcOK, Goto, Task,
       UartPc, StatusPc, ProgPc, ShellPc
<1>1. CASE Uart_poll
  BY <1>1 DEF Uart_poll
<1>2. CASE Status_pass
  BY <1>2 DEF Status_pass
<1>3. CASE Prog_loop
  BY <1>3 DEF Prog_loop
<1>4. CASE Prog_cmd
  BY <1>4 DEF Prog_cmd
<1>5. CASE Prog_key
  BY <1>5 DEF Prog_key
<1>6. CASE Prog_take
  BY <1>6 DEF Prog_take, Take
<1>7. CASE Prog_input
  BY <1>7 DEF Prog_input, Give, Ending
<1>8. CASE Prog_update
  BY <1>8 DEF Prog_update, Give, Ending, Draw
<1>9. CASE Prog_finish
  BY <1>9 DEF Prog_finish
<1>10. CASE Exit
  BY <1>10 DEF Exit
<1>11. CASE Shell_screen
  BY <1>11 DEF Shell_screen, Take, Give
<1>12. CASE Shell_top
  BY <1>12 DEF Shell_top
<1>13. CASE Shell_woken
  BY <1>13 DEF Shell_woken
<1>14. CASE Shell_recv
  BY <1>14 DEF Shell_recv
<1>15. CASE Shell_take
  BY <1>15 DEF Shell_take, Take
<1>16. CASE Shell_line
  BY <1>16 DEF Shell_line, Give
<1>17. CASE Launch
  BY <1>17 DEF Launch
<1>18. CASE Stop_send
  BY <1>18 DEF Stop_send
<1>19. CASE Stop_done
  BY <1>19 DEF Stop_done
<1>20. CASE Launch_active
  BY <1>20 DEF Launch_active
<1>21. CASE Launch_mirror
  BY <1>21 DEF Launch_mirror
<1>22. CASE Launch_drain
  BY <1>22 DEF Launch_drain
<1>23. CASE Launch_init
  BY <1>23 DEF Launch_init, Take, Give, Draw
<1>24. CASE Launch_create
  BY <1>24 DEF Launch_create
<1>25. CASE \E t \in Task : Tick(t)
  <2> PICK t \in Task : Tick(t)
    BY <1>25
  <2> QED
    BY TickMoves DEF IInv, Launched, HasConsole, Launching, Stopping, life, locals
<1>26. CASE UNCHANGED vars
  BY <1>26 DEF vars
<1> QED
  BY <1>1, <1>2, <1>3, <1>4, <1>5, <1>6, <1>7, <1>8, <1>9, <1>10, <1>11,
     <1>12, <1>13, <1>14, <1>15, <1>16, <1>17, <1>18, <1>19, <1>20, <1>21,
     <1>22, <1>23, <1>24, <1>25, <1>26 DEF Next, Prog, ShellTask

\* t_shell draws its screen before it looks for keys, and no program draws on it after.
LEMMA ScreenStep ==
  ASSUME IInv, [Next]_vars
  PROVE  OwnScreen'
<1> PcOK /\ FlagsOK /\ NamesOK
  BY TypeParts DEF IInv
<1> USE DEF IInv, Console, HasConsole, Handle, OwnScreen, Launching,
       Prompting, Stopping, life, display, At, Ready, Waiting, Takes, PcOK,
       Goto, Task, UartPc, StatusPc, ProgPc, ShellPc
<1>1. CASE Uart_poll
  BY <1>1 DEF Uart_poll
<1>2. CASE Status_pass
  BY <1>2 DEF Status_pass
<1>3. CASE Prog_loop
  BY <1>3 DEF Prog_loop
<1>4. CASE Prog_cmd
  BY <1>4 DEF Prog_cmd
<1>5. CASE Prog_key
  BY <1>5 DEF Prog_key
<1>6. CASE Prog_take
  BY <1>6 DEF Prog_take, Take
<1>7. CASE Prog_input
  BY <1>7 DEF Prog_input, Give, Ending
<1>8. CASE Prog_update
  BY <1>8 DEF Prog_update, Give, Ending, Draw
<1>9. CASE Prog_finish
  BY <1>9 DEF Prog_finish
<1>10. CASE Exit
  <2>1. At("prog", "exit3") => pc["shell"] # "top"
    BY ShellFirst DEF IInv
  <2> QED
    BY <1>10, <2>1 DEF Exit
<1>11. CASE Shell_screen
  BY <1>11 DEF Shell_screen, Take, Give
<1>12. CASE Shell_top
  BY <1>12 DEF Shell_top
<1>13. CASE Shell_woken
  BY <1>13 DEF Shell_woken
<1>14. CASE Shell_recv
  BY <1>14 DEF Shell_recv
<1>15. CASE Shell_take
  BY <1>15 DEF Shell_take, Take
<1>16. CASE Shell_line
  BY <1>16 DEF Shell_line, Give
<1>17. CASE Launch
  BY <1>17 DEF Launch
<1>18. CASE Stop_send
  BY <1>18 DEF Stop_send
<1>19. CASE Stop_done
  BY <1>19 DEF Stop_done
<1>20. CASE Launch_active
  BY <1>20 DEF Launch_active
<1>21. CASE Launch_mirror
  BY <1>21 DEF Launch_mirror
<1>22. CASE Launch_drain
  BY <1>22 DEF Launch_drain
<1>23. CASE Launch_init
  BY <1>23 DEF Launch_init, Take, Give, Draw
<1>24. CASE Launch_create
  BY <1>24 DEF Launch_create
<1>25. CASE \E t \in Task : Tick(t)
  <2> PICK t \in Task : Tick(t)
    BY <1>25
  <2> QED
    BY TickMoves DEF IInv, OwnScreen, Console, Prompting, life, display
<1>26. CASE UNCHANGED vars
  BY <1>26 DEF vars
<1> QED
  BY <1>1, <1>2, <1>3, <1>4, <1>5, <1>6, <1>7, <1>8, <1>9, <1>10, <1>11,
     <1>12, <1>13, <1>14, <1>15, <1>16, <1>17, <1>18, <1>19, <1>20, <1>21,
     <1>22, <1>23, <1>24, <1>25, <1>26 DEF Next, Prog, ShellTask

\* The keys in the queue are the program's own from the draining on: t_uart_input adds
\* such keys only.
LEMMA FreshStep ==
  ASSUME IInv, [Next]_vars
  PROVE  Fresh'
<1> PcOK /\ FlagsOK /\ NamesOK
  BY TypeParts DEF IInv
<1> USE DEF IInv, Fresh, Handle, Launching, queues, At, Ready, Waiting, Takes,
       PcOK, Goto, Task, UartPc, StatusPc, ProgPc, ShellPc
<1>1. CASE Uart_poll
  <2>1. \/ UNCHANGED xInputQueue
        \/ \E r \in KeyRec : r.fresh /\ xInputQueue' = Append(xInputQueue, r)
    BY <1>1 DEF Uart_poll, KeyRec
  <2>2. CASE UNCHANGED xInputQueue
    BY <1>1, <2>2 DEF Uart_poll, IInv, Fresh, PcOK, Goto, Task
  <2>3. CASE \E r \in KeyRec : r.fresh /\ xInputQueue' = Append(xInputQueue, r)
    <3>1. xInputQueue \in Seq(KeyRec) /\ Len(xInputQueue) \in Nat
      BY TypeParts DEF IInv, QueuesOK
    <3>2. PICK r \in KeyRec : r.fresh /\ xInputQueue' = Append(xInputQueue, r)
      BY <2>3
    <3>3. (\A i \in 1 .. Len(xInputQueue) : xInputQueue[i].fresh) =>
             \A i \in 1 .. Len(xInputQueue') : xInputQueue'[i].fresh
      BY <3>1, <3>2, QueueAppend
    <3> QED
      BY <1>1, <3>3 DEF Uart_poll, IInv, Fresh, PcOK, Goto, Task
  <2> QED
    BY <2>1, <2>2, <2>3
<1>2. CASE Status_pass
  BY <1>2 DEF Status_pass
<1>3. CASE Prog_loop
  BY <1>3 DEF Prog_loop
<1>4. CASE Prog_cmd
  BY <1>4 DEF Prog_cmd
<1>5. CASE Prog_key
  <2>1. xInputQueue \in Seq(KeyRec)
    BY TypeParts DEF IInv, QueuesOK
  <2>2. (\A i \in 1 .. Len(xInputQueue) : xInputQueue[i].fresh) =>
           \A i \in 1 .. Len(xInputQueue') : xInputQueue'[i].fresh
    BY <1>5, <2>1, QueueTail DEF Prog_key
  <2> QED
    BY <1>5, <2>2 DEF Prog_key, IInv, Fresh, At, PcOK, Goto, Task
<1>6. CASE Prog_take
  BY <1>6 DEF Prog_take, Take
<1>7. CASE Prog_input
  BY <1>7 DEF Prog_input, Give, Ending
<1>8. CASE Prog_update
  BY <1>8 DEF Prog_update, Give, Ending, Draw
<1>9. CASE Prog_finish
  BY <1>9 DEF Prog_finish
<1>10. CASE Exit
  BY <1>10 DEF Exit
<1>11. CASE Shell_screen
  BY <1>11 DEF Shell_screen, Take, Give
<1>12. CASE Shell_top
  BY <1>12 DEF Shell_top
<1>13. CASE Shell_woken
  BY <1>13 DEF Shell_woken
<1>14. CASE Shell_recv
  <2>1. pc["prog"] = "none" \/ pc["prog"] = "exit4"
    BY <1>14 DEF Shell_recv, At, IInv, Console, HasConsole, Prompting
  <2>2. xInputQueue \in Seq(KeyRec) /\ xInputQueue # << >>
    BY <1>14, TypeParts DEF Shell_recv, At, Ready, IInv, QueuesOK
  <2>3. (\A i \in 1 .. Len(xInputQueue) : xInputQueue[i].fresh) =>
           \A i \in 1 .. Len(xInputQueue') : xInputQueue'[i].fresh
    BY <1>14, <2>2, QueueTail DEF Shell_recv
  <2> QED
    BY <1>14, <2>3 DEF Shell_recv, IInv, Fresh, At, PcOK, Goto, Task, ShellPc
<1>15. CASE Shell_take
  BY <1>15 DEF Shell_take, Take
<1>16. CASE Shell_line
  BY <1>16 DEF Shell_line, Give
<1>17. CASE Launch
  BY <1>17 DEF Launch
<1>18. CASE Stop_send
  BY <1>18 DEF Stop_send
<1>19. CASE Stop_done
  BY <1>19 DEF Stop_done
<1>20. CASE Launch_active
  BY <1>20 DEF Launch_active
<1>21. CASE Launch_mirror
  BY <1>21 DEF Launch_mirror
<1>22. CASE Launch_drain
  BY <1>22 DEF Launch_drain
<1>23. CASE Launch_init
  BY <1>23 DEF Launch_init, Take, Give, Draw
<1>24. CASE Launch_create
  BY <1>24 DEF Launch_create
<1>25. CASE \E t \in Task : Tick(t)
  <2> PICK t \in Task : Tick(t)
    BY <1>25
  <2> QED
    BY TickMoves DEF IInv, Fresh, queues
<1>26. CASE UNCHANGED vars
  BY <1>26 DEF vars
<1> QED
  BY <1>1, <1>2, <1>3, <1>4, <1>5, <1>6, <1>7, <1>8, <1>9, <1>10, <1>11,
     <1>12, <1>13, <1>14, <1>15, <1>16, <1>17, <1>18, <1>19, <1>20, <1>21,
     <1>22, <1>23, <1>24, <1>25, <1>26 DEF Next, Prog, ShellTask

-----------------------------------------------------------------------------
(***************************************************************************)
(* The theorems.                                                           *)
(***************************************************************************)
LEMMA Start == Init => IInv
<1> SUFFICES ASSUME Init PROVE IInv
  OBVIOUS
<1>1. TypeOK
  BY TypeInit
<1>2. pc["prog"] = "none" /\ pc["shell"] = "screen_take"
  BY DEF Init, Task
<1>3. /\ active_prog = SHELL /\ xActiveTask = FALSE /\ xVgaMutex = "none"
      /\ xInputQueue = << >> /\ screen = SHELL
  BY DEF Init
<1> QED
  BY <1>1, <1>2, <1>3 DEF IInv, MutexHeldInSection, Console, HasConsole, Handle,
     Launched, Fresh, OwnScreen, Launching, Prompting, Stopping

LEMMA Inductive == ASSUME IInv, [Next]_vars PROVE IInv'
<1>1. TypeOK'
  <2>1. PcOK' /\ NamesOK' /\ QueuesOK' /\ FlagsOK'
    BY TypeParts, PcStep, NamesStep, QueuesStep, FlagsStep DEF IInv
  <2>2. (PcOK /\ NamesOK /\ QueuesOK /\ FlagsOK)' => TypeOK'
    BY TypeParts, PTL
  <2> QED
    BY <2>1, <2>2
<1> QED
  BY <1>1, MutexStep, ConsoleStep, HandleStep, LaunchedStep, FreshStep, ScreenStep DEF IInv

LEMMA Always == Spec => []IInv
<1>1. IInv /\ UNCHANGED vars => IInv'
  BY Inductive
<1> QED
  BY Start, Inductive, PTL DEF Spec

\* Every variable of the tasks keeps to its values, and no queue grows past its
\* length (main.c, xQueueCreate and every xQueueSend).
THEOREM TypeCorrect == Spec => []TypeOK
<1>1. IInv => TypeOK
  BY DEF IInv
<1> QED
  BY <1>1, Always, PTL

\* The display mutex is never left with a task that is gone or past its section,
\* although stop_active_program deletes a task wherever it is.
THEOREM MutexSafe == Spec => []MutexHeldInSection
<1>1. IInv => MutexHeldInSection
  BY DEF IInv
<1> QED
  BY <1>1, Always, PTL

\* t_shell waits for a program only while its task exists and runs that program
\* (launch_program, exit_active_program).
THEOREM NoLostProgram == Spec => []WaitsForLiveProgram
<1>1. IInv => WaitsForLiveProgram
  BY DEF IInv, WaitsForLiveProgram, Console, HasConsole, Handle, Launched, Launching
<1> QED
  BY <1>1, Always, PTL

\* t_shell takes keys on its own screen only: the priorities keep a program from
\* ending between its look at active_prog and its wait for a key.
THEOREM PromptSafe == Spec => []PromptOnShellScreen
<1>1. IInv => PromptOnShellScreen
  BY DEF IInv, PromptOnShellScreen, OwnScreen, Prompting
<1> QED
  BY <1>1, Always, PTL

\* No key typed before a launch reaches the program (launch_program drains the
\* queue that t_uart_input goes on filling).
THEOREM KeysSafe == Spec => []KeysTypedForProgram
<1>1. IInv => KeysTypedForProgram
  <2> SUFFICES ASSUME IInv, pc["prog"] = "key", xInputQueue # << >>
               PROVE  Head(xInputQueue).fresh
    BY DEF KeysTypedForProgram
  <2>1. xInputQueue \in Seq(KeyRec)
    BY TypeParts DEF IInv, QueuesOK
  <2>2. Head(xInputQueue) = xInputQueue[1] /\ 1 \in 1 .. Len(xInputQueue)
    BY <2>1, QueueTail
  <2>3. \A i \in 1 .. Len(xInputQueue) : xInputQueue[i].fresh
    BY DEF IInv, Fresh
  <2> QED
    BY <2>2, <2>3
<1> QED
  BY <1>1, Always, PTL
=============================================================================
