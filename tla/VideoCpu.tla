------------------------------ MODULE VideoCpu ------------------------------
(***************************************************************************)
(* The picture of VideoBoard while the CPU also reads and writes the SDRAM *)
(* behind the same controller: a third master in front of the reader and   *)
(* the engine.  The CPU strobes an operation and waits for its             *)
(* acknowledge; the program on it does nothing else meanwhile.             *)
(* RequestsEnd is no property of it: S_IDLE decides for the CPU's access,  *)
(* S_ACTIVATE looks at the latches again, and a fetch that arrives in      *)
(* between goes first, but for one word: it waits for the rest for ever.   *)
(***************************************************************************)
EXTENDS VideoBoard

CONSTANT CPU_OPS  \* operations the CPU may strobe

VARIABLE cpu      \* the operation the CPU waits for, or NoOp

\* The CPU's bus master, at a 50 MHz edge.
Cpu(op) ==
  /\ cpu # NoOp => op = NoOp
  /\ cpu # NoOp \/ op # NoOp => Gpu_none /\ UNCHANGED mode_en
  /\ cpu' = IF cpu = NoOp THEN op ELSE IF AckFire THEN NoOp ELSE cpu

CpuNext ==
  \/ FastEdge /\ UNCHANGED cpu
  \/ \E op \in CPU_OPS \cup {NoOp}, pop \in BOOLEAN :
       Cpu(op) /\ (BothEdges(op, pop) \/ \E start \in BOOLEAN : AllEdges(op, start, pop))

\* The clocks and the FIFO go on as in VideoBoard.
CpuFairSpec ==
  /\ Init /\ cpu = NoOp
  /\ [][CpuNext]_<<vars, cpu>>
  /\ WF_phase(Tick) /\ SF_phase(Popped)
=============================================================================
