----------------------------- MODULE WordMemory -----------------------------
(***************************************************************************)
(* What sdram_ctrl.vhd promises the CPU: a memory of words.  Each strobed  *)
(* operation takes effect exactly once, atomically, between its strobe and *)
(* its acknowledge, and the acknowledge of a read returns the word the     *)
(* memory held at that moment.                                             *)
(***************************************************************************)
EXTENDS Integers

CONSTANTS
  Cells,   \* the word addresses
  DATA,    \* the words
  Ops,     \* operations, records with fields we, adr and dat
  NoOp,    \* no operation, no word
  InitMem  \* the memory at the start

VARIABLES
  memory,  \* its contents
  pending, \* the operation strobed and not yet acknowledged, or NoOp
  done,    \* it has taken effect
  word,    \* the word a read got, or NoOp
  answer   \* the word the last read returned to the CPU

vars == <<memory, pending, done, word, answer>>

Init ==
  /\ memory = InitMem
  /\ pending = NoOp /\ done = FALSE /\ word = NoOp
  /\ answer \in DATA

Strobe(op) ==
  /\ pending = NoOp
  /\ pending' = op
  /\ UNCHANGED <<memory, done, word, answer>>

Perform ==
  /\ pending # NoOp /\ ~done
  /\ done' = TRUE
  /\ IF pending.we
     THEN memory' = [memory EXCEPT ![pending.adr] = pending.dat] /\ UNCHANGED word
     ELSE word' = memory[pending.adr] /\ UNCHANGED memory
  /\ UNCHANGED <<pending, answer>>

Acknowledge ==
  /\ pending # NoOp /\ done
  /\ pending' = NoOp /\ done' = FALSE /\ word' = NoOp
  /\ answer' = IF pending.we THEN answer ELSE word
  /\ UNCHANGED memory

Next == (\E op \in Ops : Strobe(op)) \/ Perform \/ Acknowledge

Spec == Init /\ [][Next]_vars
=============================================================================
