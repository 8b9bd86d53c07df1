----------------------------- MODULE SdramChip -----------------------------
(***************************************************************************)
(* The SDRAM device on the board, as far as sdram_ctrl.vhd relies on it:   *)
(* four banks, each with at most one open row, commands taken from the     *)
(* pins on every 100 MHz edge, and the word a READ puts on the data pins.  *)
(* The device is not part of the repository: it is modelled from the       *)
(* commands, the address mapping and the waits of the controller.          *)
(***************************************************************************)
EXTENDS Integers, FiniteSets

CONSTANTS
  COLS,          \* columns of a row (1024 on the board)
  ROWS,          \* rows of a bank (8192 on the board)
  DATA,          \* the words a cell can hold
  POWER_UP_MEM,  \* what the cells hold before the first write
  T_RCD,         \* cycles from ACTIVE to READ or WRITE
  T_RP,          \* cycles from PRECHARGE to ACTIVE or AUTO REFRESH
  T_RFC,         \* cycles from AUTO REFRESH to the next command
  T_MRD,         \* cycles from LOAD MODE to the next command
  CL,            \* cycles from READ to the word on the data pins
  AGE_CAP,       \* the cycle counters below saturate here
  REF_CAP        \* and the one since the last AUTO REFRESH here

ASSUME GeometryAssumption ==
  /\ COLS \in Nat \ {0} /\ COLS <= 1024
  /\ ROWS \in Nat \ {0} /\ ROWS <= 8192

Bank   == 0 .. 3
Row    == 0 .. ROWS - 1
Col    == 0 .. COLS - 1
Adr    == 0 .. 4 * ROWS * COLS - 1
Pins   == 0 .. 8191          \* the 13 address pins
CLOSED == -1                 \* a bank with no open row

ASSUME MemoryAssumption ==
  /\ POWER_UP_MEM \in [Adr -> DATA]
  /\ AGE_CAP \in Nat /\ REF_CAP \in Nat

(***************************************************************************)
(* The fields of a word address: bank = {addr[24], addr[10]},              *)
(* row = addr[23:11], col = addr[9:0], and the cell they name.             *)
(***************************************************************************)
BankOf(a) == 2 * (a \div (2 * ROWS * COLS)) + ((a \div COLS) % 2)
RowOf(a)  == (a \div (2 * COLS)) % ROWS
ColOf(a)  == a % COLS
Cell(b, r, c) == 2 * ROWS * COLS * (b \div 2) + 2 * COLS * r + COLS * (b % 2) + c

Command == {"NOP", "ACTIVE", "READ", "WRITE", "PRECHG", "AUTO_REF", "LOAD_MOD"}
Timed   == {"ACTIVE", "READ", "PRECHG", "AUTO_REF", "LOAD_MOD"}
A10     == 1024              \* address pin 10: PRECHARGE closes every bank

VARIABLES
  cmd, dram_ba, dram_addr,   \* command and address pins, registered outputs
  dq_oe, wr_data_r,          \* the controller drives the data pins, and with what
  open,                      \* the row each bank has open
  mode,                      \* the mode register has been loaded
  mem,                       \* the cells
  dq,                        \* the word the device drives
  age                        \* cycles since it took each timed command

pins     == <<cmd, dram_ba, dram_addr>>
chipVars == <<open, mode, mem, dq, age>>

Cap(c) == IF c = "AUTO_REF" THEN REF_CAP ELSE AGE_CAP

\* The device after power-up, or after a reset of the board that interrupted
\* an access: the cells and the open rows are what they were.
ChipInit ==
  /\ open \in [Bank -> Row \cup {CLOSED}]
  /\ mode \in BOOLEAN
  /\ mem = POWER_UP_MEM
  /\ dq = POWER_UP_MEM[0]
  /\ age = [c \in Timed |-> Cap(c)]

Closes(b) == dram_ba = b \/ (dram_addr \div A10) % 2 = 1

\* The open rows once the device has taken the command on the pins.
OpenNext ==
  CASE cmd = "ACTIVE" -> [open EXCEPT ![dram_ba] = dram_addr]
    [] cmd = "PRECHG" -> [b \in Bank |-> IF Closes(b) THEN CLOSED ELSE open[b]]
    [] OTHER          -> open

Addressed == Cell(dram_ba, open[dram_ba], dram_addr)

\* A READ of a closed bank returns any word; a WRITE to one stores nothing;
\* a WRITE with the pins undriven stores any word.
Access ==
  \/ /\ cmd = "READ"
     /\ IF open[dram_ba] = CLOSED THEN dq' \in DATA ELSE dq' = mem[Addressed]
     /\ UNCHANGED mem
  \/ /\ cmd = "WRITE" /\ open[dram_ba] # CLOSED
     /\ \E w \in IF dq_oe THEN {wr_data_r} ELSE DATA :
          mem' = [mem EXCEPT ![Addressed] = w]
     /\ UNCHANGED dq
  \/ /\ cmd # "READ"
     /\ cmd = "WRITE" => open[dram_ba] = CLOSED
     /\ UNCHANGED <<mem, dq>>

\* One 100 MHz edge of the device.
ChipStep ==
  /\ open' = OpenNext
  /\ mode' = (mode \/ cmd = "LOAD_MOD")
  /\ age' = [c \in Timed |->
               IF c = cmd THEN 1
               ELSE IF age[c] < Cap(c) THEN age[c] + 1 ELSE age[c]]
  /\ Access

-----------------------------------------------------------------------------
AllClosed == \A b \in Bank : open[b] = CLOSED

\* The minimum distances between commands, for the command on the pins.
CommandSpacing ==
  /\ cmd \in {"READ", "WRITE"} => age["ACTIVE"] >= T_RCD
  /\ cmd \in {"ACTIVE", "AUTO_REF"} => age["PRECHG"] >= T_RP
  /\ cmd # "NOP" => age["AUTO_REF"] >= T_RFC /\ age["LOAD_MOD"] >= T_MRD
=============================================================================
