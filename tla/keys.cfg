SPECIFICATION FairSpec
CONSTANTS
  UART_KEYS <- MC_UART
  PS2_KEYS <- MC_PS2
  BUDGETS <- MC_BUDGETS
  ESC_WAIT_TICKS = 4
  PS2_POLL_BUDGET = 2
  MAX_GAP = 2
INVARIANTS
  
  KeysAsTyped
  BootExactly
PROPERTIES
  EveryKeyArrives
CHECK_DEADLOCK FALSE
