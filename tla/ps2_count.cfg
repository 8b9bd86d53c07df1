SPECIFICATION Spec
CONSTANTS
  DATA_BITS = 2
  FIFO_DEPTH_C = 2
  IDLE_MIN_TICKS_C = 2
  CLK_HOLD_TICKS_C = 6
  DATA_SETUP_TICKS_C = 4
  TX_TIMEOUT_TICKS_C = 60
  TIMER_MOD = 64
  SCAN_CAPS <- MCCaps
  CMD_SET_LEDS <- MCSetLeds
  PS2_RESP_ACK <- MCAck
  PS2_RESP_RESEND <- MCResend
  LOCK_MASK <- MCLockMask
  MAX_PRESSES = 2
  MAX_RESENDS = 1
INVARIANTS
  CountExact
