SPECIFICATION FairSpec
CONSTANTS
  COLS = 2
  ROWS = 2
  DATA <- MC_WORDS
  POWER_UP_MEM <- MC_WORDS_MEM
  T_RCD = 2
  T_RP = 2
  T_RFC = 6
  T_MRD = 2
  CL = 3
  AGE_CAP = 3
  REF_CAP = 6
  BURST_WORDS = 2
  INIT_WAIT_CYCLES = 2
  REFRESH_INTERVAL = 5
  NoOp = NoOp
  GPU_DAT <- MC_ZERO_DAT
  CPU_OPS <- MC_OPS
  VGA_ADRS <- MC_VGA
  GPU_ADRS <- MC_NONE
INVARIANTS
  TypeOK
PROPERTIES
  PayloadHeld
  ImplementsMemory
  CpuAnswered
