SPECIFICATION CpuFairSpec
CONSTANTS
  COLS = 4
  ROWS = 1
  DATA <- MC_DATA
  POWER_UP_MEM <- MC_MEM
  T_RCD = 2
  T_RP = 2
  T_RFC = 6
  T_MRD = 2
  CL = 3
  AGE_CAP = 0
  REF_CAP = 0
  BURST_WORDS = 2
  INIT_WAIT_CYCLES = 2
  REFRESH_INTERVAL = 5
  NoOp = NoOp
  GPU_DAT <- MC_GPU_DAT
  LINES = 1
  LINE_WORDS = 4
  FB_BASE = 2
  LINE_GAP = 0
  FB_W = 8
  FB_H = 1
  FB_ADR = 2
  POLL_GAP = 0
  RECTS <- MC_RECTS
  FILLS = 0
  LATES = 0
  CPU_OPS <- MC_OPS
PROPERTIES
  RequestsEnd
