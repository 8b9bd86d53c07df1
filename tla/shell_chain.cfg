SPECIFICATION Spec
CONSTANTS
  expdemo = expdemo
  kbd = kbd
  pforth = pforth
  PROGS <- MC_PROGS
  CLI <- MC_CLI
  SILENT <- MC_SILENT
  CHAIN <- MC_CHAIN
  SHELL = SHELL
  EXIT_KEY = EXIT_KEY
  ANY_KEY = ANY_KEY
  INPUT_DEPTH = 1
  CMD_DEPTH = 4
PROPERTIES
  StoppedOnlyByItsStop
