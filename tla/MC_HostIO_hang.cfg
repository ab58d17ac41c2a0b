\* Virtio console with a 1-char pipe: a stop while the pump waits for room.
CONSTANTS
  Chunks <- MC_Chunks
  CtrlA <- CA
  MaxReads = 3
  ExitCodes <- MC_ExitCodes
  MaxFinish = 1
  ConsoleModes = {TRUE}
  PipeCap = 1
SPECIFICATION Spec
PROPERTY JoinReturns
CHECK_DEADLOCK FALSE
