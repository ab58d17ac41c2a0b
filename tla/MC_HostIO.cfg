\* Both console configurations: the HTIF fromhost queue and the virtio console
\* pipe (2 chars), typing in chunks that split escapes, the guest reading,
\* one finish write racing C-a r, and start_io racing the first keystrokes.
\* No deadlock check: with the input and the guest bounded, the threads end
\* blocked in select() and in the dispatcher's polling, the program's idle state.
CONSTANTS
  Chunks <- MC_Chunks
  CtrlA <- CA
  MaxReads = 3
  ExitCodes <- MC_ExitCodes
  MaxFinish = 1
  ConsoleModes = {FALSE, TRUE}
  PipeCap = 2
SPECIFICATION Spec
INVARIANT InputDelivered
CHECK_DEADLOCK FALSE
