CONSTANTS
  h1 = h1
  h2 = h2
  Heads <- MC_Heads
  Num = 2
  IdxMod = 4
  MaxBadChains = 1
  Devs = {"block"}
SPECIFICATION Spec
\* The driver's interrupt handler must eventually see every completion.
PROPERTY CompletionSeen
CHECK_DEADLOCK FALSE
