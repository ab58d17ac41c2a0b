\* Each behaviour runs one of the net rx, console rx, keyboard and mouse
\* event queues (they share no state), with the guest posting 2 buffers on a
\* 2-slot ring whose indices wrap at 4, and 4 host calls. No deadlock check:
\* once the host calls are spent and the guest's buffers are all posted the
\* program is idle, waiting for data from the backend.
CONSTANTS
  Devs <- MC_Devs
  Bufs <- MC_Bufs
  Num = 2
  IdxMod = 4
  NetPackets = {1, 2}
  NetBufCaps = {1, 2}
  ConsoleData = {1, 2}
  Buttons = {0}
  MaxCalls = 4
SPECIFICATION Spec
INVARIANT TypeOK RxUsedValid
CHECK_DEADLOCK FALSE
