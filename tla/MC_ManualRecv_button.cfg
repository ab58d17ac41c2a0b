\* A mouse with two buttons and 3 send_mouse_event calls: a button loop
\* that runs out of event buffers after its first KEY event.
CONSTANTS
  Devs <- MC_Mouse
  Bufs <- MC_Bufs
  Num = 2
  IdxMod = 4
  NetPackets = {1, 2}
  NetBufCaps = {1, 2}
  ConsoleData = {1, 2}
  Buttons = {0, 1}
  MaxCalls = 3
SPECIFICATION Spec
INVARIANT ButtonsAgree
CHECK_DEADLOCK FALSE
