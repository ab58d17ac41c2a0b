\* Deadlock is not checked: once the driver has posted every head it waits
\* for interrupts, and the lost-interrupt race of run vq_lost_irq can leave
\* it waiting for ever with nothing else to do.
CONSTANTS
  h1 = h1
  h2 = h2
  Heads <- MC_Heads
  Num = 2
  IdxMod = 4
  MaxBadChains = 1
  Devs = {"block", "net", "console", "entropy"}
SPECIFICATION Spec
INVARIANT TypeOK
INVARIANT UsedEntriesValid
PROPERTY CompletionPublished
CHECK_DEADLOCK FALSE
