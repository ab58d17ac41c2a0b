\* Two heads, well-formed requests only, a backend that may answer each
\* request synchronously or asynchronously with up to two I/Os outstanding.
\* The completion callback's queue_notify races the worker's drain.
CONSTANTS
  h1 = h1
  h2 = h2
  Heads <- MC_Heads
  Num = 2
  IdxMod = 4
  Kinds <- MC_Kinds
  MaxIO = 2
SPECIFICATION Spec
INVARIANT UsedEntriesValid
CHECK_DEADLOCK FALSE
