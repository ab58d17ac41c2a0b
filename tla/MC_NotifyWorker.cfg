\* The guest issues at most MaxNotify notifications and may never stop the
\* worker; the worker then blocks on the condition variable for ever, which
\* is the program's idle state, not a deadlock.
CONSTANTS
  NumDevices = 2
  Queues <- MC_Queues
  MaxNotify = 3
SPECIFICATION Spec
INVARIANT TypeOK
INVARIANT NoLostWakeup
PROPERTY ImplementsNotifyAbstract
CHECK_DEADLOCK FALSE
