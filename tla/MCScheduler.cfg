\* Two threads, one client, two handlers; handlers start I/O.
SPECIFICATION FairSpec
CONSTANTS
  t1 = t1
  t2 = t2
  Threads <- MCThreads
  Clients = {c1}
  CallsOf <- MCCallsOf
  IoActors <- MCThreads
  NoOp = NoOp
  MaxHandlers = 2
INVARIANTS TypeOK QueuedOnce WorkCounted NoLostWakeup
PROPERTIES HandlersRun StopReturns
CHECK_DEADLOCK FALSE
