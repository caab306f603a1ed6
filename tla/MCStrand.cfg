\* Two strands on a pool of two threads, one client outside.
SPECIFICATION FairSpec
CONSTANTS
  s1 = s1
  s2 = s2
  Threads = {t1, t2}
  Clients = {c}
  Strands <- MCStrands
  Quotas <- MCQuotas
  NoOne = NoOne
INVARIANTS OneHolder InOrder
PROPERTIES IsSerial EveryFunctionStarts
CHECK_DEADLOCK FALSE
