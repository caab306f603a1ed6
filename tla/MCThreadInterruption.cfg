\* Two waiting threads, two interrupters, two interrupts, nobody need notify.
SPECIFICATION FairSpec
CONSTANTS
  Threads = {t1, t2}
  Interrupters = {i1, i2}
  Notifier = Notifier
  NoOne = NoOne
  MaxInterrupts = 2
  MaxSpurious = 1
INVARIANTS NoLostInterrupt NoLostWakeup RegisteredWhileUsed
PROPERTIES InterruptDelivered EveryoneReturns
CHECK_DEADLOCK FALSE
