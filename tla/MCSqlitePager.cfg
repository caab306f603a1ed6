\* Two connections, both of which write; one crash or power loss.
SPECIFICATION FairSpec
CONSTANTS
  Connections = {c1, c2}
  Stressed = {c1}
  NoOne = NoOne
  Nothing = Nothing
  NumPages = 2
  MaxTxns = 2
  MaxFaults = 1
INVARIANTS CounterTellsStaleness
PROPERTIES IsAtomic WriterGetsIn
CHECK_DEADLOCK FALSE
