SPECIFICATION Spec
CONSTANTS
  c1 = c1
  c2 = c2
  NoOne = NoOne
  Connections = {c1, c2}
  Writers = {c1}
  Checkpointers = {c1}
  Modes = {"full"}
  DiesInRestart = TRUE
  p1 = p1
  p2 = p2
  Pages = {p1}
  NoPage = NoPage
  NumMarks = 1
  MaxFrames = 1
  MaxTxns = 4
  MaxFaults = 1
INVARIANT Durable
CHECK_DEADLOCK FALSE
