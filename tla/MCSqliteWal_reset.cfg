SPECIFICATION Spec
CONSTANTS
  c1 = c1
  c2 = c2
  NoOne = NoOne
  Connections = {c1, c2}
  Writers = {c1}
  Checkpointers = {c2}
  Modes = {"passive"}
  DiesInRestart = FALSE
  p1 = p1
  p2 = p2
  Pages <- MCPages
  NoPage = NoPage
  NumMarks = 2
  MaxFrames = 2
  MaxTxns = 2
  MaxFaults = 0
SYMMETRY PageSymmetry
INVARIANT SnapshotIsolation
CHECK_DEADLOCK FALSE
