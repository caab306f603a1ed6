\* The sanity check at its real size, and message networks from two nodes to
\* the default.
SPECIFICATION Spec
CONSTANTS
  Bootstraps = 2
  SanityNodes = 20
  Jav1 = 2
  Jav2 = 8
  Drop = 3
  Sizes <- SmallAndDefault
  MaxFaults = 2
INVARIANTS TypeOK Aligned OneNodePerIdentity CleanExit HangsOnlyWhenTiny
CHECK_DEADLOCK FALSE
