\* Every distribution of nine declarations over two files, and a second target.
SPECIFICATION Spec
CONSTANTS
  Projects <- TwoFiles
  TestTypes <- Given
  Factors = {10, 20}
  Excluded <- SomeExcluded
  CMake3 = FALSE
  None = None
INVARIANTS  TimeoutsScaledOnce BootstrapForNetworkTests
CHECK_DEADLOCK FALSE
