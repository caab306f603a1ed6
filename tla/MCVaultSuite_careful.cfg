\* A tester who waits for the last network to be gone; networks of 3 and 4.
SPECIFICATION FairSpec
CONSTANTS
  MinVaults = 3
  MaxVaults = 4
  LineLimit = 2
  TestLines = 2
  MaxHelpers = 3
  MaxPerIndex = 2
  CarefulUser = TRUE
INVARIANTS TypeOK OneVaultPerIdentity AsManyAsAsked StaleStoresBounded
PROPERTY WorkersEnd
