SPECIFICATION Spec
CONSTANTS
  CurrentNum = 2
  StartBlock = 2
  LastBlock = 5
  StorageTypes <- BothStorages
  Attempts = 2
  Faults <- AllFaults
INVARIANT TypeOK
INVARIANT StoredIsHistory
PROPERTY StoredOnlyGrows
PROPERTY WriteReturns
