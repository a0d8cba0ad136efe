SPECIFICATION Spec
CONSTANTS
  CurrentNum = 2
  StartBlock = 2
  LastBlock = 5
  StorageTypes <- BothStorages
  Attempts = 3
  Faults <- NoFaults
INVARIANT LastWrittenIsStored
