SPECIFICATION Spec
CONSTANTS
  CurrentNum = 2
  StartBlock = 2
  LastBlock = 5
  StorageTypes <- OnlyDisk
  Attempts = 3
  Faults <- CrashFaults
INVARIANT CrashKeepsProgress
