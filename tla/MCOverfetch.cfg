SPECIFICATION Spec
CONSTANTS
  CurrentNum = 1
  BlockCount = 4
  Concurrency = 3
  IncomingCap = 2
  ProcessCap = 1
  SourceHead = 5
  MaxUint64 = 15
  Faults <- NoFaults
INVARIANT ReplaysAvailableBlocks
