SPECIFICATION Spec
CONSTANTS
  CurrentNum = 1
  BlockCount = 4
  Concurrency = 3
  IncomingCap = 2
  ProcessCap = 1
  SourceHead = 10
  MaxUint64 = 15
  Faults <- AllFaults
INVARIANT TypeOK
INVARIANT SubmitsInOrder
INVARIANT StopsWhenReplayed
INVARIANT MapperNeverStuck
PROPERTY EventuallyDrains
PROPERTY CancelStopsSubmitter
