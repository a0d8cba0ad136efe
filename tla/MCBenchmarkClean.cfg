SPECIFICATION Spec
CONSTANTS
  CurrentNum = 2
  BlockCount = 4
  Concurrency = 2
  IncomingCap = 1
  ProcessCap = 1
  SourceHead = 6
  MaxUint64 = 31
  Faults <- OnlyInterrupts
  StartBlock = 0
  StorageTypes <- BothStorages
  Attempts = 2
  Strategies <- BothStrategies
  SaveEvery = 3
INVARIANT FinalResultsComplete
INVARIANT CleanRunSurvives
PROPERTY EventuallyReturns
PROPERTY RunsAsServiceExpects
