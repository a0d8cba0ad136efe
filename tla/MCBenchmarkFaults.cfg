SPECIFICATION Spec
CONSTANTS
  CurrentNum = 2
  BlockCount = 3
  Concurrency = 2
  IncomingCap = 1
  ProcessCap = 1
  SourceHead = 6
  MaxUint64 = 31
  Faults <- AllFaults
  StartBlock = 2
  StorageTypes <- BothStorages
  Attempts = 2
  Strategies <- BothStrategies
  SaveEvery = 2
INVARIANT TypeOK
INVARIANT ReplayFaithful
PROPERTY ImplementsChainReplay
PROPERTY InterruptEnds
PROPERTY RunsAsServiceExpects
