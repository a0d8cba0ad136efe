SPECIFICATION MainSpec
CONSTANTS
  FlagSets <- OnlyReplay
  DialAttempts = 2
  SetUpFaults <- NoFaults
  Configs <- OnlyReplayConfig
  SyncAttempts = 2
  InitialHeads <- JustStarted
  SourceHead = 6
  Concurrency = 2
  MaxUint64 = 31
  MaxRestarts = 0
  Faults <- NoFaults
INVARIANT StartsOnLiveDestination
