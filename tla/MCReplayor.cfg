SPECIFICATION MainSpec
CONSTANTS
  FlagSets <- NearReplayOrStress
  DialAttempts = 2
  SetUpFaults <- AllSetUpFaults
  Configs <- MCConfigs
  SyncAttempts = 2
  InitialHeads <- BelowAtAndAbove
  SourceHead = 6
  Concurrency = 2
  MaxUint64 = 31
  MaxRestarts = 2
  Faults <- AllFaults
INVARIANT MainTypeOK
INVARIANT StartsOnStartBlock
INVARIANT WalkUpFaithful
INVARIANT ClosesWhenReplayed
INVARIANT StartsOnReachableNode
PROPERTY NeverPastTheEnd
PROPERTY UnknownStrategyOnlyWalksUp
PROPERTY ProcessEnds
