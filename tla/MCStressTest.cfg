SPECIFICATION Spec
CONSTANTS
  NumAddresses = 2
  BlockCount = 6
  QueueCap = 3
  GasTargets <- SmallTargets
  GasLimits <- SmallLimits
  DepositGas = 1
  DeployGas = 2
  TransferGas = 2
  CallGas = 3
  GasBuffer = 2
  LowFeeCap = 3
  HighFeeCap = 100
  Mint = 700
  DataFee = 1
  Tips <- SomeTips
  BaseFees <- SomeBaseFees
INVARIANT TypeOK
INVARIANT NoncesFollowChain
INVARIANT NoncesNeverReused
INVARIANT FundedOnce
INVARIANT RoomReachesTarget
