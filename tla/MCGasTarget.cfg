SPECIFICATION Spec
CONSTANTS
  NumAddresses = 2
  BlockCount = 6
  QueueCap = 3
  GasTargets <- OneTarget
  GasLimits <- TightLimit
  DepositGas = 1
  DeployGas = 2
  TransferGas = 2
  CallGas = 3
  GasBuffer = 2
  LowFeeCap = 3
  HighFeeCap = 100
  Mint = 700
  DataFee = 1
  Tips <- LowTip
  BaseFees <- LowBaseFee
INVARIANT GasTargetReached
