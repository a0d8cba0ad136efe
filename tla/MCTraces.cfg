SPECIFICATION Spec
CONSTANTS
  Options <- OneOptionAtATime
  Receipts = 2
  GasLimit = 5
  MaxLogs = 4
  MaxDepth = 2
  Locations <- ThreeLocations
  Values <- SmallValues
  MaxUint64 = 31
INVARIANT TypeOK
INVARIANT OpGasExact
INVARIANT SlotsExact
INVARIANT TriesExact
