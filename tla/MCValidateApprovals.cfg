SPECIFICATION Spec
CONSTANTS
  Vaults = 1
  Entry <- PancakeWorkers
  AddStrategies = {"s"}
  DeltaVaults = 1
  Differs <- PancakesDiffer
  MaxChanges = 2
INVARIANTS ApprovedWhenClean
CHECK_DEADLOCK FALSE
