SPECIFICATION Spec
CONSTANTS
  Vaults = 2
  Entry <- SomeUnknown
  AddStrategies = {"s"}
  DeltaVaults = 1
  Differs <- SomeDiffer
  MaxChanges = 2
INVARIANTS CleanInOneBlock NoFalseAlarm EveryoneJudged
CHECK_DEADLOCK FALSE
