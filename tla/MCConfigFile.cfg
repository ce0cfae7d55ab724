SPECIFICATION Spec
CONSTANTS
  p1 = p1
  p2 = p2
  Processes = {p1, p2}
  Symbols = {"n8x"}
  Fields = {"StrategyAddTwoSidesOptimal"}
  Existing = {"StrategyAddTwoSidesOptimal"}
  WorkerNames = {"w", "x"}
  CreditorNames = {"xAlpacaCreditor"}
  PoolIds = {7}
  MaxAddress = 5
  MaxStarts = 3
SYMMETRY Symmetric
INVARIANTS EntryIsOneVault ConfigBeforeVault CreditorsWereSent
PROPERTIES NothingForgotten CreditorNameIsFixed
CHECK_DEADLOCK FALSE
