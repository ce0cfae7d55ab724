SPECIFICATION Spec
CONSTANTS
  u1 = u1
  u2 = u2
  Users = {u1, u2}
  NoOne = NoOne
  PRECISION = 2
  AllocPoints = {1}
  Rates = {1}
  Multipliers = {2}
  BonusEnds = {1, 2, 3}
  Careful = FALSE
  FirstRate = 1
  FirstBonus <- NoBonus
  CAP = 20
  MaxPools = 1
  MaxStake = 1
  MaxBlock = 4
  MaxTouched = 5
SYMMETRY Symmetric
INVARIANTS BonusWithinReward
CHECK_DEADLOCK FALSE
