SPECIFICATION Spec
CONSTANTS
  u1 = u1
  u2 = u2
  Users = {u1, u2}
  NoOne = NoOne
  PRECISION = 2
  AllocPoints = {0, 1}
  Rates = {2}
  Multipliers = {}
  BonusEnds = {1, 2, 3}
  Careful = FALSE
  FirstRate = 1
  FirstBonus <- NoBonus
  CAP = 4
  MaxPools = 1
  MaxStake = 3
  MaxBlock = 3
  MaxTouched = 5
SYMMETRY Symmetric
INVARIANTS StakesBacked RewardsCovered
PROPERTIES OthersKeepTheirRewards
CHECK_DEADLOCK FALSE
