SPECIFICATION Spec
CONSTANTS
  u1 = u1
  u2 = u2
  Users = {u1}
  NoOne = NoOne
  PRECISION = 2
  AllocPoints = {0, 1}
  Rates = {2}
  Multipliers = {2}
  BonusEnds = {2}
  Careful = TRUE
  FirstRate = 1
  FirstBonus <- ShortWait
  CAP = 20
  MaxPools = 2
  MaxStake = 1
  MaxBlock = 3
  MaxTouched = 2
SYMMETRY Symmetric
INVARIANTS MintsAsAnnounced BonusWithinReward
CHECK_DEADLOCK FALSE
