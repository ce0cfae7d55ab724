SPECIFICATION Spec
CONSTANTS
  Users = {u1}
  Workers = {w1}
  Strategies = {s1}
  ApprovedAddStrategies = {s1}
  NoAddr = NoAddr
  PoolIds = {1}
  NoPool = NoPool
  WAD = 100
  YEAR = 1
  CEIL_SLOPE_1 = 6000
  CEIL_SLOPE_2 = 9000
  MAX_INTEREST_SLOPE_1 = 20
  MAX_INTEREST_SLOPE_2 = 20
  MAX_INTEREST_SLOPE_3 = 150
  Interests = {0, 1, 2, 3, 4, 5, 6, 7, 8, 9}
  MaxPositions = 1
  BPS = 100
  Percent = 1
  WorkFactor = 70
  KillFactor = 80
  KillBps = 40
  KillTreasuryBps = 10
  ReservePoolBps = 50
  MinDebtSize = 1
  MinSupply = 1
  Amounts = {1, 3}
  MaxReturns = {1, 9}
  HealthLevels = {0, 2, 6}
  MaxToken = 5
  MaxSupply = 5
  MaxDebt = 4
  MaxReserve = 1
  MaxStake = 0
  MaxTimePast = 1
INVARIANTS TypeOK
PROPERTIES LenderShareNeverFalls ImplementsLendingPool
