SPECIFICATION CallsSpec
CONSTANTS
  WAD = 100
  YEAR = 1
  CEIL_SLOPE_1 = 6000
  CEIL_SLOPE_2 = 9000
  MAX_INTEREST_SLOPE_1 = 20
  MAX_INTEREST_SLOPE_2 = 20
  MAX_INTEREST_SLOPE_3 = 150
  MaxPool = 30
INVARIANTS NeverAboveTop
PROPERTIES TighterIsDearer
