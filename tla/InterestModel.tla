--------------------------- MODULE InterestModel ---------------------------
(* The borrowing rate of a vault, TripleSlopeModel.getInterestRate.  The    *)
(* TripleSlopeModel<n> contracts differ from it only in the numbers; the    *)
(* TwoSlopeModel is the case CEIL_SLOPE_1 = CEIL_SLOPE_2.                   *)
(* WAD is the code's 1e18 and YEAR its 365 days in units of block time.     *)
EXTENDS Integers

CONSTANTS
  WAD,                   \* fixed-point one
  YEAR,                  \* ticks of block time in a year
  CEIL_SLOPE_1, CEIL_SLOPE_2,       \* utilisation kinks, in WAD percents
  MAX_INTEREST_SLOPE_1, MAX_INTEREST_SLOPE_2, MAX_INTEREST_SLOPE_3

CEIL_SLOPE_3 == 100 * WAD

ASSUME InterestAssumption ==
  /\ WAD \in Nat \ {0}
  /\ YEAR \in Nat \ {0}
  /\ CEIL_SLOPE_1 \in Nat \ {0}
  /\ CEIL_SLOPE_2 \in Nat
  /\ CEIL_SLOPE_1 <= CEIL_SLOPE_2
  /\ CEIL_SLOPE_2 < CEIL_SLOPE_3
  /\ MAX_INTEREST_SLOPE_1 \in Nat
  /\ MAX_INTEREST_SLOPE_2 \in Nat
  /\ MAX_INTEREST_SLOPE_3 \in Nat
  /\ MAX_INTEREST_SLOPE_1 <= MAX_INTEREST_SLOPE_2
  /\ MAX_INTEREST_SLOPE_2 <= MAX_INTEREST_SLOPE_3

utilization(debt, floating) == (debt * 100 * WAD) \div (debt + floating)

FirstSlope(u) == (u * MAX_INTEREST_SLOPE_1) \div CEIL_SLOPE_1

\* Mutant: the last slope starts over from 0.
LastSlope_FromZero(u) ==
  ((u - CEIL_SLOPE_2) * MAX_INTEREST_SLOPE_3) \div (CEIL_SLOPE_3 - CEIL_SLOPE_2)

\* Mutant: the last slope is measured from utilisation 0.
LastSlope_FromOrigin(u) ==
  MAX_INTEREST_SLOPE_2 +
    (u * (MAX_INTEREST_SLOPE_3 - MAX_INTEREST_SLOPE_2))
      \div (CEIL_SLOPE_3 - CEIL_SLOPE_2)

LastSlope(u) ==
  MAX_INTEREST_SLOPE_2 +
    ((u - CEIL_SLOPE_2) * (MAX_INTEREST_SLOPE_3 - MAX_INTEREST_SLOPE_2))
      \div (CEIL_SLOPE_3 - CEIL_SLOPE_2)

yearlyRate(u) ==
  IF u < CEIL_SLOPE_1 THEN FirstSlope(u)
  ELSE IF u < CEIL_SLOPE_2 THEN MAX_INTEREST_SLOPE_2
  ELSE IF u < CEIL_SLOPE_3 THEN LastSlope(u)
  ELSE MAX_INTEREST_SLOPE_3

\* The interest per WAD of debt and tick of block time.
getInterestRate(debt, floating) ==
  IF debt = 0 /\ floating = 0 THEN 0
  ELSE yearlyRate(utilization(debt, floating)) \div YEAR
=============================================================================
