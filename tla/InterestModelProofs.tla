------------------------ MODULE InterestModelProofs ------------------------
(* The rate is a natural number, rises with the utilisation and stays below *)
(* the top rate, whatever the slopes and the kinks of the model are.        *)
EXTENDS InterestModel, ArithmeticLemmas

\* More debt in the same pool, or the same debt in a smaller one.
LEMMA UtilizationRises ==
  ASSUME NEW d \in Nat, NEW f \in Nat, NEW e \in Nat, NEW g \in Nat,
         d + f > 0, e + g > 0, d * (e + g) <= e * (d + f)
  PROVE  utilization(d, f) <= utilization(e, g)
<1>1. 100 * WAD \in Nat
  BY InterestAssumption
<1>2. (d * (e + g)) * (100 * WAD) <= (e * (d + f)) * (100 * WAD)
  BY <1>1, Products
<1>3. (d * 100 * WAD) * (e + g) <= (e * 100 * WAD) * (d + f)
  BY <1>2, InterestAssumption
<1>4. /\ d * 100 * WAD \in Nat /\ e * 100 * WAD \in Nat
      /\ d + f \in Nat \ {0} /\ e + g \in Nat \ {0}
  BY InterestAssumption
<1> QED BY <1>3, <1>4, Fractions DEF utilization

(* Utilization is a natural number whenever something is lent or held. *)
LEMMA UtilizationNat ==
  ASSUME NEW d \in Nat, NEW f \in Nat, d + f > 0
  PROVE  utilization(d, f) \in Nat
<1>1. d * 100 * WAD \in Nat /\ d + f \in Nat \ {0}
  BY InterestAssumption
<1> QED BY <1>1, Division DEF utilization

(* On the first slope the rate rises with utilization, to its own maximum at most. *)
LEMMA FirstSlopeRises ==
  ASSUME NEW u \in Nat, NEW v \in Nat, u <= v
  PROVE  /\ FirstSlope(u) \in Nat
         /\ FirstSlope(u) <= FirstSlope(v)
         /\ u <= CEIL_SLOPE_1 => FirstSlope(u) <= MAX_INTEREST_SLOPE_1
<1> DEFINE M == MAX_INTEREST_SLOPE_1
           C == CEIL_SLOPE_1
<1>1. M \in Nat /\ C \in Nat \ {0}
  BY InterestAssumption
<1>2. u * M \in Nat /\ v * M \in Nat /\ u * M <= v * M
  BY <1>1, Products
<1>3. u <= C => (u * M) \div C <= M
  <2>1. u <= C => (M * u) \div C <= M
    BY <1>1, PartOfWhole
  <2> QED BY <2>1, <1>1
<1> QED BY <1>1, <1>2, <1>3, Division, QuotientsMonotone DEF FirstSlope

\* On the last slope the rate rises with utilization, between the maxima of the
\* second and third slopes.
LEMMA LastSlopeRises ==
  ASSUME NEW u \in Nat, NEW v \in Nat, CEIL_SLOPE_2 <= u, u <= v
  PROVE  /\ LastSlope(u) \in Nat
         /\ MAX_INTEREST_SLOPE_2 <= LastSlope(u)
         /\ LastSlope(u) <= LastSlope(v)
         /\ u <= CEIL_SLOPE_3 => LastSlope(u) <= MAX_INTEREST_SLOPE_3
<1> DEFINE x == u - CEIL_SLOPE_2
           y == v - CEIL_SLOPE_2
           M == MAX_INTEREST_SLOPE_3 - MAX_INTEREST_SLOPE_2
           C == CEIL_SLOPE_3 - CEIL_SLOPE_2
<1>1. /\ x \in Nat /\ y \in Nat /\ x <= y
      /\ M \in Nat /\ C \in Nat \ {0} /\ MAX_INTEREST_SLOPE_2 \in Nat
      /\ MAX_INTEREST_SLOPE_3 = MAX_INTEREST_SLOPE_2 + M
      /\ u <= CEIL_SLOPE_3 => x <= C
  BY InterestAssumption DEF CEIL_SLOPE_3
<1>2. /\ LastSlope(u) = MAX_INTEREST_SLOPE_2 + (x * M) \div C
      /\ LastSlope(v) = MAX_INTEREST_SLOPE_2 + (y * M) \div C
  BY DEF LastSlope
<1> HIDE DEF x, y, M, C
<1>3. x * M \in Nat /\ y * M \in Nat /\ x * M <= y * M
  BY <1>1, Products
<1>4. /\ (x * M) \div C \in Nat /\ (y * M) \div C \in Nat
      /\ (x * M) \div C <= (y * M) \div C
  BY <1>1, <1>3, Division, QuotientsMonotone
<1>5. x <= C => (x * M) \div C <= M
  <2>1. x <= C => (M * x) \div C <= M
    BY <1>1, PartOfWhole
  <2> QED BY <2>1, <1>1
<1> QED BY <1>1, <1>2, <1>4, <1>5

\* The yearly rate is monotone in the utilisation, over the kinks too.
THEOREM YearlyRateRises ==
  ASSUME NEW u \in Nat, NEW v \in Nat, u <= v
  PROVE  /\ yearlyRate(u) \in Nat
         /\ yearlyRate(u) <= yearlyRate(v)
         /\ yearlyRate(u) <= MAX_INTEREST_SLOPE_3
<1>1. /\ CEIL_SLOPE_1 \in Nat /\ CEIL_SLOPE_2 \in Nat /\ CEIL_SLOPE_3 \in Nat
      /\ CEIL_SLOPE_1 <= CEIL_SLOPE_2 /\ CEIL_SLOPE_2 <= CEIL_SLOPE_3
      /\ MAX_INTEREST_SLOPE_1 \in Nat /\ MAX_INTEREST_SLOPE_2 \in Nat
      /\ MAX_INTEREST_SLOPE_3 \in Nat
      /\ MAX_INTEREST_SLOPE_1 <= MAX_INTEREST_SLOPE_2
      /\ MAX_INTEREST_SLOPE_2 <= MAX_INTEREST_SLOPE_3
  BY InterestAssumption DEF CEIL_SLOPE_3
<1>2. FirstSlope(u) \in Nat /\ FirstSlope(v) \in Nat
      /\ FirstSlope(u) <= FirstSlope(v)
      /\ (u <= CEIL_SLOPE_1 => FirstSlope(u) <= MAX_INTEREST_SLOPE_1)
  BY FirstSlopeRises
<1>3. CEIL_SLOPE_2 <= u => /\ LastSlope(u) \in Nat
                           /\ LastSlope(u) <= LastSlope(v)
                           /\ u <= CEIL_SLOPE_3 =>
                                LastSlope(u) <= MAX_INTEREST_SLOPE_3
  BY LastSlopeRises
<1>4. CEIL_SLOPE_2 <= v => LastSlope(v) \in Nat
                           /\ MAX_INTEREST_SLOPE_2 <= LastSlope(v)
  BY LastSlopeRises
<1> QED BY <1>1, <1>2, <1>3, <1>4 DEF yearlyRate

\* getInterestRate never reverts or goes negative.
LEMMA RateNat ==
  ASSUME NEW d \in Nat, NEW f \in Nat
  PROVE  getInterestRate(d, f) \in Nat
<1>1. CASE d = 0 /\ f = 0
  BY <1>1 DEF getInterestRate
<1>2. CASE d + f > 0
  <2> DEFINE u == utilization(d, f)
  <2>1. u \in Nat
    BY <1>2, UtilizationNat
  <2>2. getInterestRate(d, f) = yearlyRate(u) \div YEAR
    BY <1>2 DEF getInterestRate
  <2> HIDE DEF u
  <2>3. yearlyRate(u) \in Nat
    BY <2>1, YearlyRateRises
  <2> QED BY <2>2, <2>3, Division, InterestAssumption
<1> QED BY <1>1, <1>2

\* A tighter pool is never cheaper.
LEMMA RateRises ==
  ASSUME NEW d \in Nat, NEW f \in Nat, NEW e \in Nat, NEW g \in Nat,
         d + f > 0, e + g > 0, d * (e + g) <= e * (d + f)
  PROVE  getInterestRate(d, f) <= getInterestRate(e, g)
<1> DEFINE u == utilization(d, f)
           v == utilization(e, g)
<1>1. u \in Nat /\ v \in Nat /\ u <= v
  BY UtilizationNat, UtilizationRises
<1> HIDE DEF u, v
<1>2. /\ yearlyRate(u) \in Nat /\ yearlyRate(v) \in Nat
      /\ yearlyRate(u) <= yearlyRate(v)
  BY <1>1, YearlyRateRises
<1>3. yearlyRate(u) \div YEAR <= yearlyRate(v) \div YEAR
  BY <1>2, QuotientsMonotone, InterestAssumption
<1>4. /\ getInterestRate(d, f) = yearlyRate(u) \div YEAR
      /\ getInterestRate(e, g) = yearlyRate(v) \div YEAR
  BY DEF getInterestRate, u, v
<1> QED BY <1>3, <1>4
\* A pool nobody borrows from costs nothing.
LEMMA DebtFree ==
  ASSUME NEW f \in Nat
  PROVE  getInterestRate(0, f) = 0
<1>1. CASE f = 0
  BY <1>1 DEF getInterestRate
<1>2. CASE f # 0
  <2>1. WAD \in Nat /\ YEAR \in Nat \ {0} /\ CEIL_SLOPE_1 \in Nat \ {0}
        /\ MAX_INTEREST_SLOPE_1 \in Nat
    BY InterestAssumption
  <2>2. 0 * 100 * WAD = 0 /\ f \in Nat \ {0} /\ 0 \div f = 0 /\ 0 + f = f
    BY <1>2, <2>1
  <2>3. utilization(0, f) = 0
    BY <2>2 DEF utilization
  <2>4. 0 * MAX_INTEREST_SLOPE_1 = 0 /\ 0 \div CEIL_SLOPE_1 = 0
    BY <2>1
  <2>5. yearlyRate(0) = 0
    BY <2>1, <2>4 DEF yearlyRate, FirstSlope
  <2>6. 0 \div YEAR = 0
    BY <2>1
  <2> QED BY <1>2, <2>3, <2>5, <2>6 DEF getInterestRate
<1> QED BY <1>1, <1>2
=============================================================================
