------------------------ MODULE InterestCallsProofs ------------------------
(* What InterestCalls checks on one interest model, for all of them.        *)
EXTENDS InterestCalls, InterestModelProofs

CallsTypeOK == debt \in Nat /\ floating \in Nat

(* Debt and floating stay natural numbers along every sequence of calls. *)
LEMMA CallsTypeCorrect == CallsSpec => []CallsTypeOK
<1>1. CallsInit => CallsTypeOK
  BY DEF CallsInit, CallsTypeOK
<1>2. CallsTypeOK /\ [Call]_callVars => CallsTypeOK'
  BY MaxPoolAssumption DEF CallsTypeOK, Call, callVars
<1> QED BY <1>1, <1>2, PTL DEF CallsSpec

(* More debt over no more cash is a larger share lent out, as cross products. *)
LEMMA Tighter ==
  ASSUME NEW d \in Nat \ {0}, NEW f \in Nat, NEW e \in Nat, NEW g \in Nat,
         d <= e, g <= f
  PROVE  d + f > 0 /\ e + g > 0 /\ d * (e + g) <= e * (d + f)
<1>1. g * d <= f * d /\ d * f <= e * f
  BY Products
<1>2. d * (e + g) = d * e + g * d /\ e * (d + f) = d * e + e * f
  OBVIOUS
<1>3. d * e \in Nat /\ g * d \in Nat /\ f * d = d * f /\ d * f \in Nat
      /\ e * f \in Nat
  OBVIOUS
<1> QED BY <1>1, <1>2, <1>3

\* More debt and fewer tokens never cost less (getInterestRate), for every
\* choice of kinks and slopes that rise.
THEOREM TighterIsDearerHolds == CallsSpec => TighterIsDearer
<1>1. ASSUME CallsTypeOK, CallsTypeOK', debt' >= debt, floating' <= floating
      PROVE  Rate' >= Rate
  <2>1. /\ debt \in Nat /\ floating \in Nat
        /\ debt' \in Nat /\ floating' \in Nat
    BY <1>1 DEF CallsTypeOK
  <2>2. Rate \in Nat /\ Rate' \in Nat
    BY <2>1, RateNat DEF Rate
  <2>3. CASE debt = 0
    <3>1. getInterestRate(0, floating) = 0
      BY <2>1, DebtFree
    <3> QED BY <2>2, <2>3, <3>1 DEF Rate
  <2>4. CASE debt # 0
    <3>1. /\ debt + floating > 0 /\ debt' + floating' > 0
          /\ debt * (debt' + floating') <= debt' * (debt + floating)
      BY <1>1, <2>1, <2>4, Tighter
    <3>2. getInterestRate(debt, floating) <= getInterestRate(debt', floating')
      BY <2>1, <3>1, RateRises
    <3> QED BY <2>2, <3>2 DEF Rate
  <2> QED BY <2>3, <2>4
<1>2. CallsTypeOK /\ CallsTypeOK' =>
        [debt' >= debt /\ floating' <= floating => Rate' >= Rate]_callVars
  BY <1>1
<1> QED BY <1>2, CallsTypeCorrect, PTL DEF TighterIsDearer

\* The top rate bounds every rate, for every choice of kinks and slopes that
\* rise (the last branch of getInterestRate).
THEOREM NeverAboveTopHolds == CallsSpec => []NeverAboveTop
<1>1. CallsTypeOK => NeverAboveTop
  <2> SUFFICES ASSUME CallsTypeOK PROVE NeverAboveTop
    OBVIOUS
  <2>1. debt \in Nat /\ floating \in Nat
    BY DEF CallsTypeOK
  <2>2. CASE debt = 0 /\ floating = 0
    BY <2>2, InterestAssumption DEF NeverAboveTop, Rate, getInterestRate
  <2>3. CASE debt + floating > 0
    <3> DEFINE u == utilization(debt, floating)
    <3>1. u \in Nat
      BY <2>1, <2>3, UtilizationNat
    <3>2. Rate = yearlyRate(u) \div YEAR
      BY <2>3, <2>1 DEF Rate, getInterestRate
    <3> HIDE DEF u
    <3>3. yearlyRate(u) \in Nat /\ yearlyRate(u) <= MAX_INTEREST_SLOPE_3
      BY <3>1, YearlyRateRises
    <3>4. /\ yearlyRate(u) \div YEAR \in Nat
          /\ YEAR * (yearlyRate(u) \div YEAR) <= yearlyRate(u)
      BY <3>3, Division, InterestAssumption
    <3> QED BY <3>2, <3>3, <3>4, InterestAssumption DEF NeverAboveTop
  <2> QED BY <2>1, <2>2, <2>3
<1> QED BY <1>1, CallsTypeCorrect, PTL
=============================================================================
