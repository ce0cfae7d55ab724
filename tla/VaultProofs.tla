---------------------------- MODULE VaultProofs ----------------------------
(* IInv is an invariant of the vault for every number of positions, users   *)
(* and tokens and every configuration, and with it the safety of lenders    *)
(* and farmers: their debt, what they can lose, who pays, that stakes cover *)
(* shares, that a call leaves the debt of bystanders alone, what others see *)
(* of the vault meanwhile, and who can change the price of time past.       *)
EXTENDS VaultInvariant, InterestModelProofs

----------------------------------------------------------------------------
(* What the debt pool's operators preserve, for every pool and every value. *)

(* Position ids run from 1 to MaxPositions, each but the first with one before it. *)
LEMMA PositionNumbers ==
  /\ 1 \in Ids /\ MaxPositions \in Ids
  /\ \A i \in Ids : i \in Nat /\ 1 <= i /\ i <= MaxPositions
  /\ \A i \in Ids \ {1} : i - 1 \in Ids
BY PositionsAssumption DEF Ids

(* The vault is deployed with a sound debt pool: no shares and no debt. *)
LEMMA NoDebtGood == GoodPool(NoDebt)
<1> DEFINE p == [id \in Ids |-> 0]
<1>1. NoDebt \in DebtPools /\ ValueCoversShares(NoDebt)
  BY DEF NoDebt, DebtPools, ValueCoversShares
<1>2. p \in [Ids -> 0..NoDebt.vaultDebtShare]
  BY DEF NoDebt
<1>3. ArePartialSums(p, NoDebt.debtShare, NoDebt.vaultDebtShare)
  BY PositionsAssumption DEF ArePartialSums, NoDebt, Ids
<1> QED BY <1>1, <1>2, <1>3 DEF GoodPool, SharesAgree

\* A position holds no more shares than there are.
LEMMA ShareBound ==
  ASSUME NEW d, GoodPool(d), NEW id \in Ids
  PROVE  /\ d.debtShare[id] \in Nat
         /\ d.vaultDebtShare \in Nat
         /\ d.vaultDebtVal \in Nat
         /\ d.debtShare[id] <= d.vaultDebtShare
<1>1. PICK p \in [Ids -> 0..d.vaultDebtShare] :
        ArePartialSums(p, d.debtShare, d.vaultDebtShare)
  BY DEF GoodPool, SharesAgree
<1>2. /\ d.debtShare \in [Ids -> Nat]
      /\ d.vaultDebtShare \in Nat /\ d.vaultDebtVal \in Nat
  BY DEF GoodPool, DebtPools
<1>3. d.debtShare[id] <= p[id]
  <2>1. CASE id = 1
    BY <2>1, <1>1, <1>2 DEF ArePartialSums
  <2>2. CASE id # 1
    <3>1. id - 1 \in Ids
      BY <2>2, PositionsAssumption DEF Ids
    <3>2. p[id] = p[id - 1] + d.debtShare[id] /\ p[id - 1] \in Nat
      BY <3>1, <2>2, <1>1, <1>2 DEF ArePartialSums
    <3> QED BY <3>2, <1>2
  <2> QED BY <2>1, <2>2
<1> QED BY <1>1, <1>2, <1>3

\* The debt of a position is a natural number, no more than the whole debt,
\* and all of it if the position holds all the shares.
LEMMA DebtBound ==
  ASSUME NEW d, GoodPool(d), NEW id \in Ids
  PROVE  /\ DebtOf(d, id) \in Nat
         /\ DebtOf(d, id) <= d.vaultDebtVal
         /\ DebtOf(d, id) * d.vaultDebtShare <= d.debtShare[id] * d.vaultDebtVal
         /\ d.debtShare[id] = d.vaultDebtShare =>
              DebtOf(d, id) = d.vaultDebtVal
<1> DEFINE x == d.debtShare[id]
           S == d.vaultDebtShare
           V == d.vaultDebtVal
<1>1. x \in Nat /\ S \in Nat /\ V \in Nat /\ x <= S
  BY ShareBound
<1>2. CASE S = 0
  <2>1. x = 0 /\ V = 0
    BY <1>1, <1>2 DEF GoodPool, ValueCoversShares
  <2>2. DebtOf(d, id) = 0
    BY <2>1, <1>2 DEF DebtOf, debtShareToVal
  <2> QED BY <2>1, <2>2, <1>2
<1>3. CASE S # 0
  <2> DEFINE q == (x * V) \div S
  <2>1. DebtOf(d, id) = q
    BY <1>3 DEF DebtOf, debtShareToVal
  <2>2. x * V \in Nat /\ S \in Nat \ {0} /\ x * V <= S * V
    BY <1>1, <1>3, Products
  <2> HIDE DEF q
  <2>3. q \in Nat /\ S * q <= x * V
    BY <2>2, Division DEF q
  <2>4. q <= V
    <3>1. S * q <= S * V
      BY <2>2, <2>3, <1>1
    <3> QED BY <3>1, <2>2, <2>3, <1>1, Cancel
  <2>5. x = S => q = V
    BY <2>2, <1>1, ExactDivision DEF q
  <2> QED BY <2>1, <2>3, <2>4, <2>5, <1>1
<1> QED BY <1>2, <1>3

\* _removeDebt keeps the pool good: what rounding leaves goes to the others.
LEMMA RemoveDebtGood ==
  ASSUME NEW d, GoodPool(d), NEW id \in Ids
  PROVE  GoodPool(RemoveDebt(d, id))
<1> DEFINE x == d.debtShare[id]
           S == d.vaultDebtShare
           V == d.vaultDebtVal
           q == DebtOf(d, id)
           e == RemoveDebt(d, id)
<1>1. x \in Nat /\ S \in Nat /\ V \in Nat /\ x <= S
  BY ShareBound
<1>2. q \in Nat /\ q <= V /\ q * S <= x * V /\ (x = S => q = V)
  BY DebtBound
<1>3. /\ e.vaultDebtShare = S - x
      /\ e.vaultDebtVal = V - q
      /\ e.debtShare = [d.debtShare EXCEPT ![id] = 0]
  BY DEF RemoveDebt
<1>4. d.debtShare \in [Ids -> Nat] /\ e.debtShare \in [Ids -> Nat]
  BY <1>3 DEF GoodPool, DebtPools
<1>5. e \in DebtPools
  <2>1. S - x \in Nat /\ V - q \in Nat
    BY <1>1, <1>2
  <2> QED BY <2>1, <1>4 DEF RemoveDebt, DebtPools
<1>6. SharesAgree(e)
  <2>1. PICK p \in [Ids -> 0..S] : ArePartialSums(p, d.debtShare, S)
    BY DEF GoodPool, SharesAgree
  <2> DEFINE r == [i \in Ids |-> IF i < id THEN p[i] ELSE p[i] - x]
  <2>2. /\ 1 \in Ids /\ MaxPositions \in Ids /\ id \in Nat
        /\ \A i \in Ids : i \in Int /\ p[i] \in Int
        /\ \A i \in Ids : 0 <= p[i] /\ p[i] <= S
        /\ \A i \in Ids : 1 <= i /\ i <= MaxPositions
        /\ \A i \in Ids \ {1} : i - 1 \in Ids
    <3> HIDE DEF S
    <3>1. \A i \in Ids : p[i] \in Int /\ 0 <= p[i] /\ p[i] <= S
      BY <1>1
    <3> QED BY <3>1, PositionNumbers
  <2>3. x <= p[id]
    BY <2>1, <2>2, <1>4 DEF ArePartialSums
  <2>4. \A i \in Ids : i < id => p[i] <= p[id] - x
    <3> SUFFICES ASSUME NEW i \in Ids, i < id PROVE p[i] <= p[id] - x
      OBVIOUS
    <3>1. id # 1 /\ id - 1 \in Ids /\ i <= id - 1
      BY <2>2
    <3>2. p[id] = p[id - 1] + x /\ p[i] <= p[id - 1]
      BY <3>1, <2>1 DEF ArePartialSums
    <3>3. p[id - 1] \in Int
      BY <3>1, <2>2
    <3> QED BY <3>2, <3>3, <2>2, <1>1
  <2>5. \A i \in Ids : r[i] \in 0..(S - x)
    <3> SUFFICES ASSUME NEW i \in Ids PROVE r[i] \in 0..(S - x)
      OBVIOUS
    <3>1. CASE i < id
      BY <3>1, <2>2, <2>4, <1>1
    <3>2. CASE ~(i < id)
      <4>1. p[id] <= p[i]
        BY <3>2, <2>2, <2>1 DEF ArePartialSums
      <4> QED BY <4>1, <3>2, <2>2, <2>3, <1>1
    <3> QED BY <3>1, <3>2
  <2>6. r \in [Ids -> 0..(S - x)]
    BY <2>5
  <2>7. r[1] = e.debtShare[1]
    <3>1. CASE id = 1
      BY <3>1, <2>1, <2>2, <1>3, <1>4, <1>1 DEF ArePartialSums
    <3>2. CASE id # 1
      BY <3>2, <2>1, <2>2, <1>3, <1>4 DEF ArePartialSums
    <3> QED BY <3>1, <3>2
  <2>8. r[MaxPositions] = S - x
    <3>1. p[MaxPositions] = S
      BY <2>1 DEF ArePartialSums
    <3>2. id <= MaxPositions /\ MaxPositions \in Ids
      BY <2>2
    <3> QED BY <3>1, <3>2, <2>2
  <2>9. \A i \in Ids \ {1} : r[i] = r[i - 1] + e.debtShare[i]
    <3> SUFFICES ASSUME NEW i \in Ids \ {1}
                 PROVE  r[i] = r[i - 1] + e.debtShare[i]
      OBVIOUS
    <3>1. p[i] = p[i - 1] + d.debtShare[i] /\ d.debtShare[i] \in Nat
          /\ p[i] \in Int /\ p[i - 1] \in Int
      BY <2>1, <2>2, <1>4 DEF ArePartialSums
    <3>2. e.debtShare[i] = IF i = id THEN 0 ELSE d.debtShare[i]
      BY <1>3, <1>4
    <3>3. /\ r[i] = IF i < id THEN p[i] ELSE p[i] - x
          /\ r[i - 1] = IF i - 1 < id THEN p[i - 1] ELSE p[i - 1] - x
      BY <2>2
    <3> HIDE DEF r, e
    <3>4. CASE i < id
      BY <3>1, <3>2, <3>3, <3>4, <2>2
    <3>5. CASE i = id
      BY <3>1, <3>2, <3>3, <3>5, <2>2, <1>1
    <3>6. CASE i > id
      BY <3>1, <3>2, <3>3, <3>6, <2>2, <1>1
    <3> QED BY <3>4, <3>5, <3>6, <2>2
  <2>10. \A i, j \in Ids : i <= j => r[i] <= r[j]
    <3> SUFFICES ASSUME NEW i \in Ids, NEW j \in Ids, i <= j
                 PROVE  r[i] <= r[j]
      OBVIOUS
    <3>1. p[i] <= p[j] /\ (id <= j => p[id] <= p[j])
      BY <2>1 DEF ArePartialSums
    <3>2. i < id => p[i] <= p[id] - x
      BY <2>4
    <3>3. /\ r[i] = IF i < id THEN p[i] ELSE p[i] - x
          /\ r[j] = IF j < id THEN p[j] ELSE p[j] - x
      OBVIOUS
    <3>7. i \in Int /\ j \in Int /\ id \in Int /\ p[i] \in Int /\ p[j] \in Int /\ p[id] \in Int /\ x \in Int
      BY <2>2, <1>1
    <3> HIDE DEF r, x
    <3>4. CASE j < id
      BY <3>1, <3>3, <3>4, <3>7
    <3>5. CASE i < id /\ id <= j
      BY <3>1, <3>2, <3>3, <3>5, <3>7
    <3>6. CASE id <= i
      BY <3>1, <3>3, <3>6, <3>7
    <3> QED BY <3>4, <3>5, <3>6, <3>7
  <2> HIDE DEF r
  <2> QED BY <2>6, <2>7, <2>8, <2>9, <2>10, <1>3
        DEF SharesAgree, ArePartialSums
<1>7. ValueCoversShares(e)
  <2>0. S <= V
    BY DEF GoodPool, ValueCoversShares
  <2> HIDE DEF x, S, V, q, e
  <2>1. S - x = 0 => V - q = 0
    BY <1>1, <1>2
  <2>2. S - x <= V - q
    <3>1. CASE S = 0
      BY <3>1, <1>1, <1>2
    <3>2. CASE S # 0
      <4>2. (S - x) \in Nat /\ (V - q) \in Nat
        BY <1>1, <1>2
      <4>3. S * (S - x) <= V * (S - x)
        BY <2>0, <4>2, <1>1, Products
      <4>4. V * (S - x) = S * V - x * V
        BY <1>1
      <4>5. S * V - x * V <= S * V - q * S
        BY <1>1, <1>2
      <4>6. S * V - q * S = S * (V - q)
        BY <1>1, <1>2
      <4>7. S * (S - x) <= S * (V - q)
        BY <4>3, <4>4, <4>5, <4>6, <1>1, <1>2
      <4> QED BY <4>7, <4>2, <3>2, <1>1, Cancel
    <3> QED BY <3>1, <3>2
  <2> QED BY <2>1, <2>2, <1>3 DEF ValueCoversShares
<1> QED BY <1>5, <1>6, <1>7 DEF GoodPool

\* The shares a value buys are worth no more than it.
LEMMA BoughtShares ==
  ASSUME NEW d, GoodPool(d), NEW val \in Nat
  PROVE  /\ debtValToShare(d, val) \in Nat
         /\ debtValToShare(d, val) <= val
         /\ debtValToShare(d, val) * d.vaultDebtVal <= val * d.vaultDebtShare
         /\ d.vaultDebtShare = 0 => debtValToShare(d, val) = val
<1> DEFINE S == d.vaultDebtShare
           V == d.vaultDebtVal
           n == debtValToShare(d, val)
<1>1. S \in Nat /\ V \in Nat /\ S <= V /\ (S = 0 => V = 0)
  BY DEF GoodPool, DebtPools, ValueCoversShares
<1>2. CASE S = 0
  <2>1. n = val
    BY <1>2 DEF debtValToShare
  <2> HIDE DEF n
  <2>2. n \in Nat /\ n <= val /\ n * V <= val * S
    BY <2>1, <1>1, <1>2
  <2> QED BY <2>1, <2>2 DEF n
<1>3. CASE S # 0
  <2> DEFINE a == val * S
  <2>1. n = a \div V
    BY <1>3 DEF debtValToShare
  <2> HIDE DEF n
  <2>2. V \in Nat \ {0} /\ a \in Nat
    BY <1>1, <1>3
  <2>3. n \in Nat /\ V * n <= a
    <3> HIDE DEF a, V
    <3> QED BY <2>1, <2>2, Division
  <2>4. n <= val
    <3>1. S * val <= V * val
      BY <1>1, Products
    <3>2. V * n <= V * val
      BY <2>3, <3>1, <1>1
    <3> QED BY <3>2, <2>2, <2>3, Cancel
  <2>5. n * V <= val * S
    BY <2>3, <1>1
  <2> QED BY <2>3, <2>4, <2>5, <1>3 DEF n
<1> QED BY <1>2, <1>3

\* _addDebt keeps the pool good.
LEMMA AddDebtGood ==
  ASSUME NEW d, GoodPool(d), NEW id \in Ids, NEW val \in Nat
  PROVE  GoodPool(AddDebt(d, id, val))
<1> DEFINE S == d.vaultDebtShare
           V == d.vaultDebtVal
           n == debtValToShare(d, val)
           e == AddDebt(d, id, val)
<1>1. /\ S \in Nat /\ V \in Nat /\ S <= V /\ (S = 0 => V = 0)
      /\ d.debtShare \in [Ids -> Nat]
  BY DEF GoodPool, DebtPools, ValueCoversShares
<1>2. n \in Nat /\ n <= val /\ (S = 0 => n = val)
  BY BoughtShares
<1>3. /\ e.vaultDebtShare = S + n
      /\ e.vaultDebtVal = V + val
      /\ e.debtShare = [d.debtShare EXCEPT ![id] = d.debtShare[id] + n]
  BY DEF AddDebt
<1>4. e.debtShare \in [Ids -> Nat]
  BY <1>1, <1>2, <1>3
<1>5. e \in DebtPools
  <2>1. S + n \in Nat /\ V + val \in Nat
    BY <1>1, <1>2
  <2> QED BY <2>1, <1>3, <1>4 DEF AddDebt, DebtPools
<1>6. SharesAgree(e)
  <2>1. PICK p \in [Ids -> 0..S] : ArePartialSums(p, d.debtShare, S)
    BY DEF GoodPool, SharesAgree
  <2> DEFINE r == [i \in Ids |-> IF i < id THEN p[i] ELSE p[i] + n]
  <2>2. /\ 1 \in Ids /\ MaxPositions \in Ids /\ id \in Nat
        /\ \A i \in Ids : i \in Int /\ p[i] \in Int
        /\ \A i \in Ids : 0 <= p[i] /\ p[i] <= S
        /\ \A i \in Ids : 1 <= i /\ i <= MaxPositions
        /\ \A i \in Ids \ {1} : i - 1 \in Ids
    <3> HIDE DEF S
    <3>1. \A i \in Ids : p[i] \in Int /\ 0 <= p[i] /\ p[i] <= S
      BY <1>1
    <3> QED BY <3>1, PositionNumbers
  <2>3. r \in [Ids -> 0..(S + n)]
    BY <2>2, <1>1, <1>2
  <2>4. r[1] = e.debtShare[1]
    <3>1. CASE id = 1
      BY <3>1, <2>1, <2>2, <1>3, <1>1 DEF ArePartialSums
    <3>2. CASE id # 1
      BY <3>2, <2>1, <2>2, <1>3, <1>1 DEF ArePartialSums
    <3> QED BY <3>1, <3>2
  <2>5. r[MaxPositions] = S + n
    <3>1. p[MaxPositions] = S /\ ~(MaxPositions < id)
      BY <2>1, <2>2, PositionsAssumption DEF ArePartialSums
    <3> HIDE DEF n, S
    <3> QED BY <3>1, <2>2
  <2>6. \A i \in Ids \ {1} : r[i] = r[i - 1] + e.debtShare[i]
    <3> SUFFICES ASSUME NEW i \in Ids \ {1}
                 PROVE  r[i] = r[i - 1] + e.debtShare[i]
      OBVIOUS
    <3>1. p[i] = p[i - 1] + d.debtShare[i] /\ d.debtShare[i] \in Nat
          /\ p[i] \in Int /\ p[i - 1] \in Int
      BY <2>1, <2>2, <1>1 DEF ArePartialSums
    <3>2. e.debtShare[i] = IF i = id THEN d.debtShare[i] + n
                           ELSE d.debtShare[i]
      BY <1>3, <1>1
    <3>3. /\ r[i] = IF i < id THEN p[i] ELSE p[i] + n
          /\ r[i - 1] = IF i - 1 < id THEN p[i - 1] ELSE p[i - 1] + n
      BY <2>2
    <3>7. i \in Int /\ id \in Int
      BY <2>2
    <3> HIDE DEF r, e, n
    <3>4. CASE i < id
      BY <3>1, <3>2, <3>3, <3>4, <3>7
    <3>5. CASE i = id
      BY <3>1, <3>2, <3>3, <3>5, <3>7, <1>2
    <3>6. CASE i > id
      BY <3>1, <3>2, <3>3, <3>6, <3>7, <1>2
    <3> QED BY <3>4, <3>5, <3>6, <3>7
  <2>7. \A i, j \in Ids : i <= j => r[i] <= r[j]
    <3> SUFFICES ASSUME NEW i \in Ids, NEW j \in Ids, i <= j
                 PROVE  r[i] <= r[j]
      OBVIOUS
    <3>1. p[i] <= p[j]
      BY <2>1 DEF ArePartialSums
    <3>2. /\ r[i] = IF i < id THEN p[i] ELSE p[i] + n
          /\ r[j] = IF j < id THEN p[j] ELSE p[j] + n
      OBVIOUS
    <3> HIDE DEF r, n
    <3> QED BY <3>1, <3>2, <2>2, <1>2
  <2> HIDE DEF r
  <2> QED BY <2>3, <2>4, <2>5, <2>6, <2>7, <1>3
        DEF SharesAgree, ArePartialSums
<1>7. ValueCoversShares(e)
  <2> HIDE DEF S, V, n, e
  <2>1. S + n <= V + val /\ (S + n = 0 => V + val = 0)
    BY <1>1, <1>2
  <2> QED BY <2>1, <1>3 DEF ValueCoversShares
<1> QED BY <1>5, <1>6, <1>7 DEF GoodPool

\* Interest keeps the pool good; an empty pool earns none.
LEMMA AddInterestGood ==
  ASSUME NEW d, GoodPool(d), NEW interest \in Nat,
         d.vaultDebtVal = 0 => interest = 0
  PROVE  GoodPool(AddInterest(d, interest))
<1> DEFINE e == AddInterest(d, interest)
<1>1. /\ d.vaultDebtShare \in Nat /\ d.vaultDebtVal \in Nat
      /\ d.debtShare \in [Ids -> Nat]
      /\ d = [vaultDebtShare |-> d.vaultDebtShare,
              vaultDebtVal |-> d.vaultDebtVal, debtShare |-> d.debtShare]
  BY DEF GoodPool, DebtPools
<1>2. /\ e.vaultDebtShare = d.vaultDebtShare /\ e.debtShare = d.debtShare
      /\ e.vaultDebtVal = d.vaultDebtVal + interest
      /\ e \in DebtPools
  BY <1>1 DEF AddInterest, DebtPools
<1>3. SharesAgree(e)
  BY <1>2 DEF GoodPool, SharesAgree
<1>4. ValueCoversShares(e)
  BY <1>1, <1>2 DEF GoodPool, ValueCoversShares
<1> QED BY <1>2, <1>3, <1>4 DEF GoodPool

\* A debt that is converted to shares for a position without any does not
\* grow: the position then owes no more than was added.
LEMMA RoundTrip ==
  ASSUME NEW d, GoodPool(d), NEW id \in Ids, NEW val \in Nat,
         d.debtShare[id] = 0
  PROVE  DebtOf(AddDebt(d, id, val), id) <= val
<1> DEFINE S == d.vaultDebtShare
           V == d.vaultDebtVal
           n == debtValToShare(d, val)
           e == AddDebt(d, id, val)
           q == DebtOf(e, id)
<1>1. /\ S \in Nat /\ V \in Nat /\ (S = 0 => V = 0)
      /\ d.debtShare \in [Ids -> Nat]
  BY DEF GoodPool, DebtPools, ValueCoversShares
<1>2. n \in Nat /\ n <= val /\ n * V <= val * S /\ (S = 0 => n = val)
  BY BoughtShares
<1>3. /\ e.vaultDebtShare = S + n
      /\ e.vaultDebtVal = V + val
      /\ e.debtShare[id] = n
  BY <1>1, <1>2 DEF AddDebt
<1>4. q \in Nat /\ q * (S + n) <= n * (V + val) /\ (n = S + n => q = V + val)
  BY AddDebtGood, DebtBound, <1>3
<1> HIDE DEF S, V, n, e, q
<1>5. S = 0 => q <= val
  BY <1>1, <1>2, <1>4
<1>6. ASSUME S # 0 PROVE q <= val
  <2>1. n * (V + val) = n * V + n * val
    BY <1>1, <1>2
  <2>2. n * V + n * val <= val * S + n * val
    BY <1>1, <1>2
  <2>3. val * S + n * val = (S + n) * val
    BY <1>1, <1>2
  <2>4. (S + n) * q <= (S + n) * val
    BY <2>1, <2>2, <2>3, <1>1, <1>2, <1>4
  <2>5. S + n \in Nat \ {0}
    BY <1>1, <1>2, <1>6
  <2> QED BY <2>4, <2>5, <1>4, Cancel
<1> QED BY <1>5, <1>6 DEF q, e

----------------------------------------------------------------------------
(* The vault. *)

\* The fields of the state, one by one.
LEMMA Typed ==
  ASSUME TypeOK
  PROVE  /\ timePast \in Nat /\ bal \in Nat /\ reservePool \in Nat
         /\ totalSupply \in Nat /\ debt \in DebtPools
         /\ positions \in [Ids -> [worker : Workers \cup {NoAddr},
                                   owner : Users \cup {NoAddr}]]
         /\ nextPositionID \in 1..(MaxPositions + 1)
         /\ fairLaunchPoolId \in PoolIds \cup {NoPool}
         /\ stake \in [PoolIds -> [Users -> Nat]]
         /\ POSITION_ID \in Ids \cup {NO_ID}
         /\ STRATEGY \in Strategies \cup {NoAddr}
         /\ tx \in Calls /\ saved \in Storages
         /\ tx.kind \in {"none", "work", "addCollateral", "kill"}
         /\ tx.debt \in Nat /\ tx.before \in Nat /\ tx.maxReturn \in Nat
         /\ tx.id \in Ids \cup {NO_ID}
BY DEF TypeOK, Storage, Storages, Calls

\* A fraction of a natural number in basis points.
LEMMA Bps ==
  ASSUME NEW a \in Nat, NEW b \in 0..BPS
  PROVE  (a * b) \div BPS \in Nat /\ (a * b) \div BPS <= a
<1>1. b \in Nat /\ BPS \in Nat \ {0} /\ b <= BPS
  BY ConfigAssumption
<1> QED BY <1>1, PartOfWhole

\* The accrue modifier: lenders gain by it, and nobody owes nothing.
LEMMA Accrual ==
  ASSUME TypeOK, GoodPool(debt)
  PROVE  /\ pendingInterest \in Nat
         /\ timePast = 0 => pendingInterest = 0
         /\ AccruedReserve \in Nat
         /\ GoodPool(AccruedDebt)
         /\ AccruedDebt.vaultDebtShare = debt.vaultDebtShare
         /\ AccruedDebt.vaultDebtVal = debt.vaultDebtVal + pendingInterest
         /\ AccruedDebt.debtShare = debt.debtShare
         /\ AccruedTotal \in Int
         /\ totalToken(Storage) \in Int
         /\ totalToken(Storage) <= AccruedTotal
<1> DEFINE V == debt.vaultDebtVal
           rate == getInterestRate(V, bal)
<1>1. /\ V \in Nat /\ bal \in Nat /\ timePast \in Nat /\ reservePool \in Nat
      /\ debt \in DebtPools /\ debt.vaultDebtShare \in Nat
  BY Typed DEF DebtPools
<1>2. rate \in Nat
  BY <1>1, RateNat
<1> HIDE DEF rate
<1>3. pendingInterest = (rate * V * timePast) \div WAD
  BY DEF pendingInterest, rate
<1>4. WAD \in Nat \ {0}
  BY InterestAssumption
<1>5. rate * V * timePast \in Nat /\ (V = 0 \/ timePast = 0 =>
                                        rate * V * timePast = 0)
  BY <1>1, <1>2
<1>6. 0 \div WAD = 0
  BY <1>4
<1>7. /\ pendingInterest \in Nat
      /\ V = 0 => pendingInterest = 0
      /\ timePast = 0 => pendingInterest = 0
  BY <1>3, <1>4, <1>5, <1>6, Division
<1>8. GoodPool(AccruedDebt)
  BY <1>7, AddInterestGood DEF AccruedDebt
<1>9. /\ AccruedDebt.vaultDebtShare = debt.vaultDebtShare
      /\ AccruedDebt.vaultDebtVal = V + pendingInterest
      /\ AccruedDebt.debtShare = debt.debtShare
  BY <1>1 DEF AccruedDebt, AddInterest, DebtPools
<1> DEFINE cut == (pendingInterest * ReservePoolBps) \div BPS
<1>10. cut \in Nat /\ cut <= pendingInterest
  BY <1>7, Bps, ConfigAssumption
<1>11. AccruedReserve = reservePool + cut
  BY DEF AccruedReserve
<1> HIDE DEF cut, V
<1>12. /\ totalToken(Storage) = bal + V - reservePool
       /\ AccruedTotal = bal + (V + pendingInterest) - (reservePool + cut)
  BY <1>9, <1>11 DEF totalToken, Storage, AccruedTotal, V
<1> QED BY <1>1, <1>7, <1>8, <1>9, <1>10, <1>11, <1>12 DEF V

-----------------------------------------------------------------------------
(* Transactions that do not call a worker leave the vault at rest. *)

LEMMA Resting ==
  ASSUME IInv, tx.kind = "none", UNCHANGED <<tx, saved, scopeVars, positions>>,
         TypeOK', GoodPool(debt')
  PROVE  IInv'
BY DEF IInv, AtRest, OnlyCallerPays, scopeVars

(* deposit keeps the inductive invariant. *)
LEMMA DepositInv ==
  ASSUME IInv, NEW amount \in Amounts, deposit(amount)
  PROVE  IInv'
<1>1. TypeOK /\ GoodPool(debt) /\ amount \in Nat
  BY ConfigAssumption DEF IInv
<1>2. /\ AccruedTotal \in Nat /\ AccruedReserve \in Nat
      /\ GoodPool(AccruedDebt) /\ AccruedDebt \in DebtPools
  BY <1>1, Accrual DEF deposit, GoodPool
<1>3. totalSupply' \in Nat
  <2>1. totalSupply \in Nat /\ amount * totalSupply \in Nat
    BY <1>1, Typed
  <2>2. AccruedTotal # 0 => (amount * totalSupply) \div AccruedTotal \in Nat
    BY <1>2, <2>1, Division
  <2> QED BY <1>1, <2>1, <2>2 DEF deposit
<1>4. bal' \in Nat
  BY <1>1, Typed DEF deposit
<1>5. TypeOK'
  BY <1>1, <1>2, <1>3, <1>4
     DEF deposit, TypeOK, Storage, Storages, positionVars, scopeVars
<1> QED BY <1>2, <1>5, Resting DEF deposit, nonReentrant, positionVars

(* withdraw keeps the inductive invariant. *)
LEMMA WithdrawInv ==
  ASSUME IInv, NEW share \in 1..MaxSupply, withdraw(share)
  PROVE  IInv'
<1>1. TypeOK /\ GoodPool(debt) /\ share \in Nat /\ share # 0
  BY DEF IInv
<1>2. /\ AccruedTotal \in Nat /\ AccruedReserve \in Nat
      /\ GoodPool(AccruedDebt) /\ AccruedDebt \in DebtPools
  BY <1>1, Accrual DEF withdraw, GoodPool
<1>3. totalSupply \in Nat /\ share <= totalSupply
      /\ bal \in Nat /\ totalSupply' = totalSupply - share
  BY <1>1, Typed DEF withdraw
<1>4. totalSupply' \in Nat
  BY <1>1, <1>3
<1>5. bal' \in Nat
  <2> DEFINE amount == (share * AccruedTotal) \div totalSupply
  <2>1. share * AccruedTotal \in Nat /\ totalSupply \in Nat \ {0}
    BY <1>1, <1>2, <1>3
  <2>2. amount \in Nat
    BY <2>1, Division
  <2>3. amount <= bal /\ bal' = bal - amount
    BY DEF withdraw
  <2> QED BY <2>2, <2>3, <1>3
<1>6. TypeOK'
  BY <1>1, <1>2, <1>4, <1>5
     DEF withdraw, TypeOK, Storage, Storages, positionVars, scopeVars
<1> QED BY <1>2, <1>6, Resting DEF withdraw, nonReentrant, positionVars

(* withdrawReserve keeps the inductive invariant. *)
LEMMA WithdrawReserveInv ==
  ASSUME IInv, NEW value \in 1..MaxToken, withdrawReserve(value)
  PROVE  IInv'
<1>1. TypeOK /\ GoodPool(debt) /\ value \in Nat
  BY DEF IInv
<1>2. reservePool' \in Nat /\ bal' \in Nat
  BY <1>1, Typed DEF withdrawReserve
<1>3. TypeOK'
  BY <1>1, <1>2
     DEF withdrawReserve, TypeOK, Storage, Storages, positionVars, scopeVars
<1> QED BY <1>1, <1>3, Resting
        DEF withdrawReserve, nonReentrant, positionVars

(* The passing of time keeps the inductive invariant. *)
LEMMA TickInv ==
  ASSUME IInv, Tick
  PROVE  IInv'
<1>1. TypeOK /\ GoodPool(debt)
  BY DEF IInv
<1>2. timePast' \in Nat
  BY <1>1, Typed DEF Tick
<1>3. TypeOK'
  BY <1>1, <1>2
     DEF Tick, TypeOK, Storage, Storages, positionVars, scopeVars, lenderVars
<1> QED BY <1>1, <1>3, Resting DEF Tick, nonReentrant, positionVars

-----------------------------------------------------------------------------
(* Steps that may happen while a call waits. *)

\* A step that gives tokens or reserves to the lenders keeps the call's ledger.
LEMMA StillWaiting ==
  ASSUME IInv, UNCHANGED <<timePast, totalSupply, debt, positionVars,
                           scopeVars, saved>>,
         TypeOK', bal <= bal', reservePool' <= reservePool,
         \/ tx' = tx
         \/ /\ tx.kind # "none"
            /\ tx' = [tx EXCEPT !.debited = tx'.debited]
            /\ tx'.debited \subseteq {tx.caller}
  PROVE  IInv'
<1>1. CASE tx.kind = "none"
  BY <1>1, Resting DEF IInv, positionVars
<1>2. CASE tx.kind # "none"
  <2>1. /\ tx \in Calls /\ tx'.kind = tx.kind /\ tx'.caller = tx.caller
        /\ tx'.id = tx.id /\ tx'.debt = tx.debt /\ tx'.before = tx.before
        /\ tx'.debited \subseteq {tx.caller}
    BY DEF IInv, TypeOK, Calls, OnlyCallerPays
  <2>2. /\ bal \in Nat /\ bal' \in Nat /\ tx.before \in Nat
        /\ reservePool \in Nat /\ reservePool' \in Nat
        /\ debt.vaultDebtVal \in Nat /\ tx.debt \in Nat /\ saved \in Storages
    BY Typed DEF IInv, TypeOK, Storage, Storages, DebtPools
  <2>3. totalToken(saved) \in Int /\ Outstanding \in Nat
    BY <2>2 DEF totalToken, Storages, DebtPools, Outstanding
  <2>4. Outstanding' = Outstanding
    BY <2>1 DEF Outstanding
  <2>5. totalToken(saved)' = totalToken(saved)
    BY DEF totalToken
  <2>6. Waiting
    BY <1>2 DEF IInv
  <2>7. totalToken(saved)' <=
          tx'.before + debt'.vaultDebtVal + Outstanding' - reservePool'
    BY <2>1, <2>2, <2>3, <2>4, <2>5, <2>6 DEF Waiting
  <2>8. Waiting'
    BY <2>1, <2>2, <2>6, <2>7 DEF Waiting, scopeVars
  <2>9. OnlyCallerPays'
    BY <2>1 DEF OnlyCallerPays, IInv, scopeVars, positionVars
  <2> QED BY <1>2, <2>1, <2>8, <2>9 DEF IInv
<1> QED BY <1>1, <1>2

(* reduceReserve keeps the inductive invariant. *)
LEMMA ReduceReserveInv ==
  ASSUME IInv, NEW value \in 1..MaxToken, reduceReserve(value)
  PROVE  IInv'
<1>1. TypeOK /\ GoodPool(debt) /\ value \in Nat
  BY DEF IInv
<1>2. reservePool' \in Nat /\ reservePool' <= reservePool /\ bal <= bal'
  BY <1>1, Typed DEF reduceReserve
<1>3. TypeOK'
  BY <1>1, <1>2
     DEF reduceReserve, TypeOK, Storage, Storages, positionVars, scopeVars
<1> QED BY <1>2, <1>3, StillWaiting DEF reduceReserve

(* setFairLaunchPoolId keeps the inductive invariant. *)
LEMMA SetFairLaunchPoolIdInv ==
  ASSUME IInv, NEW pid \in PoolIds, setFairLaunchPoolId(pid)
  PROVE  IInv'
<1>1. TypeOK
  BY DEF IInv
<1>2. TypeOK'
  BY <1>1 DEF setFairLaunchPoolId, TypeOK, Storage, Storages, positionVars,
              scopeVars, lenderVars
<1>3. bal <= bal' /\ reservePool' <= reservePool
  BY <1>1, Typed DEF setFairLaunchPoolId, lenderVars
<1> QED BY <1>2, <1>3, StillWaiting DEF setFairLaunchPoolId, lenderVars

(* Tokens sent straight to the vault keep the inductive invariant. *)
LEMMA ReceiveTokenInv ==
  ASSUME IInv, NEW amount \in Amounts, receiveToken(amount)
  PROVE  IInv'
<1>1. TypeOK /\ amount \in Nat
  BY ConfigAssumption DEF IInv
<1>2. bal' \in Nat /\ bal <= bal' /\ reservePool' <= reservePool
  BY <1>1, Typed DEF receiveToken, lenderVars
<1>3. TypeOK'
  BY <1>1, <1>2 DEF receiveToken, TypeOK, Storage, Storages, positionVars,
                    scopeVars, lenderVars
<1> QED BY <1>2, <1>3, StillWaiting DEF receiveToken, lenderVars

\* The scope is free when no call waits, so the payer is the caller.
LEMMA RequestFundsInv ==
  ASSUME IInv, NEW sender \in Strategies, requestFunds(sender)
  PROVE  IInv'
<1>1. TypeOK /\ POSITION_ID # NO_ID
  BY DEF IInv, requestFunds
<1>2. /\ tx.kind # "none" /\ positions[POSITION_ID].owner = tx.caller
      /\ tx.debited \subseteq {tx.caller} /\ tx.caller \in Users
  BY <1>1 DEF IInv, AtRest, Waiting, OnlyCallerPays
<1>3. /\ tx' = [tx EXCEPT !.debited = tx.debited \cup {tx.caller}]
      /\ tx \in Calls
  BY <1>1, <1>2 DEF requestFunds, TypeOK
<1>4. /\ tx' \in Calls /\ tx'.debited \subseteq {tx.caller}
      /\ tx' = [tx EXCEPT !.debited = tx'.debited]
  BY <1>2, <1>3 DEF Calls
<1>5. bal <= bal' /\ reservePool' <= reservePool
  BY <1>1, Typed DEF requestFunds, lenderVars
<1>6. TypeOK'
  BY <1>1, <1>4 DEF requestFunds, TypeOK, Storage, Storages, positionVars,
                    scopeVars, lenderVars
<1> QED BY <1>2, <1>4, <1>5, <1>6, StillWaiting DEF requestFunds, lenderVars

-----------------------------------------------------------------------------
(* Calls that begin. *)

LEMMA FairLaunchTypes ==
  ASSUME TypeOK, fairLaunchPoolId # NoPool, NEW id \in Ids,
         fairLaunchWithdraw(id)
  PROVE  stake' \in [PoolIds -> [Users -> Nat]]
<1> DEFINE owner == positions[id].owner
           share == debt.debtShare[id]
<1>1. /\ stake \in [PoolIds -> [Users -> Nat]] /\ fairLaunchPoolId \in PoolIds
      /\ share \in Nat
  BY Typed DEF DebtPools
<1>2. CASE UNCHANGED stake
  BY <1>1, <1>2
<1>3. CASE /\ share <= stake[fairLaunchPoolId][owner]
           /\ stake' = [stake EXCEPT ![fairLaunchPoolId][owner] =
                          stake[fairLaunchPoolId][owner] - share]
  <2>1. CASE owner \in Users
    <3>1. stake[fairLaunchPoolId][owner] - share \in Nat
      BY <1>1, <1>3, <2>1
    <3> QED BY <1>1, <1>3, <2>1, <3>1
  <2>2. CASE owner \notin Users
    BY <1>1, <1>3, <2>2
  <2> QED BY <2>1, <2>2
<1> QED BY <1>2, <1>3 DEF fairLaunchWithdraw


\* What a step establishes that begins a call with the ledger in balance.
LEMMA Begun ==
  ASSUME IInv, tx.kind = "none",
         TypeOK', GoodPool(debt'), saved' = Storage,
         tx'.kind \in {"work", "addCollateral", "kill"},
         tx'.caller \in Users, tx'.id \in Ids, tx'.debited = {},
         timePast' = 0, totalSupply' = totalSupply, tx'.before = bal',
         totalToken(Storage) <=
           bal' + debt'.vaultDebtVal + Outstanding' - reservePool',
         tx'.kind = "work" => debt'.debtShare[tx'.id] = 0,
         tx'.kind = "addCollateral" => tx'.debt = DebtOf(debt', tx'.id),
         tx'.kind = "kill" => debt.vaultDebtVal > 0,
         POSITION_ID' # NO_ID => /\ tx'.kind \in {"work", "addCollateral"}
                                 /\ positions'[POSITION_ID'].owner = tx'.caller
  PROVE  IInv'
<1>1. GoodPool(debt) /\ POSITION_ID = NO_ID
  BY DEF IInv, AtRest
<1>2. /\ saved'.debt = debt /\ saved'.POSITION_ID = POSITION_ID
      /\ saved'.totalSupply = totalSupply
      /\ totalToken(saved)' = totalToken(Storage)
  BY DEF Storage, totalToken
<1>3. bal' \in Nat
  BY DEF TypeOK, Storage, Storages
<1>4. Waiting'
  BY <1>1, <1>2, <1>3 DEF Waiting
<1>5. OnlyCallerPays'
  BY DEF OnlyCallerPays
<1> QED BY <1>4, <1>5 DEF IInv

\* Removing the debt of a position takes its value from the pool.
LEMMA Removed ==
  ASSUME GoodPool(AccruedDebt), NEW id \in Ids
  PROVE  /\ GoodPool(RemoveDebt(AccruedDebt, id))
         /\ RemoveDebt(AccruedDebt, id) \in DebtPools
         /\ RemoveDebt(AccruedDebt, id).vaultDebtVal =
              AccruedDebt.vaultDebtVal - DebtOf(AccruedDebt, id)
         /\ RemoveDebt(AccruedDebt, id).debtShare[id] = 0
         /\ DebtOf(AccruedDebt, id) \in Nat
         /\ AccruedDebt.vaultDebtVal \in Nat
BY RemoveDebtGood, DebtBound DEF RemoveDebt, GoodPool, DebtPools

(* The part of work before the worker is called keeps the inductive invariant. *)
LEMMA BeginWorkInv ==
  ASSUME IInv, NEW user \in Users, NEW worker \in Workers,
         NEW strategy \in Strategies, NEW anId \in Ids \cup {NO_ID},
         NEW borrow \in Amounts \cup {0}, NEW maxReturn \in MaxReturns,
         beginWork(user, worker, strategy, anId, borrow, maxReturn)
  PROVE  IInv'
<1> DEFINE id == IF anId = NO_ID THEN nextPositionID ELSE anId
           owed == DebtOf(AccruedDebt, id)
<1>1. /\ TypeOK /\ GoodPool(debt) /\ tx.kind = "none"
      /\ borrow \in Nat /\ maxReturn \in Nat
      /\ fairLaunchPoolId # NoPool
  BY ConfigAssumption DEF IInv, beginWork, nonReentrant
<1>2. /\ id \in Ids
      /\ positions'[id].owner = user
      /\ positions' \in [Ids -> [worker : Workers \cup {NoAddr},
                                 owner : Users \cup {NoAddr}]]
      /\ nextPositionID' \in 1..(MaxPositions + 1)
      /\ stake' \in [PoolIds -> [Users -> Nat]]
  <2>1. CASE anId = NO_ID
    <3>1. openPosition(user, worker)
      BY <2>1 DEF beginWork
    <3>2. /\ nextPositionID \in 1..(MaxPositions + 1)
          /\ nextPositionID <= MaxPositions
          /\ MaxPositions \in Nat
          /\ positions \in [Ids -> [worker : Workers \cup {NoAddr},
                                    owner : Users \cup {NoAddr}]]
          /\ stake \in [PoolIds -> [Users -> Nat]]
      BY <1>1, <3>1, Typed, PositionsAssumption DEF openPosition
    <3>3. id \in Ids /\ id = nextPositionID
      BY <2>1, <3>2 DEF Ids
    <3>4. positions' = [positions EXCEPT ![id] =
                          [worker |-> worker, owner |-> user]]
      BY <3>1, <3>3 DEF openPosition
    <3>5. nextPositionID' \in 1..(MaxPositions + 1) /\ stake' = stake
      BY <3>1, <3>2 DEF openPosition
    <3> HIDE DEF id
    <3> QED BY <3>2, <3>3, <3>4, <3>5
  <2>2. CASE anId # NO_ID
    <3>1. reopenPosition(user, worker, anId) /\ id = anId /\ anId \in Ids
      BY <2>2 DEF beginWork
    <3>2. stake' \in [PoolIds -> [Users -> Nat]]
      BY <1>1, <3>1, FairLaunchTypes DEF reopenPosition
    <3> QED BY <1>1, <3>1, <3>2, Typed DEF reopenPosition, positionVars
  <2> QED BY <2>1, <2>2
<1> HIDE DEF id
<1>3. /\ GoodPool(AccruedDebt) /\ AccruedReserve \in Nat
      /\ totalToken(Storage) <= AccruedTotal /\ totalToken(Storage) \in Int
      /\ AccruedTotal = bal + AccruedDebt.vaultDebtVal - AccruedReserve
  BY <1>1, Accrual DEF AccruedTotal
<1>4. /\ debt' = RemoveDebt(AccruedDebt, id)
      /\ reservePool' = AccruedReserve /\ timePast' = 0
      /\ bal' = bal - borrow /\ borrow <= bal
      /\ POSITION_ID' = id /\ STRATEGY' = strategy
      /\ tx' = [NoTx EXCEPT !.kind = "work", !.caller = user, !.id = id,
                            !.debt = owed + borrow, !.maxReturn = maxReturn,
                            !.before = bal - borrow]
      /\ saved' = Storage
      /\ totalSupply' = totalSupply /\ fairLaunchPoolId' = fairLaunchPoolId
  BY DEF beginWork, Wait, id
<1>5. /\ GoodPool(debt') /\ debt' \in DebtPools /\ debt'.debtShare[id] = 0
      /\ debt'.vaultDebtVal = AccruedDebt.vaultDebtVal - owed
      /\ owed \in Nat /\ AccruedDebt.vaultDebtVal \in Nat
  BY <1>2, <1>3, <1>4, Removed
<1> HIDE DEF owed
<1>6. bal \in Nat /\ bal' \in Nat /\ owed + borrow \in Nat
  BY <1>1, <1>4, <1>5, Typed
<1>7. /\ tx' \in Calls /\ tx'.kind = "work" /\ tx'.caller = user
      /\ tx'.id = id /\ tx'.debt = owed + borrow /\ tx'.before = bal'
      /\ tx'.debited = {}
  BY <1>1, <1>2, <1>4, <1>6, ConfigAssumption DEF Calls, NoTx
<1>8. TypeOK'
  BY <1>1, <1>2, <1>3, <1>4, <1>5, <1>6, <1>7 DEF TypeOK, Storage, Storages
<1>9. totalToken(Storage) <=
        bal' + debt'.vaultDebtVal + Outstanding' - reservePool'
  <2>1. Outstanding' = owed + borrow
    BY <1>7 DEF Outstanding
  <2> QED BY <2>1, <1>1, <1>3, <1>4, <1>5, <1>6
<1> QED BY <1>1, <1>2, <1>4, <1>5, <1>7, <1>8, <1>9, Begun

(* The part of addCollateral before the worker is called keeps the inductive invariant. *)
LEMMA BeginAddCollateralInv ==
  ASSUME IInv, NEW user \in Users, NEW strategy \in Strategies, NEW id \in Ids,
         NEW health \in HealthLevels,
         beginAddCollateral(user, strategy, id, health)
  PROVE  IInv'
<1> DEFINE owed == DebtOf(AccruedDebt, id)
<1>1. /\ TypeOK /\ GoodPool(debt) /\ tx.kind = "none" /\ health \in Nat
  BY ConfigAssumption DEF IInv, beginAddCollateral, nonReentrant
<1>2. /\ GoodPool(AccruedDebt) /\ AccruedReserve \in Nat
      /\ totalToken(Storage) <= AccruedTotal /\ totalToken(Storage) \in Int
      /\ AccruedTotal = bal + AccruedDebt.vaultDebtVal - AccruedReserve
  BY <1>1, Accrual DEF AccruedTotal
<1>3. owed \in Nat /\ AccruedDebt \in DebtPools
      /\ AccruedDebt.vaultDebtVal \in Nat /\ bal \in Nat
  BY <1>1, <1>2, DebtBound, Typed DEF GoodPool, DebtPools
<1>4. /\ debt' = AccruedDebt /\ bal' = bal
      /\ reservePool' = AccruedReserve /\ timePast' = 0
      /\ POSITION_ID' = id /\ STRATEGY' = strategy
      /\ positions[id].owner = user /\ positions' = positions
      /\ tx' = [NoTx EXCEPT !.kind = "addCollateral", !.caller = user,
                            !.id = id, !.debt = owed, !.before = bal,
                            !.healthBefore = health]
      /\ saved' = Storage /\ totalSupply' = totalSupply
      /\ UNCHANGED <<nextPositionID, fairLaunchPoolId, stake>>
  BY DEF beginAddCollateral, Wait, positionVars
<1>5. /\ tx' \in Calls /\ tx'.kind = "addCollateral" /\ tx'.caller = user
      /\ tx'.id = id /\ tx'.debt = DebtOf(debt', id) /\ tx'.before = bal'
      /\ tx'.debited = {}
  <2>1. owed = DebtOf(debt', id)
    BY <1>4
  <2> HIDE DEF owed
  <2> QED BY <1>1, <1>3, <1>4, <2>1, ConfigAssumption DEF Calls, NoTx
<1>6. TypeOK'
  BY <1>1, <1>2, <1>3, <1>4, <1>5 DEF TypeOK, Storage, Storages
<1>7. totalToken(Storage) <=
        bal' + debt'.vaultDebtVal + Outstanding' - reservePool'
  <2>1. Outstanding' = 0
    BY <1>5 DEF Outstanding
  <2> QED BY <2>1, <1>1, <1>2, <1>3, <1>4
<1> QED BY <1>1, <1>2, <1>4, <1>5, <1>6, <1>7, Begun

(* The part of kill before the worker is called keeps the inductive invariant. *)
LEMMA BeginKillInv ==
  ASSUME IInv, NEW liquidator \in Users, NEW id \in Ids,
         NEW health \in HealthLevels, beginKill(liquidator, id, health)
  PROVE  IInv'
<1> DEFINE owed == DebtOf(AccruedDebt, id)
<1>1. /\ TypeOK /\ GoodPool(debt) /\ tx.kind = "none"
      /\ fairLaunchPoolId # NoPool /\ POSITION_ID = NO_ID
  BY DEF IInv, beginKill, nonReentrant, AtRest
<1>2. /\ GoodPool(AccruedDebt) /\ AccruedReserve \in Nat
      /\ totalToken(Storage) <= AccruedTotal /\ totalToken(Storage) \in Int
      /\ AccruedTotal = bal + AccruedDebt.vaultDebtVal - AccruedReserve
  BY <1>1, Accrual DEF AccruedTotal
<1>3. /\ debt' = RemoveDebt(AccruedDebt, id) /\ bal' = bal
      /\ reservePool' = AccruedReserve /\ timePast' = 0
      /\ tx' = [NoTx EXCEPT !.kind = "kill", !.caller = liquidator,
                            !.id = id, !.debt = owed, !.before = bal]
      /\ saved' = Storage /\ totalSupply' = totalSupply
      /\ UNCHANGED <<positions, nextPositionID, fairLaunchPoolId, POSITION_ID,
                     STRATEGY>>
  BY DEF beginKill, Wait, positionVars, scopeVars
<1>4. /\ GoodPool(debt') /\ debt' \in DebtPools
      /\ debt'.vaultDebtVal = AccruedDebt.vaultDebtVal - owed
      /\ owed \in Nat /\ AccruedDebt.vaultDebtVal \in Nat
  BY <1>2, <1>3, Removed
<1>5. debt.vaultDebtVal > 0
  <2>1. debt.debtShare[id] > 0
    BY DEF beginKill
  <2>2. debt.vaultDebtShare <= debt.vaultDebtVal
    BY <1>1 DEF GoodPool, ValueCoversShares
  <2> QED BY <1>1, <2>1, <2>2, ShareBound
<1> HIDE DEF owed
<1>6. stake' \in [PoolIds -> [Users -> Nat]]
  BY <1>1, FairLaunchTypes DEF beginKill
<1>7. /\ tx' \in Calls /\ tx'.kind = "kill" /\ tx'.caller = liquidator
      /\ tx'.id = id /\ tx'.debt = owed /\ tx'.before = bal'
      /\ tx'.debited = {} /\ bal \in Nat
  BY <1>1, <1>3, <1>4, Typed, ConfigAssumption DEF Calls, NoTx
<1>8. TypeOK'
  BY <1>1, <1>2, <1>3, <1>4, <1>6, <1>7 DEF TypeOK, Storage, Storages
<1>9. totalToken(Storage) <=
        bal' + debt'.vaultDebtVal + Outstanding' - reservePool'
  <2>1. Outstanding' = owed
    BY <1>7 DEF Outstanding
  <2> QED BY <2>1, <1>2, <1>3, <1>4, <1>7
<1> QED BY <1>1, <1>3, <1>4, <1>5, <1>7, <1>8, <1>9, Begun

-----------------------------------------------------------------------------
(* Calls that end, and what lenders own then. *)

\* A call that ends leaves nothing behind.
LEMMA Ended ==
  ASSUME TypeOK', GoodPool(debt'), tx' = NoTx, saved' = Fresh,
         POSITION_ID' = NO_ID
  PROVE  IInv'
BY DEF IInv, AtRest, OnlyCallerPays, NoTx

(* The storage at deployment and the empty call are of their types. *)
LEMMA FreshTypes == Fresh \in Storages /\ NoTx \in Calls
<1>1. NoDebt \in DebtPools
  BY NoDebtGood DEF GoodPool
<1>2. 1 \in 1..(MaxPositions + 1)
  BY PositionsAssumption
<1> QED BY <1>1, <1>2 DEF Fresh, NoTx, Storages, Calls, NotOpen, NO_ID

\* What the rest of work does: the debt that is not paid back is owed again,
\* and lenders end up with no less than they had.
LEMMA FinishWorkStep ==
  ASSUME IInv, NEW health \in HealthLevels, finishWork(health)
  PROVE  \E left \in Nat :
           /\ GoodPool(debt') /\ TypeOK' /\ bal' \in Nat
           /\ debt' = IF left > 0 THEN AddDebt(debt, tx.id, left) ELSE debt
           /\ left > 0 => left * BPS <= health * WorkFactor
           /\ debt.debtShare[tx.id] = 0
           /\ timePast' = 0 /\ timePast = 0
           /\ totalToken(saved) <= totalToken(Storage')
           /\ totalSupply' = saved.totalSupply
           /\ POSITION_ID' = NO_ID
<1> DEFINE lessDebt == min(tx.debt, min(back, tx.maxReturn))
           left == tx.debt - lessDebt
<1>1. /\ TypeOK /\ GoodPool(debt) /\ Waiting /\ tx.kind = "work"
  BY DEF IInv, finishWork
<1>2. /\ tx.debt \in Nat /\ tx.before \in Nat /\ tx.maxReturn \in Nat
      /\ bal \in Nat /\ tx.before <= bal /\ tx.id \in Ids
      /\ reservePool \in Nat /\ debt.vaultDebtVal \in Nat /\ timePast = 0
      /\ debt.debtShare[tx.id] = 0 /\ totalSupply = saved.totalSupply
      /\ saved \in Storages
  BY <1>1, Typed DEF Waiting, DebtPools
<1>3. back \in Nat /\ back = bal - tx.before
  BY <1>2 DEF back
<1>4. lessDebt \in Nat /\ lessDebt <= tx.debt /\ lessDebt <= back
  BY <1>2, <1>3 DEF min
<1>5. /\ bal' = bal - (back - lessDebt)
      /\ left > 0 => /\ ~Exceeds(left, WorkFactor, health)
                     /\ debt' = AddDebt(debt, tx.id, left)
                     /\ fairLaunchDeposit(positions[tx.id].owner,
                          AddDebt(debt, tx.id, left).debtShare[tx.id])
      /\ ~(left > 0) => debt' = debt /\ stake' = stake
      /\ POSITION_ID' = NO_ID /\ STRATEGY' = NoAddr
      /\ tx' = NoTx /\ saved' = Fresh
      /\ UNCHANGED <<timePast, reservePool, totalSupply, positions,
                     nextPositionID, fairLaunchPoolId>>
  BY DEF finishWork, Return, lenderVars, positionVars
<1> HIDE DEF lessDebt
<1>6. left \in Nat
  BY <1>2, <1>4
<1> HIDE DEF left
<1>7. bal' \in Nat /\ bal' = tx.before + lessDebt /\ left = tx.debt - lessDebt
  BY <1>2, <1>3, <1>4, <1>5 DEF left
<1>8. /\ GoodPool(debt') /\ debt' \in DebtPools
      /\ debt'.vaultDebtVal = debt.vaultDebtVal + left
      /\ AddDebt(debt, tx.id, left).debtShare[tx.id] \in Nat
  <2>1. GoodPool(AddDebt(debt, tx.id, left))
    BY <1>1, <1>2, <1>6, AddDebtGood
  <2>2. AddDebt(debt, tx.id, left).vaultDebtVal = debt.vaultDebtVal + left
    BY DEF AddDebt
  <2>3. AddDebt(debt, tx.id, left).debtShare[tx.id] \in Nat
    BY <2>1, <1>2, ShareBound
  <2>4. ~(left > 0) => left = 0
    BY <1>6
  <2> QED BY <1>1, <1>2, <1>5, <2>1, <2>2, <2>3, <2>4 DEF GoodPool
<1>9. stake' \in [PoolIds -> [Users -> Nat]]
  <2> DEFINE n == AddDebt(debt, tx.id, left).debtShare[tx.id]
             owner == positions[tx.id].owner
  <2>1. n \in Nat /\ stake \in [PoolIds -> [Users -> Nat]]
    BY <1>1, <1>8, Typed
  <2>2. fairLaunchDeposit(owner, n) => stake' \in [PoolIds -> [Users -> Nat]]
    <3> HIDE DEF n, owner
    <3>1. CASE stake' = stake
      BY <2>1, <3>1
    <3>2. CASE stake' = [stake EXCEPT ![fairLaunchPoolId][owner] =
                           stake[fairLaunchPoolId][owner] + n]
      <4>1. CASE fairLaunchPoolId \in PoolIds /\ owner \in Users
        BY <2>1, <3>2, <4>1
      <4>2. CASE ~(fairLaunchPoolId \in PoolIds /\ owner \in Users)
        BY <2>1, <3>2, <4>2
      <4> QED BY <4>1, <4>2
    <3> QED BY <3>1, <3>2 DEF fairLaunchDeposit
  <2> QED BY <1>5, <2>1, <2>2
<1>10. TypeOK'
  <2>1. /\ positions' = positions /\ nextPositionID' = nextPositionID
        /\ fairLaunchPoolId' = fairLaunchPoolId /\ totalSupply' = totalSupply
        /\ reservePool' = reservePool /\ timePast' = timePast
    BY <1>5
  <2> QED BY <1>1, <1>2, <1>5, <1>7, <1>8, <1>9, <2>1, FreshTypes
          DEF TypeOK, Storage, Storages
<1>11. totalToken(saved) <= totalToken(Storage')
  <2>1. totalToken(Storage') = bal' + debt'.vaultDebtVal - reservePool
    BY <1>5 DEF totalToken, Storage
  <2>2. totalToken(saved) \in Int
    BY <1>2 DEF totalToken, Storages, DebtPools
  <2>3. totalToken(saved) <=
          tx.before + debt.vaultDebtVal + tx.debt - reservePool
    BY <1>1 DEF Waiting, Outstanding
  <2> QED BY <2>1, <2>2, <2>3, <1>2, <1>4, <1>7, <1>8
<1>12. left > 0 => left * BPS <= health * WorkFactor
  BY <1>5, <1>6, ConfigAssumption DEF Exceeds
<1>13. debt' = IF left > 0 THEN AddDebt(debt, tx.id, left) ELSE debt
  BY <1>5
<1>14. totalSupply' = saved.totalSupply /\ timePast' = 0
  BY <1>2, <1>5
<1> WITNESS left \in Nat
<1> QED BY <1>2, <1>5, <1>7, <1>8, <1>10, <1>11, <1>12, <1>13, <1>14

(* The part of work after the worker returns keeps the inductive invariant. *)
LEMMA FinishWorkInv ==
  ASSUME IInv, NEW health \in HealthLevels, finishWork(health)
  PROVE  IInv'
BY FinishWorkStep, Ended DEF finishWork, Return

\* The end of addCollateral leaves the debt as it is and returns only when the
\* position is too healthy to kill.
LEMMA FinishAddCollateralStep ==
  ASSUME IInv, NEW health \in HealthLevels, finishAddCollateral(health)
  PROVE  /\ TypeOK' /\ debt' = debt /\ GoodPool(debt')
         /\ tx.debt = DebtOf(debt, tx.id) /\ tx.debt \in Nat /\ tx.id \in Ids
         /\ tx.debt * BPS <= health * KillFactor
         /\ timePast' = 0
         /\ totalToken(saved) <= totalToken(Storage')
         /\ totalSupply' = saved.totalSupply
         /\ POSITION_ID' = NO_ID
<1>1. TypeOK /\ GoodPool(debt) /\ Waiting /\ tx.kind = "addCollateral"
  BY DEF IInv, finishAddCollateral
<1>2. /\ tx.debt \in Nat /\ tx.before \in Nat /\ tx.id \in Ids
      /\ bal \in Nat /\ reservePool \in Nat /\ debt.vaultDebtVal \in Nat
      /\ timePast = 0 /\ totalSupply = saved.totalSupply
      /\ saved \in Storages /\ tx.debt = DebtOf(debt, tx.id)
  BY <1>1, Typed DEF Waiting, DebtPools
<1>3. /\ POSITION_ID' = NO_ID /\ STRATEGY' = NoAddr
      /\ tx' = NoTx /\ saved' = Fresh
      /\ UNCHANGED <<timePast, bal, reservePool, totalSupply, debt, positions,
                     nextPositionID, fairLaunchPoolId, stake>>
      /\ bal = tx.before
      /\ ~Exceeds(tx.debt, KillFactor - Percent, health)
      /\ KillFactor >= Percent
  BY <1>2 DEF finishAddCollateral, Return, lenderVars, positionVars, back
<1>4. TypeOK'
  BY <1>1, <1>3, FreshTypes DEF TypeOK, Storage, Storages
<1>5. tx.debt * BPS <= health * KillFactor
  <2>1. /\ health \in Nat /\ KillFactor \in Nat /\ Percent \in Nat
        /\ BPS \in Nat /\ KillFactor - Percent \in Nat
    BY <1>3, ConfigAssumption
  <2>2. tx.debt * BPS <= health * (KillFactor - Percent)
    BY <2>1, <1>2, <1>3 DEF Exceeds
  <2>3. (KillFactor - Percent) * health <= KillFactor * health
    BY <2>1, Products
  <2> QED BY <2>1, <2>2, <2>3, <1>2
<1>6. totalToken(saved) <= totalToken(Storage')
  <2>1. totalToken(Storage') = bal + debt.vaultDebtVal - reservePool
    BY <1>3 DEF totalToken, Storage
  <2>2. totalToken(saved) \in Int
    BY <1>2 DEF totalToken, Storages, DebtPools
  <2>3. totalToken(saved) <= tx.before + debt.vaultDebtVal + 0 - reservePool
    BY <1>1 DEF Waiting, Outstanding
  <2> QED BY <2>1, <2>2, <2>3, <1>2, <1>3
<1> QED BY <1>1, <1>2, <1>3, <1>4, <1>5, <1>6

(* The end of addCollateral keeps the inductive invariant. *)
LEMMA FinishAddCollateralInv ==
  ASSUME IInv, NEW health \in HealthLevels, finishAddCollateral(health)
  PROVE  IInv'
BY FinishAddCollateralStep, Ended DEF finishAddCollateral, Return

\* The fees of a liquidation are paid out of what it brought in.
LEMMA PrizeBound ==
  ASSUME back \in Nat
  PROVE  prize \in Nat /\ prize <= back
<1> DEFINE p == (back * KillBps) \div BPS
           q == (back * KillTreasuryBps) \div BPS
<1>1. /\ BPS \in Nat \ {0} /\ KillBps \in Nat /\ KillTreasuryBps \in Nat
      /\ KillBps + KillTreasuryBps <= BPS
  BY ConfigAssumption
<1>2. back * KillBps \in Nat /\ back * KillTreasuryBps \in Nat
  BY <1>1
<1>3. /\ p \in Nat /\ BPS * p <= back * KillBps
      /\ q \in Nat /\ BPS * q <= back * KillTreasuryBps
  BY <1>1, <1>2, Division
<1> HIDE DEF p, q
<1>4. (KillBps + KillTreasuryBps) * back <= BPS * back
  BY <1>1, Products
<1>5. BPS * (p + q) <= BPS * back
  BY <1>1, <1>3, <1>4
<1>6. p + q <= back
  BY <1>1, <1>3, <1>5, Cancel
<1> QED BY <1>3, <1>6 DEF prize, p, q

\* What the rest of kill does: lenders lose what the liquidation did not
\* bring in of the debt, and nothing else.
LEMMA FinishKillStep ==
  ASSUME IInv, finishKill
  PROVE  /\ TypeOK' /\ debt' = debt /\ GoodPool(debt')
         /\ rest \in Nat /\ tx.debt \in Nat
         /\ totalToken(saved) <=
              totalToken(Storage') + (IF rest < tx.debt THEN tx.debt - rest
                                      ELSE 0)
         /\ totalSupply' = saved.totalSupply
         /\ POSITION_ID' = NO_ID
         /\ saved.debt.vaultDebtVal > 0
<1>1. TypeOK /\ GoodPool(debt) /\ Waiting /\ tx.kind = "kill"
  BY DEF IInv, finishKill
<1>2. /\ tx.debt \in Nat /\ tx.before \in Nat /\ tx.before <= bal
      /\ bal \in Nat /\ reservePool \in Nat /\ debt.vaultDebtVal \in Nat
      /\ timePast = 0 /\ totalSupply = saved.totalSupply
      /\ saved \in Storages /\ saved.debt.vaultDebtVal > 0
  BY <1>1, Typed DEF Waiting, DebtPools
<1>3. POSITION_ID = NO_ID
  BY <1>1 DEF IInv, OnlyCallerPays
<1>4. back \in Nat /\ back = bal - tx.before
  BY <1>2 DEF back
<1>5. prize \in Nat /\ prize <= back
  BY <1>4, PrizeBound
<1> DEFINE left == IF rest > tx.debt THEN rest - tx.debt ELSE 0
<1>6. rest \in Nat /\ rest = back - prize
  BY <1>4, <1>5 DEF rest
<1>7. /\ bal' = bal - prize - left
      /\ tx' = NoTx /\ saved' = Fresh
      /\ UNCHANGED <<timePast, reservePool, totalSupply, debt, positions,
                     nextPositionID, fairLaunchPoolId, stake, POSITION_ID,
                     STRATEGY>>
  BY DEF finishKill, Return, lenderVars, positionVars, scopeVars
<1>8. left \in Nat /\ left <= rest
  BY <1>2, <1>6
<1> DEFINE kept == rest - left
<1>9. kept \in Nat /\ bal' = tx.before + kept /\ bal' \in Nat
  BY <1>2, <1>4, <1>5, <1>6, <1>7, <1>8
<1>10. kept = IF rest < tx.debt THEN rest ELSE tx.debt
  BY <1>2, <1>6
<1> HIDE DEF left, kept
<1>11. TypeOK'
  BY <1>1, <1>7, <1>9, FreshTypes DEF TypeOK, Storage, Storages
<1>12. totalToken(saved) <=
         totalToken(Storage') + (IF rest < tx.debt THEN tx.debt - rest ELSE 0)
  <2>1. totalToken(Storage') = bal' + debt.vaultDebtVal - reservePool
    BY <1>7 DEF totalToken, Storage
  <2>2. totalToken(saved) \in Int
    BY <1>2 DEF totalToken, Storages, DebtPools
  <2>3. totalToken(saved) <=
          tx.before + debt.vaultDebtVal + tx.debt - reservePool
    BY <1>1 DEF Waiting, Outstanding
  <2> QED BY <2>1, <2>2, <2>3, <1>2, <1>6, <1>9, <1>10
<1> QED BY <1>1, <1>2, <1>3, <1>6, <1>7, <1>11, <1>12

(* The end of kill keeps the inductive invariant. *)
LEMMA FinishKillInv ==
  ASSUME IInv, finishKill
  PROVE  IInv'
BY FinishKillStep, Ended DEF finishKill, Return

(* A reverted call leaves the storage it began with, and the invariant with it. *)
LEMMA RevertStep ==
  ASSUME IInv, Revert
  PROVE  /\ Storage' = saved /\ IInv' /\ tx.kind # "none"
<1>1. TypeOK /\ tx # NoTx
  BY DEF IInv, Revert
<1>2. tx.kind # "none"
  BY <1>1 DEF IInv, AtRest
<1>3. Waiting /\ saved \in Storages
  BY <1>1, <1>2 DEF IInv, TypeOK
<1>4. Storage' = saved
  BY <1>3 DEF Revert, Storage, Storages
<1>5. GoodPool(debt') /\ POSITION_ID' = NO_ID
  BY <1>3 DEF Waiting, Revert
<1>6. TypeOK'
  BY <1>3, <1>4, FreshTypes DEF TypeOK, Revert, Return
<1> QED BY <1>2, <1>4, <1>5, <1>6, Ended DEF Revert, Return
-----------------------------------------------------------------------------
(* The inductive invariant holds at deployment. *)
LEMMA InitInv == Init => IInv
<1> SUFFICES ASSUME Init PROVE IInv
  OBVIOUS
<1>1. Storage = Fresh
  BY DEF Init, Storage, Fresh
<1>2. TypeOK
  BY <1>1, FreshTypes DEF Init, TypeOK
<1>3. GoodPool(debt)
  BY NoDebtGood DEF Init
<1>4. tx.kind = "none" /\ AtRest /\ OnlyCallerPays
  BY DEF Init, AtRest, NoTx, OnlyCallerPays
<1> QED BY <1>2, <1>3, <1>4 DEF IInv

(* Every step of the vault keeps the inductive invariant. *)
LEMMA StepInv == IInv /\ [Next]_vars => IInv'
<1> SUFFICES ASSUME IInv, [Next]_vars PROVE IInv'
  OBVIOUS
<1>1. CASE UNCHANGED vars
  BY <1>1 DEF IInv, vars, TypeOK, Storage, OnlyCallerPays, AtRest, Waiting,
              totalToken, Outstanding
<1>2. CASE \E amount \in Amounts : deposit(amount) \/ receiveToken(amount)
  BY <1>2, DepositInv, ReceiveTokenInv
<1>3. CASE \E share \in 1..MaxSupply : withdraw(share)
  BY <1>3, WithdrawInv
<1>4. CASE \E value \in 1..MaxToken :
             withdrawReserve(value) \/ reduceReserve(value)
  BY <1>4, WithdrawReserveInv, ReduceReserveInv
<1>5. CASE \E pid \in PoolIds : setFairLaunchPoolId(pid)
  BY <1>5, SetFairLaunchPoolIdInv
<1>6. CASE \E user \in Users, worker \in Workers, strategy \in Strategies,
              id \in Ids \cup {NO_ID}, borrow \in Amounts \cup {0},
              maxReturn \in MaxReturns :
             beginWork(user, worker, strategy, id, borrow, maxReturn)
  BY <1>6, BeginWorkInv
<1>7. CASE \E user \in Users, strategy \in Strategies, id \in Ids,
              health \in HealthLevels :
             beginAddCollateral(user, strategy, id, health)
  BY <1>7, BeginAddCollateralInv
<1>8. CASE \E liquidator \in Users, id \in Ids, health \in HealthLevels :
             beginKill(liquidator, id, health)
  BY <1>8, BeginKillInv
<1>9. CASE \E health \in HealthLevels :
             finishWork(health) \/ finishAddCollateral(health)
  BY <1>9, FinishWorkInv, FinishAddCollateralInv
<1>10. CASE finishKill
  BY <1>10, FinishKillInv
<1>11. CASE \E sender \in Strategies : requestFunds(sender)
  BY <1>11, RequestFundsInv
<1>12. CASE Tick
  BY <1>12, TickInv
<1>13. CASE Revert
  BY <1>13, RevertStep
<1> QED BY <1>1, <1>2, <1>3, <1>4, <1>5, <1>6, <1>7, <1>8, <1>9, <1>10, <1>11,
           <1>12, <1>13 DEF Next

\* IInv holds in every reachable state of every vault.
THEOREM Invariance == Spec => []IInv
BY InitInv, StepInv, PTL DEF Spec

\* Type correctness: no balance, reserve, supply or debt goes below zero.
THEOREM TypeCorrect == Spec => []TypeOK
<1>1. IInv => TypeOK
  BY DEF IInv
<1> QED BY <1>1, Invariance, PTL

\* The three slots _addDebt and _removeDebt write stay in step.
THEOREM DebtSharesAlwaysAgree == Spec => []DebtSharesAgree
<1>1. IInv => DebtSharesAgree
  BY DEF IInv, GoodPool, DebtSharesAgree
<1> QED BY <1>1, Invariance, PTL

\* The conversions never divide by zero and never mint debt from nothing.
THEOREM DebtPoolAlwaysSound == Spec => []DebtPoolSound
<1>1. IInv => DebtPoolSound
  BY DEF IInv, GoodPool, DebtPoolSound
<1> QED BY <1>1, Invariance, PTL

\* requestFunds takes from nobody but the account that made the call.
THEOREM OnlyCallerEverPays == Spec => []OnlyCallerPays
<1>1. IInv => OnlyCallerPays
  BY DEF IInv
<1> QED BY <1>1, Invariance, PTL

-----------------------------------------------------------------------------
(* What a step may not do. *)

\* Right after a call nothing has accrued yet.
LEMMA NothingAccrued ==
  ASSUME TypeOK', debt' \in DebtPools, timePast' = 0
  PROVE  AccruedDebt' = debt'
<1> DEFINE rate == getInterestRate(debt'.vaultDebtVal, bal')
<1>1. debt'.vaultDebtVal \in Nat /\ bal' \in Nat /\ WAD \in Nat \ {0}
  BY InterestAssumption DEF TypeOK, Storage, Storages, DebtPools
<1>2. rate \in Nat
  BY <1>1, RateNat
<1>3. pendingInterest' = (rate * debt'.vaultDebtVal * 0) \div WAD
  BY DEF pendingInterest
<1> HIDE DEF rate
<1>4. rate * debt'.vaultDebtVal * 0 = 0 /\ 0 \div WAD = 0
  BY <1>1, <1>2
<1>5. pendingInterest' = 0
  BY <1>3, <1>4
<1>6. AccruedDebt' = [debt' EXCEPT !.vaultDebtVal = debt'.vaultDebtVal + 0]
  BY <1>5 DEF AccruedDebt, AddInterest
<1> QED BY <1>1, <1>6 DEF DebtPools

\* A debt within a factor of the health is within every larger factor.
LEMMA LargerFactor ==
  ASSUME NEW val \in Nat, NEW owed \in Nat, NEW health \in Nat, owed <= val,
         NEW f \in Nat, NEW g \in Nat, f <= g, val * BPS <= health * f
  PROVE  ~Exceeds(owed, g, health)
<1>1. BPS \in Nat
  BY ConfigAssumption
<1>2. owed * BPS <= val * BPS /\ f * health <= g * health
  BY <1>1, Products
<1> QED BY <1>1, <1>2 DEF Exceeds

\* The owner's own call never leaves a position that can be killed: what work
\* checks before the debt is shared out (_addDebt) covers
\* what kill reads back from the share, for WorkFactor <= KillFactor.
THEOREM OwnCallsLeaveNothingToKill == Spec => NoInstantKill
<1>1. ASSUME IInv, NEW health \in HealthLevels, finishWork(health)
      PROVE  ~Exceeds(DebtOf(AccruedDebt', tx.id), KillFactor, health)
  <2>1. PICK left \in Nat :
           /\ GoodPool(debt') /\ TypeOK' /\ timePast' = 0
           /\ debt' = IF left > 0 THEN AddDebt(debt, tx.id, left) ELSE debt
           /\ left > 0 => left * BPS <= health * WorkFactor
           /\ debt.debtShare[tx.id] = 0
    BY <1>1, FinishWorkStep
  <2>2. GoodPool(debt) /\ tx.id \in Ids /\ debt' \in DebtPools
    BY <1>1, <2>1 DEF IInv, Waiting, finishWork, GoodPool
  <2>3. AccruedDebt' = debt'
    BY <2>1, <2>2, NothingAccrued
  <2>4. DebtOf(debt', tx.id) <= left
    <3>1. CASE left > 0
      BY <2>1, <2>2, <3>1, RoundTrip
    <3>2. CASE ~(left > 0)
      <4>1. debt' = debt /\ debt.debtShare[tx.id] = 0 /\ left = 0
        BY <2>1, <3>2
      <4>2. debt.vaultDebtShare \in Nat /\ debt.vaultDebtVal \in Nat
        BY <2>2 DEF GoodPool, DebtPools
      <4>3. /\ 0 * debt.vaultDebtVal = 0
            /\ debt.vaultDebtShare # 0 => 0 \div debt.vaultDebtShare = 0
        BY <4>2
      <4> QED BY <4>1, <4>3 DEF DebtOf, debtShareToVal
    <3> QED BY <3>1, <3>2
  <2>5. DebtOf(debt', tx.id) \in Nat
    BY <2>1, <2>2, DebtBound
  <2>6. left * BPS <= health * WorkFactor
    BY <2>1, ConfigAssumption
  <2> QED BY <2>3, <2>4, <2>5, <2>6, ConfigAssumption, LargerFactor
<1>2. ASSUME IInv, NEW health \in HealthLevels, finishAddCollateral(health)
      PROVE  ~Exceeds(DebtOf(AccruedDebt', tx.id), KillFactor, health)
  <2>1. /\ TypeOK' /\ debt' = debt /\ GoodPool(debt') /\ timePast' = 0
        /\ tx.debt = DebtOf(debt, tx.id) /\ tx.debt \in Nat
        /\ tx.debt * BPS <= health * KillFactor
    BY <1>2, FinishAddCollateralStep
  <2>2. AccruedDebt' = debt'
    BY <2>1, NothingAccrued DEF GoodPool
  <2>3. DebtOf(AccruedDebt', tx.id) = tx.debt
    BY <2>1, <2>2
  <2>4. health \in Nat /\ KillFactor \in Nat /\ KillFactor <= KillFactor
        /\ tx.debt <= tx.debt
    BY <2>1, ConfigAssumption
  <2>5. ~Exceeds(tx.debt, KillFactor, health)
    BY <2>1, <2>4, LargerFactor
  <2> QED BY <2>3, <2>5
<1>3. IInv =>
        [\A health \in HealthLevels :
           (finishWork(health) \/ finishAddCollateral(health)) =>
             ~Exceeds(DebtOf(AccruedDebt', tx.id), KillFactor, health)]_vars
  BY <1>1, <1>2
<1> QED BY <1>3, Invariance, PTL DEF NoInstantKill

-----------------------------------------------------------------------------
(* What lenders see: the pool that is committed. *)

Total == totalToken(Committed)
Supply == Committed.totalSupply
Lent == Committed.debt.vaultDebtVal

(* The lenders' view of the vault is made of numbers. *)
LEMMA LenderTypes ==
  /\ TypeOK => Total \in Int /\ Supply \in Nat /\ Lent \in Nat
  /\ TypeOK' => Total' \in Int /\ Supply' \in Nat /\ Lent' \in Nat
<1>1. ASSUME NEW s \in Storages
      PROVE  /\ totalToken(s) \in Int /\ s.totalSupply \in Nat
             /\ s.debt.vaultDebtVal \in Nat
  BY DEF totalToken, Storages, DebtPools
<1>2. TypeOK => Committed \in Storages
  BY DEF TypeOK, Committed
<1>3. TypeOK' => Committed' \in Storages
  BY DEF TypeOK, Committed
<1>4. /\ Total' = totalToken(Committed') /\ Supply' = Committed'.totalSupply
      /\ Lent' = Committed'.debt.vaultDebtVal
  BY DEF Total, Supply, Lent, totalToken
<1> QED BY <1>1, <1>2, <1>3, <1>4 DEF Total, Supply, Lent

\* A transaction that calls no worker is committed at once.
LEMMA AtOnce ==
  ASSUME IInv, tx.kind = "none", tx' = tx
  PROVE  /\ Committed = Storage /\ Committed' = Storage'
         /\ Total = bal + debt.vaultDebtVal - reservePool
         /\ Total' = bal' + debt'.vaultDebtVal - reservePool'
         /\ Supply = totalSupply /\ Supply' = totalSupply'
<1>1. Committed = Storage /\ Committed' = Storage'
  BY DEF IInv, AtRest, Committed
<1> QED BY <1>1 DEF Total, Supply, totalToken, Storage

\* While a call waits nothing is committed.
LEMMA NotYet ==
  ASSUME IInv, tx.kind # "none", tx'.kind # "none", saved' = saved
  PROVE  Total' = Total /\ Supply' = Supply
<1>1. Committed = saved /\ Committed' = saved'
  BY DEF Committed, NoTx
<1> QED BY <1>1 DEF Total, Supply, totalToken

\* A call that begins has committed nothing.
LEMMA BegunUnseen ==
  ASSUME IInv, tx.kind = "none", tx'.kind # "none", saved' = Storage
  PROVE  Total' = Total /\ Supply' = Supply
<1>1. Committed = Storage /\ Committed' = saved'
  BY DEF IInv, AtRest, Committed, NoTx
<1> QED BY <1>1 DEF Total, Supply, totalToken

\* What a call did is committed when it ends.
LEMMA EndSeen ==
  ASSUME IInv, tx.kind # "none", tx' = NoTx
  PROVE  /\ Committed = saved /\ Committed' = Storage'
         /\ Total = totalToken(saved) /\ Total' = totalToken(Storage')
         /\ Supply = saved.totalSupply /\ Supply' = totalSupply'
         /\ Lent = saved.debt.vaultDebtVal
<1>1. Committed = saved /\ Committed' = Storage'
  BY DEF Committed, NoTx
<1> QED BY <1>1 DEF Total, Supply, Lent, totalToken, Storage

Bought(amount, t) == IF t = 0 THEN amount ELSE (amount * Supply) \div t
Redeemed(share, t) == (share * t) \div Supply

\* A deposit of the vault is a deposit of the lending pool, after interest that
\* only raised the total.
LEMMA DepositSeen ==
  ASSUME IInv, NEW amount \in Amounts, deposit(amount)
  PROVE  \E t \in Nat : /\ Total <= t /\ Total' = t + amount
                        /\ Supply' = Supply + Bought(amount, t)
<1>1. TypeOK /\ GoodPool(debt) /\ tx.kind = "none" /\ amount \in Nat
  BY ConfigAssumption DEF IInv, deposit, nonReentrant
<1>2. AccruedTotal \in Nat /\ totalToken(Storage) <= AccruedTotal
  BY <1>1, Accrual DEF deposit
<1>3. /\ AccruedTotal = bal + AccruedDebt.vaultDebtVal - AccruedReserve
      /\ AccruedDebt.vaultDebtVal \in Nat /\ AccruedReserve \in Nat
  BY <1>1, Accrual DEF AccruedTotal, GoodPool, DebtPools
<1>4. /\ bal' = bal + amount /\ debt' = AccruedDebt
      /\ reservePool' = AccruedReserve
      /\ totalSupply' = totalSupply +
           (IF AccruedTotal = 0 THEN amount
            ELSE (amount * totalSupply) \div AccruedTotal)
      /\ tx' = tx
  BY DEF deposit
<1>5. Total = totalToken(Storage) /\ Supply = totalSupply
  BY <1>1, <1>4, AtOnce DEF Total
<1>6. Total' = AccruedTotal + amount
  BY <1>1, <1>3, <1>4, AtOnce, Typed
<1>7. Supply' = Supply + Bought(amount, AccruedTotal)
  BY <1>1, <1>4, <1>5, AtOnce DEF Bought
<1> QED BY <1>2, <1>5, <1>6, <1>7

\* A withdrawal of the vault is a withdrawal of the lending pool, after
\* interest that only raised the total.
LEMMA WithdrawSeen ==
  ASSUME IInv, NEW share \in 1..MaxSupply, withdraw(share)
  PROVE  \E t \in Nat : /\ Total <= t
                        /\ share \in 1..Supply
                        /\ Total' = t - Redeemed(share, t)
                        /\ Supply' = Supply - share
<1>1. TypeOK /\ GoodPool(debt) /\ tx.kind = "none" /\ share \in Nat
  BY DEF IInv, withdraw, nonReentrant
<1>2. AccruedTotal \in Nat /\ totalToken(Storage) <= AccruedTotal
  BY <1>1, Accrual DEF withdraw
<1>3. /\ AccruedTotal = bal + AccruedDebt.vaultDebtVal - AccruedReserve
      /\ AccruedDebt.vaultDebtVal \in Nat /\ AccruedReserve \in Nat
  BY <1>1, Accrual DEF AccruedTotal, GoodPool, DebtPools
<1>4. /\ bal' = bal - (share * AccruedTotal) \div totalSupply
      /\ debt' = AccruedDebt /\ reservePool' = AccruedReserve
      /\ totalSupply' = totalSupply - share /\ share <= totalSupply
      /\ tx' = tx
  BY DEF withdraw
<1>5. Total = totalToken(Storage) /\ Supply = totalSupply /\ Supply \in Nat
  BY <1>1, <1>4, AtOnce, LenderTypes DEF Total
<1>6. Redeemed(share, AccruedTotal) \in Nat
  <2>1. share * AccruedTotal \in Nat /\ Supply \in Nat \ {0}
    BY <1>1, <1>2, <1>4, <1>5
  <2> QED BY <2>1, Division DEF Redeemed
<1>7. bal' = bal - Redeemed(share, AccruedTotal)
  BY <1>4, <1>5 DEF Redeemed
<1>8. Total' = AccruedTotal - Redeemed(share, AccruedTotal)
  BY <1>1, <1>3, <1>4, <1>6, <1>7, AtOnce, Typed
<1>9. Supply' = Supply - share /\ share \in 1..Supply
  BY <1>1, <1>4, <1>5, AtOnce
<1> QED BY <1>2, <1>5, <1>8, <1>9

\* A step that trades no shares and closes no loan early takes nothing.
Gain == Total <= Total' /\ Supply' = Supply

\* A liquidation that brings in less than the debt.
Loss ==
  /\ tx.kind = "kill" /\ finishKill /\ rest < tx.debt
  /\ Total <= Total' + (tx.debt - rest)
  /\ Supply' = Supply /\ Lent > 0

\* Steps in which nobody trades ibToken.
LEMMA OtherSteps ==
  ASSUME IInv, Next,
         ~ \E amount \in Amounts : deposit(amount),
         ~ \E share \in 1..MaxSupply : withdraw(share)
  PROVE  Gain \/ Loss
<1> USE DEF Gain
<1>1. /\ TypeOK /\ Total \in Int
      /\ bal \in Nat /\ reservePool \in Nat /\ debt.vaultDebtVal \in Nat
  BY LenderTypes, Typed DEF IInv, DebtPools
<1>2. ASSUME NEW amount \in Amounts, receiveToken(amount) PROVE Gain
  <2>1. amount \in Nat /\ bal' = bal + amount /\ tx' = tx /\ saved' = saved
        /\ debt' = debt /\ reservePool' = reservePool
        /\ totalSupply' = totalSupply
    BY <1>2, ConfigAssumption DEF receiveToken, lenderVars
  <2> QED BY <1>1, <2>1, AtOnce, NotYet
<1>3. ASSUME NEW value \in 1..MaxToken, withdrawReserve(value) PROVE Gain
  <2>1. /\ value \in Nat /\ bal' = bal - value /\ tx' = tx
        /\ debt' = debt /\ reservePool' = reservePool - value
        /\ totalSupply' = totalSupply /\ tx.kind = "none"
    BY <1>3 DEF withdrawReserve, nonReentrant
  <2> QED BY <1>1, <2>1, AtOnce
<1>4. ASSUME NEW value \in 1..MaxToken, reduceReserve(value) PROVE Gain
  <2>1. /\ value \in Nat /\ bal' = bal /\ tx' = tx /\ saved' = saved
        /\ debt' = debt /\ reservePool' = reservePool - value
        /\ totalSupply' = totalSupply
    BY <1>4 DEF reduceReserve
  <2> QED BY <1>1, <2>1, AtOnce, NotYet
<1>5. ASSUME NEW pid \in PoolIds, setFairLaunchPoolId(pid) PROVE Gain
  <2>1. UNCHANGED <<bal, debt, reservePool, totalSupply, tx, saved>>
    BY <1>5 DEF setFairLaunchPoolId, lenderVars
  <2> QED BY <1>1, <2>1, AtOnce, NotYet
<1>6. ASSUME Tick PROVE Gain
  <2>1. UNCHANGED <<bal, debt, reservePool, totalSupply, tx>>
        /\ tx.kind = "none"
    BY <1>6 DEF Tick, lenderVars, nonReentrant
  <2> QED BY <1>1, <2>1, AtOnce
<1>7. ASSUME NEW user \in Users, NEW worker \in Workers,
             NEW strategy \in Strategies, NEW id \in Ids \cup {NO_ID},
             NEW borrow \in Amounts \cup {0}, NEW maxReturn \in MaxReturns,
             beginWork(user, worker, strategy, id, borrow, maxReturn)
      PROVE  Gain
  <2>1. tx.kind = "none" /\ tx'.kind = "work" /\ saved' = Storage
    BY <1>7 DEF beginWork, Wait, nonReentrant, NoTx
  <2> QED BY <1>1, <2>1, BegunUnseen
<1>8. ASSUME NEW user \in Users, NEW strategy \in Strategies, NEW id \in Ids,
             NEW health \in HealthLevels,
             beginAddCollateral(user, strategy, id, health)
      PROVE  Gain
  <2>1. tx.kind = "none" /\ tx'.kind = "addCollateral" /\ saved' = Storage
    BY <1>8 DEF beginAddCollateral, Wait, nonReentrant, NoTx
  <2> QED BY <1>1, <2>1, BegunUnseen
<1>9. ASSUME NEW liquidator \in Users, NEW id \in Ids,
             NEW health \in HealthLevels, beginKill(liquidator, id, health)
      PROVE  Gain
  <2>1. tx.kind = "none" /\ tx'.kind = "kill" /\ saved' = Storage
    BY <1>9 DEF beginKill, Wait, nonReentrant, NoTx
  <2> QED BY <1>1, <2>1, BegunUnseen
<1>10. ASSUME NEW health \in HealthLevels, finishWork(health) PROVE Gain
  <2>1. tx.kind # "none" /\ tx' = NoTx
    BY <1>10 DEF finishWork, Return
  <2>2. totalToken(saved) <= totalToken(Storage') /\
        totalSupply' = saved.totalSupply
    BY <1>10, FinishWorkStep
  <2> QED BY <2>1, <2>2, EndSeen
<1>11. ASSUME NEW health \in HealthLevels, finishAddCollateral(health)
       PROVE  Gain
  <2>1. tx.kind # "none" /\ tx' = NoTx
    BY <1>11 DEF finishAddCollateral, Return
  <2>2. totalToken(saved) <= totalToken(Storage') /\
        totalSupply' = saved.totalSupply
    BY <1>11, FinishAddCollateralStep
  <2> QED BY <2>1, <2>2, EndSeen
<1>12. ASSUME finishKill PROVE Gain \/ Loss
  <2>1. tx.kind = "kill" /\ tx' = NoTx
    BY <1>12 DEF finishKill, Return
  <2>2. /\ TypeOK' /\ rest \in Nat /\ tx.debt \in Nat
        /\ totalToken(saved) <=
             totalToken(Storage') + (IF rest < tx.debt THEN tx.debt - rest
                                     ELSE 0)
        /\ totalSupply' = saved.totalSupply
        /\ saved.debt.vaultDebtVal > 0
    BY <1>12, FinishKillStep
  <2>3. /\ Total = totalToken(saved) /\ Total' = totalToken(Storage')
        /\ Supply' = Supply /\ Lent > 0
    BY <2>1, <2>2, EndSeen
  <2>4. Total' \in Int
    BY <2>2, LenderTypes
  <2>5. CASE rest < tx.debt
    BY <1>12, <2>1, <2>2, <2>3, <2>5 DEF Loss
  <2>6. CASE ~(rest < tx.debt)
    BY <2>2, <2>3, <2>4, <2>6
  <2> QED BY <2>5, <2>6
<1>13. ASSUME NEW sender \in Strategies, requestFunds(sender) PROVE Gain
  <2>1. tx.kind # "none" /\ tx \in Calls
    BY <1>13 DEF requestFunds, IInv, AtRest, TypeOK
  <2>2. tx'.kind = tx.kind /\ saved' = saved
    BY <1>13, <2>1 DEF requestFunds, Calls
  <2> QED BY <1>1, <2>1, <2>2, NotYet
<1>14. ASSUME Revert PROVE Gain
  <2>1. Storage' = saved /\ tx.kind # "none" /\ tx' = NoTx
    BY <1>14, RevertStep DEF Revert, Return
  <2>2. Total' = Total /\ Supply' = Supply
    BY <2>1, EndSeen DEF Storage
  <2> QED BY <1>1, <2>2
<1> QED BY <1>2, <1>3, <1>4, <1>5, <1>6, <1>7, <1>8, <1>9, <1>10, <1>11, <1>12,
           <1>13, <1>14 DEF Next

(* Multiplying by a natural number keeps the order of integers. *)
LEMMA IntProducts ==
  ASSUME NEW a \in Int, NEW b \in Int, NEW c \in Nat, a <= b
  PROVE  a * c \in Int /\ b * c \in Int /\ a * c <= b * c
OBVIOUS

(* Adding a natural number to the larger side keeps the order. *)
LEMMA Slack ==
  ASSUME NEW a \in Int, NEW b \in Int, NEW m \in Nat, a <= b
  PROVE  a <= b + m
OBVIOUS

\* Shares bought at the price of t tokens for s shares lower it for nobody who
\* held shares when they were worth T <= t.
LEMMA FairPurchase ==
  ASSUME NEW T \in Int, NEW t \in Nat, NEW s \in Nat, NEW amount \in Nat,
         NEW n \in Nat, n = IF t = 0 THEN amount ELSE (amount * s) \div t,
         T <= t
  PROVE  T * (s + n) <= (t + amount) * s
<1>1. T * (s + n) \in Int /\ T * (s + n) <= t * (s + n)
  BY IntProducts
<1>2. t * n <= amount * s
  <2>1. amount * s \in Nat
    OBVIOUS
  <2>2. CASE t = 0
    BY <2>1, <2>2
  <2>3. CASE t # 0
    BY <2>1, <2>3, Division
  <2> QED BY <2>2, <2>3
<1>3. t * (s + n) = t * s + t * n /\ (t + amount) * s = t * s + amount * s
  OBVIOUS
<1>4. t * s \in Nat /\ t * n \in Nat /\ amount * s \in Nat
  OBVIOUS
<1> QED BY <1>1, <1>2, <1>3, <1>4

\* Shares redeemed at that price do not lower it either.
LEMMA FairRedemption ==
  ASSUME NEW T \in Int, NEW t \in Nat, NEW s \in Nat, NEW share \in 1..s,
         T <= t
  PROVE  /\ (share * t) \div s \in Nat
         /\ T * (s - share) <= (t - (share * t) \div s) * s
<1> DEFINE q == (share * t) \div s
<1>1. share \in Nat /\ s \in Nat \ {0} /\ share * t \in Nat /\ s - share \in Nat
  OBVIOUS
<1>2. q \in Nat /\ s * q <= share * t
  BY <1>1, Division
<1> HIDE DEF q
<1>3. T * (s - share) \in Int /\ T * (s - share) <= t * (s - share)
  BY <1>1, IntProducts
<1>4. t * (s - share) = t * s - share * t /\ (t - q) * s = t * s - s * q
  BY <1>1, <1>2
<1>5. t * s \in Nat /\ s * q \in Nat
  BY <1>1, <1>2
<1>6. T * (s - share) <= (t - q) * s
  BY <1>1, <1>2, <1>3, <1>4, <1>5
<1> QED BY <1>2, <1>6 DEF q

\* An ibToken never loses value but to a liquidation that does not bring in
\* the debt, and then no more than what is missing (deposit, withdraw, accrue,
\* work, addCollateral, kill, withdrawReserve, reduceReserve, a failed call).
THEOREM LenderSharesHoldTheirValue == Spec => LenderShareNeverFalls
<1> DEFINE missing == IF tx.kind = "kill" /\ finishKill /\ rest < tx.debt
                      THEN tx.debt - rest ELSE 0
           Holds == Total * Supply' <= (Total' + missing) * Supply
<1>1. ASSUME IInv, IInv', [Next]_vars
      PROVE  [Holds]_vars
  <2>1. /\ Total \in Int /\ Supply \in Nat /\ Lent \in Nat
        /\ Total' \in Int /\ Supply' \in Nat
    BY <1>1, LenderTypes DEF IInv
  <2>2. missing \in Nat
    <3>1. finishKill => rest \in Nat /\ tx.debt \in Nat
      BY <1>1, FinishKillStep
    <3> QED BY <3>1
  <2>3. CASE \E amount \in Amounts : deposit(amount)
    <3>1. PICK amount \in Amounts : deposit(amount)
      BY <2>3
    <3>2. PICK t \in Nat : /\ Total <= t /\ Total' = t + amount
                           /\ Supply' = Supply + Bought(amount, t)
      BY <1>1, <3>1, DepositSeen
    <3>3. amount \in Nat
      BY ConfigAssumption
    <3>4. Bought(amount, t) \in Nat
      <4>1. amount * Supply \in Nat
        BY <2>1, <3>3
      <4>2. t # 0 => (amount * Supply) \div t \in Nat
        BY <4>1, Division
      <4> QED BY <3>3, <4>2 DEF Bought
    <3>5. Total * (Supply + Bought(amount, t)) <= (t + amount) * Supply
      BY <2>1, <3>2, <3>3, <3>4, FairPurchase DEF Bought
    <3>6. tx.kind = "none"
      BY <3>1 DEF deposit, nonReentrant
    <3>7. missing = 0
      BY <3>6
    <3> QED BY <2>1, <3>2, <3>5, <3>7
  <2>4. CASE \E share \in 1..MaxSupply : withdraw(share)
    <3>1. PICK share \in 1..MaxSupply : withdraw(share)
      BY <2>4
    <3>2. PICK t \in Nat : /\ Total <= t /\ share \in 1..Supply
                           /\ Total' = t - Redeemed(share, t)
                           /\ Supply' = Supply - share
      BY <1>1, <3>1, WithdrawSeen
    <3>3. Total * (Supply - share) <= (t - Redeemed(share, t)) * Supply
      BY <2>1, <3>2, FairRedemption DEF Redeemed
    <3>4. tx.kind = "none"
      BY <3>1 DEF withdraw, nonReentrant
    <3>5. missing = 0
      BY <3>4
    <3> QED BY <2>1, <3>2, <3>3, <3>5
  <2>5. CASE /\ Next
             /\ ~ \E amount \in Amounts : deposit(amount)
             /\ ~ \E share \in 1..MaxSupply : withdraw(share)
    <3>1. Gain \/ Loss
      BY <1>1, <2>5, OtherSteps
    <3>2. Supply' = Supply /\ Total <= Total' + missing
      <4>1. CASE Gain
        <5>1. Supply' = Supply /\ Total <= Total'
          BY <4>1 DEF Gain
        <5> HIDE DEF missing
        <5> QED BY <2>1, <2>2, <5>1, Slack
      <4>2. CASE Loss
        <5>1. tx.kind = "kill" /\ finishKill /\ rest < tx.debt
          BY <4>2 DEF Loss
        <5>2. missing = tx.debt - rest
          BY <5>1
        <5> HIDE DEF missing
        <5> QED BY <4>2, <5>2 DEF Loss
      <4> QED BY <3>1, <4>1, <4>2
    <3> HIDE DEF missing
    <3>3. Total' + missing \in Int
      BY <2>1, <2>2
    <3>4. Total * Supply <= (Total' + missing) * Supply
      BY <2>1, <3>2, <3>3, IntProducts
    <3> QED BY <3>2, <3>4
  <2>6. CASE UNCHANGED vars
    BY <2>6
  <2> HIDE DEF Holds
  <2> QED BY <1>1, <2>3, <2>4, <2>5, <2>6
<1>2. [Holds]_vars =>
        [LET old == Committed
             new == Committed'
             gone == IF tx.kind = "kill" /\ finishKill /\ rest < tx.debt
                     THEN tx.debt - rest ELSE 0
         IN  totalToken(old) * new.totalSupply
               <= (totalToken(new) + gone) * old.totalSupply]_vars
  BY DEF Total, Supply, totalToken
<1> HIDE DEF Holds
<1> QED BY <1>1, <1>2, Invariance, PTL DEF Spec, LenderShareNeverFalls

-----------------------------------------------------------------------------
(* The vault implements the lending pool. *)

\* The step of the lending pool that a step of the vault maps to.
LEMMA LenderStep ==
  ASSUME Interests = Nat, IInv, IInv', [Next]_vars
  PROVE  [Pool!PoolNext]_(Pool!poolVars)
<1>1. /\ Total \in Int /\ Supply \in Nat /\ Lent \in Nat
      /\ Total' \in Int /\ Supply' \in Nat /\ Lent' \in Nat
  BY LenderTypes DEF IInv
<1>2. CASE \E amount \in Amounts : deposit(amount)
  <2>1. PICK amount \in Amounts : deposit(amount)
    BY <1>2
  <2>2. PICK t \in Nat : /\ Total <= t /\ Total' = t + amount
                         /\ Supply' = Supply + Bought(amount, t)
    BY <2>1, DepositSeen
  <2>3. t - Total \in Nat /\ Total + (t - Total) = t
    BY <1>1, <2>2
  <2>4. Pool!Deposit(t - Total, amount)
    BY <1>1, <2>2, <2>3
       DEF Pool!Deposit, Pool!Bought, Bought, Total, Supply, Lent
  <2> QED BY <2>3, <2>4 DEF Pool!PoolNext
<1>3. CASE \E share \in 1..MaxSupply : withdraw(share)
  <2>1. PICK share \in 1..MaxSupply : withdraw(share)
    BY <1>3
  <2>2. PICK t \in Nat : /\ Total <= t /\ share \in 1..Supply
                         /\ Total' = t - Redeemed(share, t)
                         /\ Supply' = Supply - share
    BY <2>1, WithdrawSeen
  <2>3. t - Total \in Nat /\ Total + (t - Total) = t
    BY <1>1, <2>2
  <2>4. Pool!Redeem(t - Total, share) /\ share \in 1..Supply
    BY <1>1, <2>2, <2>3
       DEF Pool!Redeem, Pool!Redeemed, Redeemed, Total, Supply, Lent
  <2> QED BY <2>3, <2>4 DEF Pool!PoolNext, Supply
<1>4. CASE /\ Next
           /\ ~ \E amount \in Amounts : deposit(amount)
           /\ ~ \E share \in 1..MaxSupply : withdraw(share)
  <2>1. Gain \/ Loss
    BY <1>4, OtherSteps
  <2>2. CASE Total <= Total' /\ Supply' = Supply
    <3>1. Pool!Earn
      BY <1>1, <2>2 DEF Pool!Earn, Total, Supply, Lent
    <3> QED BY <3>1 DEF Pool!PoolNext
  <2>3. CASE Total' < Total /\ Supply' = Supply /\ Lent > 0
    <3>1. Pool!Default
      BY <1>1, <2>3 DEF Pool!Default, Total, Supply, Lent
    <3> QED BY <3>1 DEF Pool!PoolNext
  <2> QED BY <1>1, <2>1, <2>2, <2>3 DEF Gain, Loss
<1>5. CASE UNCHANGED vars
  BY <1>5 DEF vars, Pool!poolVars, Committed, Storage, totalToken
<1> QED BY <1>2, <1>3, <1>4, <1>5

(* The deployed vault is a lending pool nobody has used yet. *)
LEMMA LenderInit == Init => Pool!PoolInit
BY DEF Init, Pool!PoolInit, Committed, Storage, totalToken, NoDebt

\* Lenders see a LendingPool, whatever farmers, workers and failing calls do
\* in between (deposit, withdraw, totalToken and everything that moves bal,
\* vaultDebtVal and reservePool).
THEOREM VaultIsALendingPool ==
  ASSUME Interests = Nat
  PROVE  Spec => ImplementsLendingPool
<1>1. IInv /\ IInv' /\ [Next]_vars => [Pool!PoolNext]_(Pool!poolVars)
  BY LenderStep
<1> QED BY <1>1, LenderInit, Invariance, PTL
        DEF Spec, ImplementsLendingPool, Pool!PoolSpec

-----------------------------------------------------------------------------
(* Stakes in FairLaunch. *)

Owners == [Ids -> [worker : Workers \cup {NoAddr}, owner : Users \cup {NoAddr}]]
AllStakes == [PoolIds -> [Users -> Nat]]
\* What one position counts for a user.
Counted(user, pos, shares, id) == IF pos[id].owner = user THEN shares[id] ELSE 0

\* There are finitely many position ids.
LEMMA FiniteIds == IsFiniteSet(Ids)
BY PositionsAssumption, FS_Interval DEF Ids

\* When one position changes, the shares of a user change by what it counts.
LEMMA SharesMove ==
  ASSUME NEW pos, NEW qos, NEW shares \in [Ids -> Nat], NEW after \in [Ids -> Nat],
         NEW id \in Ids, \A j \in Ids \ {id} : qos[j] = pos[j] /\ after[j] = shares[j],
         NEW user
  PROVE  /\ SharesOf(user, pos, shares) \in Int /\ Counted(user, pos, shares, id) \in Nat
         /\ Counted(user, qos, after, id) \in Nat
         /\ SharesOf(user, qos, after) =
              SharesOf(user, pos, shares) + Counted(user, qos, after, id) - Counted(user, pos, shares, id)
<1> DEFINE f == [j \in Ids |-> IF pos[j].owner = user THEN shares[j] ELSE 0]
           g == [j \in Ids |-> IF qos[j].owner = user THEN after[j] ELSE 0]
<1>1. SharesOf(user, pos, shares) = SumFunctionOnSet(f, Ids)
  BY DEF SharesOf, SumFunction
<1>2. SharesOf(user, qos, after) = SumFunctionOnSet(g, Ids)
  BY DEF SharesOf, SumFunction
<1>3. f[id] = Counted(user, pos, shares, id) /\ g[id] = Counted(user, qos, after, id)
  BY DEF Counted
<1>4. (\A j \in Ids : f[j] \in Nat /\ g[j] \in Nat) /\ \A j \in Ids \ {id} : g[j] = f[j]
  OBVIOUS
<1> HIDE DEF f, g
<1>5. SameBut(f, g, id, Ids) /\ Natural(f, Ids)
  BY <1>4 DEF SameBut, Natural
<1>6. SumFunctionOnSet(g, Ids) = SumFunctionOnSet(f, Ids) + g[id] - f[id]
  BY <1>5, FiniteIds, SumShifts
<1>7. SumFunctionOnSet(f, Ids) \in Nat
  BY <1>5, FiniteIds, SumType
<1> QED BY <1>1, <1>2, <1>3, <1>4, <1>6, <1>7

\* One stake set anew.
Restaked(stk, pid, owner, n) == [stk EXCEPT ![pid][owner] = n]

\* When one stake changes, all the stakes of its owner change by as much.
LEMMA StakesMove ==
  ASSUME NEW stk \in AllStakes, NEW pid \in PoolIds, NEW owner, NEW n \in Nat, NEW user \in Users
  PROVE  /\ StakesOf(user, stk) \in Int
         /\ StakesOf(user, Restaked(stk, pid, owner, n)) =
              IF user = owner THEN StakesOf(user, stk) + n - stk[pid][user] ELSE StakesOf(user, stk)
<1> DEFINE new == Restaked(stk, pid, owner, n)
           f == [p \in PoolIds |-> stk[p][user]]
           g == [p \in PoolIds |-> new[p][user]]
<1>1. StakesOf(user, stk) = SumFunctionOnSet(f, PoolIds)
  BY DEF StakesOf, SumFunction
<1>2. StakesOf(user, new) = SumFunctionOnSet(g, PoolIds)
  BY DEF StakesOf, SumFunction
<1>3. IsFiniteSet(PoolIds)
  BY ConfigAssumption
<1>4. /\ \A p \in PoolIds : f[p] \in Nat /\ g[p] \in Nat
      /\ \A p \in PoolIds \ {pid} : g[p] = f[p]
      /\ f[pid] = stk[pid][user] /\ g[pid] = IF user = owner THEN n ELSE stk[pid][user]
  BY DEF AllStakes, Restaked
<1> HIDE DEF f, g, new
<1>5. SameBut(f, g, pid, PoolIds) /\ Natural(f, PoolIds)
  BY <1>4 DEF SameBut, Natural
<1>6. SumFunctionOnSet(g, PoolIds) = SumFunctionOnSet(f, PoolIds) + g[pid] - f[pid]
  BY <1>3, <1>5, SumShifts
<1>7. SumFunctionOnSet(f, PoolIds) \in Nat
  BY <1>3, <1>5, SumType
<1>8. StakesOf(user, stk) \in Int
  BY <1>1, <1>7
<1>9. StakesOf(user, new) = StakesOf(user, stk) + (IF user = owner THEN n ELSE stk[pid][user]) - stk[pid][user]
  BY <1>1, <1>2, <1>4, <1>6
<1>10. stk[pid][user] \in Nat
  BY <1>4
<1>11. StakesOf(user, new) = IF user = owner THEN StakesOf(user, stk) + n - stk[pid][user] ELSE StakesOf(user, stk)
  BY <1>8, <1>9, <1>10
<1> QED BY <1>8, <1>11 DEF new

\* A withdrawal from FairLaunch takes back no more than the shares of the position, and may fail.
LEMMA WithdrawalLeaves ==
  ASSUME TypeOK, fairLaunchPoolId # NoPool, NEW id \in Ids, fairLaunchWithdraw(id), NEW user \in Users
  PROVE  /\ StakesOf(user, stake) \in Int /\ StakesOf(user, stake') \in Int
         /\ StakesOf(user, stake) - Counted(user, positions, debt.debtShare, id) <= StakesOf(user, stake')
<1> DEFINE owner == positions[id].owner
           share == debt.debtShare[id]
           pid == fairLaunchPoolId
           all == StakesOf(user, stake)
<1>1. stake \in AllStakes /\ share \in Nat /\ pid \in PoolIds
  BY Typed DEF AllStakes, DebtPools
<1>2. all \in Int
  BY <1>1, StakesMove, 0 \in Nat
<1>3. Counted(user, positions, debt.debtShare, id) = IF owner = user THEN share ELSE 0
  BY DEF Counted
<1>4. \/ stake' = stake
      \/ share <= stake[pid][owner] /\ stake' = [stake EXCEPT ![pid][owner] = stake[pid][owner] - share]
  BY DEF fairLaunchWithdraw
<1> HIDE DEF owner, share, pid
<1>5. CASE stake' = stake
  BY <1>1, <1>2, <1>3, <1>5
<1>6. CASE share <= stake[pid][owner] /\ stake' = [stake EXCEPT ![pid][owner] = stake[pid][owner] - share]
  <2>1. CASE owner \in Users
    <3> DEFINE n == stake[pid][owner] - share
    <3>1. stake[pid][owner] \in Nat
      BY <1>1, <2>1 DEF AllStakes
    <3>2. n \in Nat /\ stake' = [stake EXCEPT ![pid][owner] = n]
      BY <1>1, <1>6, <3>1
    <3>3. n = stake[pid][owner] - share
      OBVIOUS
    <3> HIDE DEF n
    <3> DEFINE new == Restaked(stake, pid, owner, n)
    <3>4. StakesOf(user, new) = IF user = owner THEN all + n - stake[pid][user] ELSE all
      BY <1>1, <3>2, StakesMove
    <3>5. stake' = new
      BY <3>2 DEF Restaked
    <3> HIDE DEF new
    <3> HIDE DEF all
    <3>6. StakesOf(user, stake') = IF user = owner THEN all + n - stake[pid][user] ELSE all
      BY <3>4, <3>5
    <3> QED BY <1>1, <1>2, <1>3, <3>1, <3>3, <3>6 DEF all
  <2>2. CASE owner \notin Users
    <3>1. stake' = stake
      BY <1>1, <1>6, <2>2 DEF AllStakes
    <3> QED BY <1>1, <1>2, <1>3, <3>1
  <2> QED BY <2>1, <2>2
<1> QED BY <1>4, <1>5, <1>6

\* A position that gives up its shares for no more stakes than that leaves everybody covered.
LEMMA LessIsCovered ==
  ASSUME NEW pos, NEW qos, NEW shares \in [Ids -> Nat], NEW after \in [Ids -> Nat], NEW stk, NEW stl,
         Covered(pos, shares, stk), NEW id \in Ids, after[id] = 0,
         \A j \in Ids \ {id} : qos[j] = pos[j] /\ after[j] = shares[j],
         \A user \in Users : /\ StakesOf(user, stk) \in Int /\ StakesOf(user, stl) \in Int
                             /\ StakesOf(user, stk) - Counted(user, pos, shares, id) <= StakesOf(user, stl)
  PROVE  Covered(qos, after, stl)
<1> SUFFICES ASSUME NEW user \in Users PROVE SharesOf(user, qos, after) <= StakesOf(user, stl)
  BY DEF Covered
<1>1. SharesOf(user, pos, shares) <= StakesOf(user, stk)
  BY DEF Covered
<1>2. Counted(user, qos, after, id) = 0
  BY DEF Counted
<1>3. /\ SharesOf(user, pos, shares) \in Int /\ Counted(user, pos, shares, id) \in Nat
      /\ SharesOf(user, qos, after) =
           SharesOf(user, pos, shares) + Counted(user, qos, after, id) - Counted(user, pos, shares, id)
  BY SharesMove
<1> QED BY <1>1, <1>2, <1>3

\* Shares that come to be and are staked for their owner are covered.
LEMMA StakedIsCovered ==
  ASSUME NEW pos \in Owners, NEW shares \in [Ids -> Nat], NEW stk \in AllStakes, Covered(pos, shares, stk),
         NEW id \in Ids, shares[id] = 0, NEW n \in Nat, NEW pid \in PoolIds
  PROVE  Covered(pos, [shares EXCEPT ![id] = n],
                 [stk EXCEPT ![pid][pos[id].owner] = stk[pid][pos[id].owner] + n])
<1> DEFINE owner == pos[id].owner
           more == [shares EXCEPT ![id] = n]
           new == Restaked(stk, pid, owner, stk[pid][owner] + n)
<1> SUFFICES ASSUME NEW user \in Users PROVE SharesOf(user, pos, more) <= StakesOf(user, new)
  BY DEF Covered, Restaked
<1>1. /\ SharesOf(user, pos, shares) <= StakesOf(user, stk)
      /\ StakesOf(user, stk) \in Int
  BY StakesMove, 0 \in Nat DEF Covered
<1>2. more \in [Ids -> Nat] /\ (\A j \in Ids \ {id} : more[j] = shares[j]) /\ more[id] = n
  OBVIOUS
<1>3. /\ Counted(user, pos, shares, id) = 0
      /\ Counted(user, pos, more, id) = IF owner = user THEN n ELSE 0
  BY <1>2 DEF Counted
<1>4. owner \in Users \cup {NoAddr}
  BY DEF Owners
<1> HIDE DEF owner, more
<1>5. /\ SharesOf(user, pos, shares) \in Int
      /\ SharesOf(user, pos, more) =
           SharesOf(user, pos, shares) + Counted(user, pos, more, id) - Counted(user, pos, shares, id)
  BY <1>2, SharesMove
<1>6. CASE owner \in Users
  <2> DEFINE m == stk[pid][owner] + n
  <2>1. stk[pid][owner] \in Nat
    BY <1>6 DEF AllStakes
  <2>2. m \in Nat /\ m = stk[pid][owner] + n
    BY <2>1
  <2>3. StakesOf(user, new) = IF user = owner THEN StakesOf(user, stk) + m - stk[pid][user] ELSE StakesOf(user, stk)
    <3> HIDE DEF m
    <3> QED BY <2>2, StakesMove DEF m
  <2> HIDE DEF new, m
  <2>4. SharesOf(user, pos, more) = SharesOf(user, pos, shares) + (IF owner = user THEN n ELSE 0)
    BY <1>3, <1>5
  <2> QED BY <1>1, <1>5, <2>1, <2>2, <2>3, <2>4
<1>7. CASE owner \notin Users
  <2>1. new = stk
    BY <1>7 DEF AllStakes, Restaked
  <2>2. owner # user
    BY <1>7
  <2> QED BY <1>1, <1>3, <1>5, <2>1, <2>2
<1> QED BY <1>6, <1>7

\* Steps that leave positions, their shares and the stakes alone.
LEMMA CoverStays ==
  ASSUME StakesCover, UNCHANGED <<positions, stake>>, debt'.debtShare = debt.debtShare,
         \/ tx'.kind = "none"
         \/ tx.kind # "none" /\ saved' = saved /\ fairLaunchPoolId' \in PoolIds
         \/ saved' = Storage /\ fairLaunchPoolId' \in PoolIds
  PROVE  StakesCover'
<1>1. Covered(positions', debt'.debtShare, stake')
  BY DEF StakesCover
<1>2. Storage.positions = positions /\ Storage.debt = debt /\ Storage.stake = stake
  BY DEF Storage
<1> QED BY <1>1, <1>2 DEF StakesCover

\* The debt a call takes out of the pool is one position's.
LEMMA RemovedShares ==
  ASSUME TypeOK, GoodPool(debt), NEW id \in Ids
  PROVE  /\ RemoveDebt(AccruedDebt, id).debtShare \in [Ids -> Nat]
         /\ RemoveDebt(AccruedDebt, id).debtShare[id] = 0
         /\ \A j \in Ids \ {id} : RemoveDebt(AccruedDebt, id).debtShare[j] = debt.debtShare[j]
<1>1. AccruedDebt.debtShare = debt.debtShare /\ debt.debtShare \in [Ids -> Nat]
  BY Accrual, Typed DEF DebtPools
<1> QED BY <1>1 DEF RemoveDebt

\* work and kill begin with a withdrawal from FairLaunch, which may fail, and with no share in the position.
LEMMA BegunIsCovered ==
  ASSUME IInv, StakesCover, NEW id \in Ids, debt' = RemoveDebt(AccruedDebt, id),
         \A j \in Ids \ {id} : positions'[j] = positions[j],
         stake' = stake \/ fairLaunchWithdraw(id),
         fairLaunchPoolId # NoPool, UNCHANGED fairLaunchPoolId, saved' = Storage
  PROVE  StakesCover'
<1>1. TypeOK /\ GoodPool(debt)
  BY DEF IInv
<1>2. /\ fairLaunchPoolId' \in PoolIds /\ stake \in AllStakes
      /\ debt.debtShare \in [Ids -> Nat]
  BY <1>1, Typed DEF AllStakes, DebtPools
<1> DEFINE cleared == RemoveDebt(AccruedDebt, id).debtShare
<1>3. cleared \in [Ids -> Nat] /\ cleared[id] = 0 /\ \A j \in Ids \ {id} : cleared[j] = debt.debtShare[j]
  BY <1>1, RemovedShares
<1> HIDE DEF cleared
<1>4. ASSUME NEW user \in Users
      PROVE  /\ StakesOf(user, stake) \in Int /\ StakesOf(user, stake') \in Int
             /\ StakesOf(user, stake) - Counted(user, positions, debt.debtShare, id) <= StakesOf(user, stake')
  <2>1. CASE stake' = stake
    <3>1. StakesOf(user, stake) \in Int
      <4>1. PICK pid : pid \in PoolIds
        BY <1>2
      <4> QED BY <1>2, <4>1, StakesMove, 0 \in Nat
    <3>2. Counted(user, positions, debt.debtShare, id) \in Nat
      BY <1>2 DEF Counted
    <3> QED BY <2>1, <3>1, <3>2
  <2>2. CASE fairLaunchWithdraw(id)
    BY <1>1, <2>2, WithdrawalLeaves
  <2> QED BY <2>1, <2>2
<1>5. Covered(positions, debt.debtShare, stake)
  BY DEF StakesCover
<1>6. Covered(positions', cleared, stake')
  BY <1>2, <1>3, <1>4, <1>5, LessIsCovered
<1>7. debt'.debtShare = cleared
  BY DEF cleared
<1>8. Storage.positions = positions /\ Storage.debt = debt /\ Storage.stake = stake
  BY DEF Storage
<1> QED BY <1>2, <1>5, <1>6, <1>7, <1>8 DEF StakesCover

\* work: a position that is opened has no share yet, one that is worked on gives its share up.
LEMMA BeginWorkCovers ==
  ASSUME IInv, StakesCover, NEW user \in Users, NEW worker \in Workers,
         NEW strategy \in Strategies, NEW anId \in Ids \cup {NO_ID},
         NEW borrow \in Amounts \cup {0}, NEW maxReturn \in MaxReturns,
         beginWork(user, worker, strategy, anId, borrow, maxReturn)
  PROVE  StakesCover'
<1> DEFINE id == IF anId = NO_ID THEN nextPositionID ELSE anId
<1>1. TypeOK /\ nextPositionID \in 1 .. MaxPositions + 1 /\ MaxPositions \in Nat
      /\ positions \in Owners
  BY Typed, PositionsAssumption DEF IInv, Owners
<1>2. /\ debt' = RemoveDebt(AccruedDebt, id) /\ saved' = Storage
      /\ fairLaunchPoolId # NoPool /\ UNCHANGED fairLaunchPoolId
      /\ \/ anId = NO_ID /\ openPosition(user, worker)
         \/ anId # NO_ID /\ reopenPosition(user, worker, anId)
  BY DEF beginWork, Wait, id
<1>3. /\ id \in Ids /\ \A j \in Ids \ {id} : positions'[j] = positions[j]
      /\ stake' = stake \/ fairLaunchWithdraw(id)
  <2>1. CASE anId = NO_ID
    <3>1. openPosition(user, worker) /\ id = nextPositionID
      BY <1>2, <2>1
    <3> HIDE DEF id
    <3> QED BY <1>1, <3>1 DEF openPosition, Ids, Owners
  <2>2. CASE anId # NO_ID
    <3>1. reopenPosition(user, worker, anId) /\ id = anId /\ anId \in Ids
      BY <1>2, <2>2
    <3> HIDE DEF id
    <3> QED BY <3>1 DEF reopenPosition, positionVars
  <2> QED BY <2>1, <2>2
<1> HIDE DEF id
<1> QED BY <1>2, <1>3, BegunIsCovered

\* work: the debt that is left becomes shares, and the shares a stake of the owner.
LEMMA FinishWorkCovers ==
  ASSUME IInv, StakesCover, NEW health \in HealthLevels, finishWork(health)
  PROVE  StakesCover'
<1> DEFINE left == tx.debt - min(tx.debt, min(back, tx.maxReturn))
           e == AddDebt(debt, tx.id, left)
           owner == positions[tx.id].owner
           n == e.debtShare[tx.id]
<1>1. /\ TypeOK /\ GoodPool(debt) /\ tx.kind = "work" /\ tx.id \in Ids /\ debt.debtShare[tx.id] = 0
      /\ bal \in Nat /\ tx.before \in Nat /\ tx.before <= bal /\ tx.debt \in Nat /\ tx.maxReturn \in Nat
      /\ fairLaunchPoolId \in PoolIds /\ debt.debtShare \in [Ids -> Nat]
      /\ positions \in Owners /\ stake \in AllStakes
  BY Typed DEF IInv, finishWork, Waiting, StakesCover, Owners, AllStakes, DebtPools
<1>2. /\ tx' = NoTx /\ positions' = positions
      /\ left > 0 => debt' = e /\ fairLaunchDeposit(owner, n)
      /\ ~(left > 0) => UNCHANGED <<debt, stake>>
  BY DEF finishWork, Return, positionVars
<1>3. left \in Nat
  <2>1. back \in Nat
    BY <1>1 DEF back
  <2> QED BY <1>1, <2>1 DEF min
<1>4. Covered(positions, debt.debtShare, stake)
  BY DEF StakesCover
<1>5. tx'.kind = "none"
  BY <1>2 DEF NoTx
<1> DEFINE bought == debtValToShare(debt, left)
<1>6. /\ n \in Nat /\ e.debtShare = [debt.debtShare EXCEPT ![tx.id] = n]
  <2>1. bought \in Nat
    BY <1>1, <1>3, BoughtShares
  <2>2. e.debtShare = [debt.debtShare EXCEPT ![tx.id] = debt.debtShare[tx.id] + bought]
    BY DEF AddDebt
  <2> HIDE DEF bought, e
  <2>3. debt.debtShare[tx.id] + bought = bought
    BY <1>1, <2>1
  <2> QED BY <1>1, <2>1, <2>2, <2>3
<1> HIDE DEF left, e, owner, n, bought
<1>7. CASE ~(left > 0)
  BY <1>2, <1>4, <1>5, <1>7 DEF StakesCover
<1>8. CASE left > 0 /\ n > 0
  <2>1. stake' = [stake EXCEPT ![fairLaunchPoolId][owner] = stake[fairLaunchPoolId][owner] + n]
    BY <1>2, <1>8 DEF fairLaunchDeposit
  <2>2. Covered(positions, [debt.debtShare EXCEPT ![tx.id] = n],
                [stake EXCEPT ![fairLaunchPoolId][positions[tx.id].owner] =
                   stake[fairLaunchPoolId][positions[tx.id].owner] + n])
    BY <1>1, <1>4, <1>6, StakedIsCovered
  <2>3. Covered(positions', debt'.debtShare, stake')
    BY <1>2, <1>6, <1>8, <2>1, <2>2 DEF owner
  <2> QED BY <1>5, <2>3 DEF StakesCover
<1>9. CASE left > 0 /\ ~(n > 0)
  <2>1. n = 0 /\ stake' = stake /\ debt' = e
    BY <1>2, <1>6, <1>9 DEF fairLaunchDeposit
  <2>2. debt'.debtShare = debt.debtShare
    BY <1>1, <1>6, <2>1
  <2> QED BY <1>2, <1>4, <1>5, <2>1, <2>2 DEF StakesCover
<1> QED BY <1>7, <1>8, <1>9

(* Every step keeps the stakes above the shares. *)
LEMMA StakesStep == IInv /\ StakesCover /\ [Next]_vars => StakesCover'
<1> SUFFICES ASSUME IInv, StakesCover, [Next]_vars PROVE StakesCover'
  OBVIOUS
<1>1. TypeOK /\ GoodPool(debt) /\ AccruedDebt.debtShare = debt.debtShare
  BY Accrual DEF IInv
<1>2. tx.kind # "none" => fairLaunchPoolId \in PoolIds
  BY DEF StakesCover
<1>3. CASE UNCHANGED vars
  BY <1>2, <1>3, CoverStays DEF vars
<1>4. CASE \E amount \in Amounts : deposit(amount) \/ receiveToken(amount)
  BY <1>1, <1>2, <1>4, CoverStays DEF deposit, receiveToken, nonReentrant, positionVars
<1>5. CASE \E share \in 1..MaxSupply : withdraw(share)
  BY <1>1, <1>2, <1>5, CoverStays DEF withdraw, nonReentrant, positionVars
<1>6. CASE \E value \in 1..MaxToken : withdrawReserve(value) \/ reduceReserve(value)
  BY <1>2, <1>6, CoverStays DEF withdrawReserve, reduceReserve, positionVars
<1>7. CASE \E pid \in PoolIds : setFairLaunchPoolId(pid)
  BY <1>7, CoverStays DEF setFairLaunchPoolId, positionVars
<1>8. CASE \E user \in Users, worker \in Workers, strategy \in Strategies,
              id \in Ids \cup {NO_ID}, borrow \in Amounts \cup {0},
              maxReturn \in MaxReturns :
             beginWork(user, worker, strategy, id, borrow, maxReturn)
  BY <1>8, BeginWorkCovers
<1>9. CASE \E user \in Users, strategy \in Strategies, id \in Ids,
              health \in HealthLevels :
             beginAddCollateral(user, strategy, id, health)
  <2>1. fairLaunchPoolId \in PoolIds /\ UNCHANGED <<positions, stake, fairLaunchPoolId>> /\ saved' = Storage
        /\ debt' = AccruedDebt
    BY <1>1, <1>9, Typed DEF beginAddCollateral, Wait, positionVars
  <2> QED BY <1>1, <2>1, CoverStays
<1>10. CASE \E liquidator \in Users, id \in Ids, health \in HealthLevels :
             beginKill(liquidator, id, health)
  <2>1. PICK id \in Ids :
          /\ fairLaunchPoolId # NoPool /\ fairLaunchWithdraw(id) /\ debt' = RemoveDebt(AccruedDebt, id)
          /\ UNCHANGED <<positions, fairLaunchPoolId>> /\ saved' = Storage
    BY <1>10 DEF beginKill, Wait, positionVars
  <2> QED BY <2>1, BegunIsCovered
<1>11. CASE \E health \in HealthLevels :
             finishWork(health) \/ finishAddCollateral(health)
  <2>1. CASE \E health \in HealthLevels : finishWork(health)
    BY <2>1, FinishWorkCovers
  <2>2. CASE \E health \in HealthLevels : finishAddCollateral(health)
    BY <2>2, CoverStays DEF finishAddCollateral, Return, NoTx, positionVars
  <2> QED BY <1>11, <2>1, <2>2
<1>12. CASE finishKill
  BY <1>12, CoverStays DEF finishKill, Return, NoTx, positionVars
<1>13. CASE \E sender \in Strategies : requestFunds(sender)
  <2>1. POSITION_ID # NO_ID /\ UNCHANGED <<positions, stake, debt, saved, fairLaunchPoolId>>
    BY <1>13 DEF requestFunds, positionVars
  <2>2. tx.kind # "none"
    BY <2>1 DEF IInv, AtRest
  <2> QED BY <1>2, <2>1, <2>2, CoverStays
<1>14. CASE Tick
  BY <1>2, <1>14, CoverStays DEF Tick, nonReentrant, positionVars
<1>15. CASE Revert
  <2>1. tx.kind # "none"
    BY <1>15, RevertStep
  <2>2. positions' = saved.positions /\ debt' = saved.debt /\ stake' = saved.stake /\ tx'.kind = "none"
    BY <1>15 DEF Revert, Return, NoTx
  <2> QED BY <2>1, <2>2 DEF StakesCover
<1> QED BY <1>3, <1>4, <1>5, <1>6, <1>7, <1>8, <1>9, <1>10, <1>11, <1>12, <1>13, <1>14, <1>15 DEF Next

(* A vault is deployed without shares and without stakes. *)
LEMMA StakesInit == Init => StakesCover
<1> SUFFICES ASSUME Init PROVE StakesCover
  OBVIOUS
<1>1. tx.kind = "none"
  BY DEF Init, NoTx
<1>2. ASSUME NEW user \in Users PROVE SharesOf(user, positions, debt.debtShare) = 0
  <2> DEFINE f == [id \in Ids |-> IF positions[id].owner = user THEN debt.debtShare[id] ELSE 0]
  <2>1. Zero(f, Ids)
    BY DEF Init, NoDebt, Zero
  <2>2. SharesOf(user, positions, debt.debtShare) = SumFunctionOnSet(f, Ids)
    BY DEF SharesOf, SumFunction
  <2> HIDE DEF f
  <2> QED BY <2>1, <2>2, FiniteIds, SumOfZeros
<1>3. ASSUME NEW user \in Users PROVE StakesOf(user, stake) = 0
  <2> DEFINE f == [p \in PoolIds |-> stake[p][user]]
  <2>1. Zero(f, PoolIds)
    BY DEF Init, Fresh, Zero
  <2>2. StakesOf(user, stake) = SumFunctionOnSet(f, PoolIds)
    BY DEF StakesOf, SumFunction
  <2> HIDE DEF f
  <2> QED BY <2>1, <2>2, ConfigAssumption, SumOfZeros
<1> QED BY <1>1, <1>2, <1>3 DEF StakesCover, Covered

\* A farmer's stakes in FairLaunch cover the debt shares of their positions:
\* although withdrawals from it may fail, the pool id may move while a worker
\* is called, and calls are undone.
THEOREM StakesAlwaysCover == Spec => []FairLaunchCovers
<1>1. Init => IInv /\ StakesCover
  BY InitInv, StakesInit
<1>2. (IInv /\ StakesCover) /\ [Next]_vars => (IInv /\ StakesCover)'
  BY StepInv, StakesStep
<1>3. IInv /\ StakesCover => FairLaunchCovers
  BY DEF StakesCover, Covered, SharesOf, StakesOf, FairLaunchCovers, OwnedShares, StakeOf
<1> QED BY <1>1, <1>2, <1>3, PTL DEF Spec

-----------------------------------------------------------------------------
(* The debt of bystanders. *)

\* What rounding makes of the value of a share when S shares worth V lose some, which leaves S1 worth V1,
\* and gain some, which makes them S2 worth V2.
Rounded(S, V, S1, V1, S2, V2) ==
  /\ S1 <= S2
  /\ V * S1 <= V1 * S /\ V1 * S < V * S1 + S
  /\ V1 * S2 <= V2 * S1 /\ V2 * S1 < V1 * (S2 + 1)

\* b of the shares that stay are then worth more, but less than one share more and a token.
LEMMA RoundingOfOthers ==
  ASSUME NEW S \in Nat \ {0}, NEW V \in Nat, NEW S1 \in Nat \ {0}, NEW V1 \in Nat, NEW S2 \in Nat, NEW V2 \in Nat,
         Rounded(S, V, S1, V1, S2, V2), NEW b \in Nat, b <= S1
  PROVE  /\ (b * V) \div S <= (b * V2) \div S2
         /\ (b * V2) \div S2 <= ((b + 1) * V) \div S + 1
<1> DEFINE n == (b * V2) \div S2
           f == ((b + 1) * V) \div S
<1>1. S2 \in Nat \ {0} /\ b <= S2
  BY DEF Rounded
<1>2. V * S2 <= V2 * S
  <2>1. V * S1 * S2 <= V1 * S * S2
    <3>1. V * S1 \in Nat /\ V1 * S \in Nat /\ V * S1 <= V1 * S
      BY DEF Rounded
    <3> QED BY <3>1, Products
  <2>2. V1 * S2 * S <= V2 * S1 * S
    <3>1. V1 * S2 \in Nat /\ V2 * S1 \in Nat /\ V1 * S2 <= V2 * S1
      BY DEF Rounded
    <3> QED BY <3>1, Products
  <2>3. S1 * (V * S2) <= S1 * (V2 * S)
    <3>1. V * S1 * S2 = S1 * (V * S2) /\ V1 * S * S2 = V1 * S2 * S /\ V2 * S1 * S = S1 * (V2 * S)
      OBVIOUS
    <3> QED BY <2>1, <2>2, <3>1
  <2> QED BY <2>3, Cancel
<1>3. (b * V) \div S <= n
  <2>1. V * S2 * b <= V2 * S * b
    BY <1>2, Products
  <2>2. V * S2 * b = (b * V) * S2 /\ V2 * S * b = (b * V2) * S
    OBVIOUS
  <2> DEFINE p == b * V
             q == b * V2
  <2>3. p \in Nat /\ q \in Nat /\ p * S2 <= q * S
    BY <2>1, <2>2
  <2> HIDE DEF p, q
  <2>4. p \div S <= q \div S2
    BY <1>1, <2>3, Fractions
  <2> QED BY <2>4 DEF p, q
<1>4. n \in Nat /\ S2 * n <= b * V2
  BY <1>1, Division
<1>5. f \in Nat /\ (b + 1) * V < S * f + S
  BY Division
<1> HIDE DEF n, f
<1>6. V2 * S1 * S < V * S1 * (S2 + 1) + S * S2
  <2>1. V2 * S1 + 1 <= V1 * (S2 + 1) /\ V1 * S + 1 <= V * S1 + S
    BY DEF Rounded
  <2>2. (V2 * S1 + 1) * S <= (V1 * (S2 + 1)) * S
    BY <2>1, Products
  <2>3. (V1 * S + 1) * (S2 + 1) <= (V * S1 + S) * (S2 + 1)
    BY <2>1, Products
  <2>4. /\ (V2 * S1 + 1) * S = V2 * S1 * S + S
        /\ (V1 * (S2 + 1)) * S = (V1 * S) * (S2 + 1)
        /\ (V1 * S + 1) * (S2 + 1) = (V1 * S) * (S2 + 1) + S2 + 1
        /\ (V * S1 + S) * (S2 + 1) = V * S1 * (S2 + 1) + S * S2 + S
    OBVIOUS
  <2> DEFINE u == V2 * S1 * S
             v == (V1 * S) * (S2 + 1)
             w == V * S1 * (S2 + 1)
             z == S * S2
  <2>5. u \in Nat /\ v \in Nat /\ w \in Nat /\ z \in Nat
    OBVIOUS
  <2>6. u + S <= v /\ v + S2 + 1 <= w + z + S
    BY <2>2, <2>3, <2>4
  <2> HIDE DEF u, v, w, z
  <2>7. u < w + z
    BY <2>5, <2>6
  <2> QED BY <2>7 DEF u, w, z
<1>7. S * n < (b + 1) * V + S
  <2>1. CASE b = 0
    <3>1. S2 * n <= S2 * 0
      BY <1>4, <2>1
    <3>2. n <= 0
      BY <1>1, <1>4, <3>1, Cancel
    <3>3. n = 0 /\ (b + 1) * V \in Nat
      BY <1>4, <3>2
    <3>4. S * n = 0
      BY <3>3
    <3> QED BY <3>3, <3>4
  <2>2. CASE b # 0
    <3> DEFINE K == V * S1 * (S2 + 1) + S * S2
               M == S1 * S2
    <3>1. K \in Nat /\ M \in Nat \ {0}
      BY <1>1
    <3>2. (V2 * S1 * S + 1) * b <= K * b
      BY <1>6, <3>1, Products
    <3>3. K * b <= M * ((b + 1) * V + S)
      <4>1. b * (V * S1) <= S2 * (V * S1) /\ b * (S * S2) <= S1 * (S * S2)
        BY <1>1, Products
      <4>2. K * b = M * (b * V) + b * (V * S1) + b * (S * S2)
        OBVIOUS
      <4>3. M * ((b + 1) * V + S) = M * (b * V) + S2 * (V * S1) + S1 * (S * S2)
        OBVIOUS
      <4>4. M * (b * V) \in Nat /\ b * (V * S1) \in Nat /\ b * (S * S2) \in Nat
            /\ S2 * (V * S1) \in Nat /\ S1 * (S * S2) \in Nat
        OBVIOUS
      <4> HIDE DEF K, M
      <4> QED BY <4>1, <4>2, <4>3, <4>4
    <3>4. (S2 * n) * (S1 * S) <= (b * V2) * (S1 * S)
      BY <1>4, Products
    <3>5. /\ (S2 * n) * (S1 * S) = M * (S * n)
          /\ (V2 * S1 * S + 1) * b = (b * V2) * (S1 * S) + b
      BY <1>4
    <3>6. M * (S * n) < M * ((b + 1) * V + S)
      <4> DEFINE u == M * (S * n)
                 v == (b * V2) * (S1 * S)
                 w == M * ((b + 1) * V + S)
                 k == K * b
      <4>1. u \in Nat /\ v \in Nat /\ w \in Nat /\ k \in Nat
        BY <1>4, <3>1
      <4>2. u <= v /\ v + b <= k /\ k <= w
        BY <3>2, <3>3, <3>4, <3>5
      <4> HIDE DEF u, v, w, k
      <4>3. u < w
        BY <2>2, <4>1, <4>2
      <4> QED BY <4>3 DEF u, w
    <3> DEFINE x == S * n
               y == (b + 1) * V + S
    <3>7. x \in Nat /\ y \in Nat
      BY <1>4
    <3> HIDE DEF M, K, x, y
    <3>8. M * x < M * y
      BY <3>6 DEF x, y
    <3>9. x < y
      <4> SUFFICES ASSUME y <= x PROVE FALSE
        BY <3>7
      <4>1. y * M <= x * M
        BY <3>1, <3>7, Products
      <4> QED BY <3>1, <3>7, <3>8, <4>1
    <3> QED BY <3>9 DEF x, y
  <2> QED BY <2>1, <2>2
<1>8. n <= f + 1
  <2>1. S * n < S * (f + 2)
    <3>1. S * (f + 2) = S * f + S + S /\ S * n \in Nat /\ S * f \in Nat /\ (b + 1) * V \in Nat
      BY <1>4, <1>5
    <3> QED BY <1>5, <1>7, <3>1
  <2> SUFFICES ASSUME f + 2 <= n PROVE FALSE
    BY <1>4, <1>5
  <2>2. (f + 2) * S <= n * S
    BY <1>4, <1>5, Products
  <2> QED BY <1>4, <1>5, <2>1, <2>2
<1> QED BY <1>3, <1>8 DEF n, f

\* A position whose debt is taken out leaves a bit more for each share of the others.
LEMMA RemovingRounds ==
  ASSUME NEW d, GoodPool(d), NEW id \in Ids, RemoveDebt(d, id).vaultDebtShare # 0
  PROVE  LET e == RemoveDebt(d, id)
         IN  /\ d.vaultDebtShare \in Nat \ {0}
             /\ d.vaultDebtVal * e.vaultDebtShare <= e.vaultDebtVal * d.vaultDebtShare
             /\ e.vaultDebtVal * d.vaultDebtShare < d.vaultDebtVal * e.vaultDebtShare + d.vaultDebtShare
<1> DEFINE S == d.vaultDebtShare
           V == d.vaultDebtVal
           x == d.debtShare[id]
           q == DebtOf(d, id)
           e == RemoveDebt(d, id)
<1>1. x \in Nat /\ S \in Nat /\ V \in Nat /\ x <= S
  BY ShareBound
<1>2. q \in Nat /\ q <= V
  BY DebtBound
<1>3. e.vaultDebtShare = S - x /\ e.vaultDebtVal = V - q
  BY DEF RemoveDebt
<1>4. S # 0 /\ q = (x * V) \div S
  <2>1. S - x # 0
    BY <1>3
  <2>2. S # 0
    BY <1>1, <2>1
  <2> QED BY <2>2 DEF DebtOf, debtShareToVal
<1> HIDE DEF S, V, x, q, e
<1>5. S * q <= x * V /\ x * V < S * q + S
  <2>1. x * V \in Nat /\ S \in Nat \ {0}
    BY <1>1, <1>4
  <2> QED BY <1>4, <2>1, Division
<1>6. /\ V * (S - x) = V * S - x * V
      /\ (V - q) * S = V * S - S * q
      /\ V * S \in Nat /\ x * V \in Nat /\ S * q \in Nat
  BY <1>1, <1>2
<1> DEFINE a == V * S
           b == x * V
           c == S * q
<1>7. V * (S - x) <= (V - q) * S /\ (V - q) * S < V * (S - x) + S
  <2>1. a \in Nat /\ b \in Nat /\ c \in Nat /\ c <= b /\ b < c + S
    BY <1>5, <1>6
  <2>2. V * (S - x) = a - b /\ (V - q) * S = a - c
    BY <1>6
  <2> HIDE DEF a, b, c
  <2> QED BY <1>1, <2>1, <2>2
<1>8. /\ V * e.vaultDebtShare <= e.vaultDebtVal * S
      /\ e.vaultDebtVal * S < V * e.vaultDebtShare + S
  BY <1>3, <1>7
<1> QED BY <1>1, <1>4, <1>8 DEF S, V, e

\* New debt buys no more shares than it is worth, and not a whole share less.
LEMMA AddingRounds ==
  ASSUME NEW d, GoodPool(d), NEW id \in Ids, NEW val \in Nat, d.vaultDebtShare # 0
  PROVE  LET e == AddDebt(d, id, val)
         IN  /\ e.vaultDebtShare \in Nat /\ e.vaultDebtVal \in Nat
             /\ d.vaultDebtShare <= e.vaultDebtShare
             /\ d.vaultDebtVal * e.vaultDebtShare <= e.vaultDebtVal * d.vaultDebtShare
             /\ e.vaultDebtVal * d.vaultDebtShare < d.vaultDebtVal * (e.vaultDebtShare + 1)
<1> DEFINE S == d.vaultDebtShare
           V == d.vaultDebtVal
           n == debtValToShare(d, val)
           e == AddDebt(d, id, val)
<1>1. S \in Nat \ {0} /\ V \in Nat \ {0}
  <2>1. S \in Nat /\ V \in Nat /\ S <= V /\ S # 0
    BY DEF GoodPool, DebtPools, ValueCoversShares
  <2> HIDE DEF S, V
  <2> QED BY <2>1
<1>2. n = (val * S) \div V
  BY DEF debtValToShare
<1>3. e.vaultDebtShare = S + n /\ e.vaultDebtVal = V + val
  BY DEF AddDebt
<1> HIDE DEF S, V, n, e
<1>4. n \in Nat /\ V * n <= val * S /\ val * S < V * n + V
  <2>1. val * S \in Nat
    BY <1>1
  <2> QED BY <1>1, <1>2, <2>1, Division
<1>5. /\ V * (S + n) = V * S + V * n
      /\ (V + val) * S = V * S + val * S
      /\ V * ((S + n) + 1) = V * S + V * n + V
  BY <1>1, <1>4
<1>6. /\ V * (S + n) <= (V + val) * S
      /\ (V + val) * S < V * ((S + n) + 1)
  <2> DEFINE a == V * S
             b == V * n
             c == val * S
  <2>1. a \in Nat /\ b \in Nat /\ c \in Nat /\ b <= c /\ c < b + V
    BY <1>1, <1>4
  <2>2. V * (S + n) = a + b /\ (V + val) * S = a + c /\ V * ((S + n) + 1) = a + b + V
    BY <1>5
  <2> HIDE DEF a, b, c
  <2> QED BY <1>1, <2>1, <2>2
<1>7. /\ e.vaultDebtShare \in Nat /\ e.vaultDebtVal \in Nat /\ S <= e.vaultDebtShare
      /\ V * e.vaultDebtShare <= e.vaultDebtVal * S
      /\ e.vaultDebtVal * S < V * (e.vaultDebtShare + 1)
  BY <1>1, <1>3, <1>4, <1>6
<1> QED BY <1>7 DEF S, V, e

\* What a call on position id leaves of debt d: the position's debt goes, and some may be added again.
Worked(d, e, id) ==
  \/ e = RemoveDebt(d, id)
  \/ \E left \in Nat : e = AddDebt(RemoveDebt(d, id), id, left)

StaysClose(d, e, id) ==
  DebtOf(e, id) \in DebtOf(d, id)..(debtShareToVal(d, d.debtShare[id] + 1) + 1)

\* It moves the debt of the others only up, and by less than a share and a token.
LEMMA OthersStayClose ==
  ASSUME NEW d, GoodPool(d), NEW id \in Ids, NEW e, Worked(d, e, id), NEW other \in Ids \ {id}
  PROVE  StaysClose(d, e, other)
<1> DEFINE r == RemoveDebt(d, id)
           b == d.debtShare[other]
           S == d.vaultDebtShare
           V == d.vaultDebtVal
<1>1. GoodPool(r) /\ r.debtShare[other] = b /\ e.debtShare[other] = b
  <2>1. r.debtShare = [d.debtShare EXCEPT ![id] = 0] /\ d.debtShare \in [Ids -> Nat]
    BY DEF RemoveDebt, GoodPool, DebtPools
  <2>2. r.debtShare[other] = b
    BY <2>1
  <2>3. GoodPool(r)
    BY RemoveDebtGood
  <2> HIDE DEF r, b
  <2>4. \A left \in Nat : AddDebt(r, id, left).debtShare[other] = r.debtShare[other]
    BY <2>3 DEF AddDebt, GoodPool, DebtPools
  <2> QED BY <2>2, <2>3, <2>4 DEF Worked, r
<1>2. b \in Nat /\ S \in Nat /\ V \in Nat /\ b <= r.vaultDebtShare /\ b <= S
      /\ r.vaultDebtShare \in Nat /\ r.vaultDebtVal \in Nat
  BY <1>1, ShareBound
<1> HIDE DEF r
<1>3. CASE r.vaultDebtShare = 0
  <2>1. b = 0
    BY <1>2, <1>3
  <2>2. GoodPool(e)
    BY <1>1, AddDebtGood DEF Worked, r
  <2>3. DebtOf(e, other) = 0
    <3>1. CASE e.vaultDebtShare = 0
      BY <1>1, <2>1, <3>1 DEF DebtOf, debtShareToVal
    <3>2. CASE e.vaultDebtShare # 0
      <4>1. e.vaultDebtShare \in Nat \ {0} /\ e.vaultDebtVal \in Nat
        BY <2>2, <3>2, ShareBound
      <4>2. 0 * e.vaultDebtVal = 0 /\ 0 \div e.vaultDebtShare = 0
        BY <4>1
      <4> QED BY <1>1, <2>1, <3>2, <4>2 DEF DebtOf, debtShareToVal
    <3> QED BY <3>1, <3>2
  <2>4. DebtOf(d, other) = 0 /\ debtShareToVal(d, b + 1) \in Nat
    <3>1. CASE S = 0
      BY <1>2, <2>1, <3>1 DEF DebtOf, debtShareToVal
    <3>2. CASE S # 0
      <4>1. S \in Nat \ {0} /\ 0 * V = 0 /\ 0 \div S = 0 /\ (b + 1) * V \in Nat
        BY <1>2, <3>2
      <4>2. ((b + 1) * V) \div S \in Nat
        <5> DEFINE q == (b + 1) * V
        <5> HIDE DEF q, S
        <5> QED BY <4>1, Division DEF q
      <4> QED BY <2>1, <3>2, <4>1, <4>2 DEF DebtOf, debtShareToVal
    <3> QED BY <3>1, <3>2
  <2> QED BY <2>3, <2>4 DEF StaysClose
<1>4. CASE r.vaultDebtShare # 0
  <2>1. /\ S \in Nat \ {0}
        /\ V * r.vaultDebtShare <= r.vaultDebtVal * S
        /\ r.vaultDebtVal * S < V * r.vaultDebtShare + S
    BY <1>4, RemovingRounds DEF r
  <2>2. /\ e.vaultDebtShare \in Nat /\ e.vaultDebtVal \in Nat
        /\ r.vaultDebtShare <= e.vaultDebtShare
        /\ r.vaultDebtVal * e.vaultDebtShare <= e.vaultDebtVal * r.vaultDebtShare
        /\ e.vaultDebtVal * r.vaultDebtShare < r.vaultDebtVal * (e.vaultDebtShare + 1)
    <3>1. CASE e = r
      <4>1. r.vaultDebtVal \in Nat \ {0}
        BY <1>1, <1>2, <1>4 DEF GoodPool, ValueCoversShares
      <4>2. r.vaultDebtVal * (r.vaultDebtShare + 1) = r.vaultDebtVal * r.vaultDebtShare + r.vaultDebtVal
            /\ r.vaultDebtVal * r.vaultDebtShare \in Nat
        BY <1>2, <4>1
      <4> QED BY <1>2, <3>1, <4>1, <4>2
    <3>2. CASE \E left \in Nat : e = AddDebt(r, id, left)
      BY <1>1, <1>4, <3>2, AddingRounds
    <3> QED BY <3>1, <3>2 DEF Worked, r
  <2>3. Rounded(S, V, r.vaultDebtShare, r.vaultDebtVal, e.vaultDebtShare, e.vaultDebtVal)
    BY <2>1, <2>2 DEF Rounded
  <2>4. /\ (b * V) \div S <= (b * e.vaultDebtVal) \div e.vaultDebtShare
        /\ (b * e.vaultDebtVal) \div e.vaultDebtShare <= ((b + 1) * V) \div S + 1
    BY <1>2, <1>4, <2>1, <2>2, <2>3, RoundingOfOthers
  <2>5. e.vaultDebtShare \in Nat \ {0}
    BY <1>2, <1>4, <2>2
  <2>6. /\ DebtOf(e, other) = (b * e.vaultDebtVal) \div e.vaultDebtShare
        /\ DebtOf(d, other) = (b * V) \div S
        /\ debtShareToVal(d, b + 1) = ((b + 1) * V) \div S
    BY <1>1, <2>1, <2>5 DEF DebtOf, debtShareToVal
  <2>7. /\ (b * V) \div S \in Nat /\ (b * e.vaultDebtVal) \div e.vaultDebtShare \in Nat
        /\ ((b + 1) * V) \div S \in Nat
    <3>1. b * V \in Nat /\ b * e.vaultDebtVal \in Nat /\ (b + 1) * V \in Nat
      BY <1>2, <2>2
    <3> QED BY <2>1, <2>5, <3>1, Division
  <2> QED BY <2>4, <2>6, <2>7 DEF StaysClose
<1> QED BY <1>3, <1>4

\* No debt but interest moves in addCollateral, and none in a call that is undone.
LEMMA SameIsClose ==
  ASSUME NEW d, GoodPool(d), NEW id \in Ids
  PROVE  StaysClose(d, d, id)
<1> DEFINE b == d.debtShare[id]
           S == d.vaultDebtShare
           V == d.vaultDebtVal
<1>1. b \in Nat /\ S \in Nat /\ V \in Nat /\ DebtOf(d, id) \in Nat
  BY ShareBound, DebtBound
<1>2. CASE S = 0
  BY <1>1, <1>2 DEF StaysClose, DebtOf, debtShareToVal
<1>3. CASE S # 0
  <2> DEFINE p == b * V
             q == (b + 1) * V
  <2>1. p \in Nat /\ q \in Nat /\ p <= q
    BY <1>1
  <2>2. DebtOf(d, id) = p \div S /\ debtShareToVal(d, b + 1) = q \div S
    BY <1>3 DEF DebtOf, debtShareToVal
  <2> HIDE DEF p, q
  <2>3. p \div S <= q \div S /\ q \div S \in Nat
    BY <1>1, <1>3, <2>1, QuotientsMonotone, Division
  <2> QED BY <1>1, <2>2, <2>3 DEF StaysClose
<1> QED BY <1>2, <1>3

\* Accrued is what the accrue modifier makes of a storage, and keeps its debt in order.
LEMMA AccruedGood ==
  ASSUME NEW s \in Storages, GoodPool(s.debt)
  PROVE  GoodPool(Accrued(s)) /\ (s.timePast = 0 => Accrued(s) = s.debt)
<1> DEFINE V == s.debt.vaultDebtVal
           rate == getInterestRate(V, s.bal)
           a == rate * V * s.timePast
<1>1. /\ V \in Nat /\ s.bal \in Nat /\ s.timePast \in Nat /\ s.debt \in DebtPools
      /\ WAD \in Nat \ {0}
  BY InterestAssumption DEF Storages, DebtPools
<1>2. rate \in Nat
  BY <1>1, RateNat
<1>3. Accrued(s) = AddInterest(s.debt, a \div WAD)
  BY DEF Accrued, Due
<1> HIDE DEF rate
<1>4. a \in Nat /\ (s.timePast = 0 => a = 0) /\ 0 \div WAD = 0
  BY <1>1, <1>2
<1> HIDE DEF a
<1>5. a \div WAD \in Nat /\ (V = 0 => a \div WAD = 0)
  <2>1. V = 0 => a = 0
    BY <1>1, <1>2 DEF a
  <2> QED BY <1>1, <1>4, <2>1, Division
<1>6. GoodPool(Accrued(s))
  BY <1>3, <1>5, AddInterestGood
<1>7. s.timePast = 0 => Accrued(s) = [s.debt EXCEPT !.vaultDebtVal = V + 0]
  BY <1>3, <1>4 DEF AddInterest
<1>8. s.timePast = 0 => Accrued(s) = s.debt
  BY <1>1, <1>7 DEF DebtPools
<1> QED BY <1>6, <1>8

\* The storage as it is, accrued.
LEMMA AccruedNow == Accrued(Storage) = AccruedDebt
BY DEF Accrued, Due, AccruedDebt, pendingInterest, Storage

(* While a call waits nobody but the call itself has moved debt. *)
LEMMA MovedStep == IInv /\ OnlyOneMoved /\ [Next]_vars => OnlyOneMoved'
<1> SUFFICES ASSUME IInv, OnlyOneMoved, [Next]_vars PROVE OnlyOneMoved'
  OBVIOUS
<1>1. ASSUME tx'.kind # "none" => /\ tx.kind # "none" /\ tx'.kind = tx.kind /\ tx'.id = tx.id
                                  /\ UNCHANGED <<debt, saved>>
      PROVE  OnlyOneMoved'
  BY <1>1 DEF OnlyOneMoved, Accrued, Due
<1>2. ASSUME saved' = Storage,
             debt' = IF tx'.kind = "addCollateral" THEN AccruedDebt ELSE RemoveDebt(AccruedDebt, tx'.id)
      PROVE  OnlyOneMoved'
  <2>1. Accrued(saved') = AccruedDebt
    BY <1>2, AccruedNow
  <2>2. OnlyOneMoved' = (tx'.kind # "none" =>
          debt' = IF tx'.kind = "addCollateral" THEN Accrued(saved') ELSE RemoveDebt(Accrued(saved'), tx'.id))
    BY DEF OnlyOneMoved, Accrued, Due
  <2> QED BY <1>2, <2>1, <2>2
<1>3. tx.kind = "none" => tx = NoTx
  BY DEF IInv, AtRest
<1>4. CASE UNCHANGED vars
  BY <1>1, <1>4 DEF vars
<1>5. CASE \E amount \in Amounts : deposit(amount) \/ receiveToken(amount)
  BY <1>1, <1>5 DEF deposit, receiveToken, nonReentrant
<1>6. CASE \E share \in 1..MaxSupply : withdraw(share)
  BY <1>1, <1>6 DEF withdraw, nonReentrant
<1>7. CASE \E value \in 1..MaxToken : withdrawReserve(value) \/ reduceReserve(value)
  BY <1>1, <1>7 DEF withdrawReserve, reduceReserve, nonReentrant
<1>8. CASE \E pid \in PoolIds : setFairLaunchPoolId(pid)
  BY <1>1, <1>8 DEF setFairLaunchPoolId
<1>9. CASE \E user \in Users, worker \in Workers, strategy \in Strategies,
              id \in Ids \cup {NO_ID}, borrow \in Amounts \cup {0},
              maxReturn \in MaxReturns :
             beginWork(user, worker, strategy, id, borrow, maxReturn)
  <2>1. PICK id : /\ debt' = RemoveDebt(AccruedDebt, id) /\ tx'.id = id /\ tx'.kind = "work"
                  /\ saved' = Storage
    BY <1>9 DEF beginWork, Wait, NoTx
  <2> QED BY <1>2, <2>1
<1>10. CASE \E user \in Users, strategy \in Strategies, id \in Ids,
              health \in HealthLevels :
             beginAddCollateral(user, strategy, id, health)
  <2>1. debt' = AccruedDebt /\ tx'.kind = "addCollateral" /\ saved' = Storage
    BY <1>10 DEF beginAddCollateral, Wait, NoTx
  <2> QED BY <1>2, <2>1
<1>11. CASE \E liquidator \in Users, id \in Ids, health \in HealthLevels :
             beginKill(liquidator, id, health)
  <2>1. PICK id : /\ debt' = RemoveDebt(AccruedDebt, id) /\ tx'.id = id /\ tx'.kind = "kill"
                  /\ saved' = Storage
    BY <1>11 DEF beginKill, Wait, NoTx
  <2> QED BY <1>2, <2>1
<1>12. CASE \E health \in HealthLevels : finishWork(health) \/ finishAddCollateral(health)
  BY <1>1, <1>12 DEF finishWork, finishAddCollateral, Return, NoTx
<1>13. CASE finishKill
  BY <1>1, <1>13 DEF finishKill, Return, NoTx
<1>14. CASE \E sender \in Strategies : requestFunds(sender)
  <2>1. POSITION_ID # NO_ID /\ UNCHANGED <<debt, saved>>
    BY <1>14 DEF requestFunds
  <2>2. tx.kind # "none" /\ tx \in Calls
    BY <2>1 DEF IInv, AtRest, TypeOK
  <2>3. tx'.kind = tx.kind /\ tx'.id = tx.id
    BY <1>14, <2>2 DEF requestFunds, Calls
  <2> QED BY <1>1, <2>1, <2>2, <2>3
<1>15. CASE Tick
  BY <1>1, <1>15 DEF Tick, nonReentrant
<1>16. CASE Revert
  BY <1>1, <1>16 DEF Revert, Return, NoTx
<1> QED BY <1>4, <1>5, <1>6, <1>7, <1>8, <1>9, <1>10, <1>11, <1>12, <1>13, <1>14, <1>15, <1>16 DEF Next

(* A call that ends has worked on its own position and on nothing else. *)
LEMMA EndedDebt ==
  ASSUME IInv, OnlyOneMoved, tx # NoTx, tx' = NoTx, [Next]_vars
  PROVE  /\ saved \in Storages /\ GoodPool(saved.debt) /\ tx.id \in Ids /\ tx.kind # "none"
         /\ Accrued(Storage') = Accrued(saved) \/ Worked(Accrued(saved), Accrued(Storage'), tx.id)
<1>1. tx.kind # "none" /\ TypeOK /\ Waiting
  BY DEF IInv, AtRest
<1>2. saved \in Storages /\ GoodPool(saved.debt) /\ tx.id \in Ids
  BY <1>1 DEF TypeOK, Waiting
<1>3. debt = IF tx.kind = "addCollateral" THEN Accrued(saved) ELSE RemoveDebt(Accrued(saved), tx.id)
  BY <1>1 DEF OnlyOneMoved
<1>4. IInv'
  BY StepInv
<1>5. ASSUME timePast' = 0 PROVE Accrued(Storage') = debt'
  <2>1. Storage' \in Storages /\ GoodPool(debt')
    BY <1>4 DEF IInv, TypeOK
  <2>2. Storage'.timePast = 0 /\ Storage'.debt = debt'
    BY <1>5 DEF Storage
  <2> HIDE DEF Storage
  <2> QED BY <2>1, <2>2, AccruedGood
<1>6. tx'.kind = "none"
  BY DEF NoTx
<1>7. CASE \E health \in HealthLevels : finishWork(health)
  <2>1. PICK health \in HealthLevels : finishWork(health)
    BY <1>7
  <2>2. PICK left \in Nat : timePast' = 0 /\ debt' = IF left > 0 THEN AddDebt(debt, tx.id, left) ELSE debt
    BY <2>1, FinishWorkStep
  <2>3. debt = RemoveDebt(Accrued(saved), tx.id)
    BY <1>3, <2>1 DEF finishWork
  <2>4. Accrued(Storage') = debt'
    BY <1>5, <2>2
  <2> QED BY <1>1, <1>2, <2>2, <2>3, <2>4 DEF Worked
<1>8. CASE \E health \in HealthLevels : finishAddCollateral(health)
  <2>1. tx.kind = "addCollateral" /\ debt' = debt /\ timePast' = timePast
    BY <1>8 DEF finishAddCollateral
  <2>2. timePast' = 0
    BY <1>1, <2>1 DEF Waiting
  <2> QED BY <1>1, <1>2, <1>3, <1>5, <2>1, <2>2
<1>9. CASE finishKill
  <2>1. tx.kind = "kill" /\ debt' = debt /\ timePast' = timePast
    BY <1>9 DEF finishKill
  <2>2. timePast' = 0
    BY <1>1, <2>1 DEF Waiting
  <2> QED BY <1>1, <1>2, <1>3, <1>5, <2>1, <2>2 DEF Worked
<1>10. CASE Revert
  <2>1. Storage' = saved
    BY <1>10, RevertStep
  <2> QED BY <1>1, <1>2, <2>1
<1>11. tx' # tx /\ ~nonReentrant
  BY <1>1, <1>6 DEF nonReentrant
<1>12. ~ \E sender \in Strategies : requestFunds(sender)
  <2> SUFFICES ASSUME NEW sender \in Strategies, requestFunds(sender) PROVE FALSE
    OBVIOUS
  <2>1. tx'.kind = tx.kind
    BY <1>1 DEF requestFunds, TypeOK, Calls
  <2> QED BY <1>1, <1>6, <2>1
<1> DEFINE Goal == Accrued(Storage') = Accrued(saved) \/ Worked(Accrued(saved), Accrued(Storage'), tx.id)
<1>13. Goal
  <2> SUFFICES ASSUME ~ Goal PROVE FALSE
    OBVIOUS
  <2>1. /\ ~ \E health \in HealthLevels : finishWork(health)
        /\ ~ \E health \in HealthLevels : finishAddCollateral(health)
        /\ ~ finishKill /\ ~ Revert
    BY <1>7, <1>8, <1>9, <1>10
  <2> HIDE DEF Goal
  <2>2. CASE UNCHANGED vars
    BY <1>11, <2>2 DEF vars
  <2>3. CASE \E amount \in Amounts : deposit(amount) \/ receiveToken(amount)
    BY <1>11, <2>3 DEF deposit, receiveToken
  <2>4. CASE \E share \in 1..MaxSupply : withdraw(share)
    BY <1>11, <2>4 DEF withdraw
  <2>5. CASE \E value \in 1..MaxToken : withdrawReserve(value) \/ reduceReserve(value)
    BY <1>11, <2>5 DEF withdrawReserve, reduceReserve
  <2>6. CASE \E pid \in PoolIds : setFairLaunchPoolId(pid)
    BY <1>11, <2>6 DEF setFairLaunchPoolId
  <2>7. CASE \E user \in Users, worker \in Workers, strategy \in Strategies,
                id \in Ids \cup {NO_ID}, borrow \in Amounts \cup {0},
                maxReturn \in MaxReturns :
               beginWork(user, worker, strategy, id, borrow, maxReturn)
    BY <1>11, <2>7 DEF beginWork
  <2>8. CASE \E user \in Users, strategy \in Strategies, id \in Ids,
                health \in HealthLevels :
               beginAddCollateral(user, strategy, id, health)
    BY <1>11, <2>8 DEF beginAddCollateral
  <2>9. CASE \E liquidator \in Users, id \in Ids, health \in HealthLevels :
               beginKill(liquidator, id, health)
    BY <1>11, <2>9 DEF beginKill
  <2>10. CASE Tick
    BY <1>11, <2>10 DEF Tick
  <2> QED BY <1>12, <2>1, <2>2, <2>3, <2>4, <2>5, <2>6, <2>7, <2>8, <2>9, <2>10 DEF Next
<1> QED BY <1>1, <1>2, <1>13

\* A call on one position moves the debt of the others only up, interest
\* apart, and never above what one share more would have owed, and a token:
\* for any pool, although _removeDebt and _addDebt round twice.
THEOREM BystandersStayStable == Spec => BystanderDebtStable
<1>1. ASSUME IInv, OnlyOneMoved, [Next]_vars, tx # NoTx, tx' = NoTx, NEW id \in Ids \ {tx.id}
      PROVE  DebtOf(Accrued(Committed'), id) \in
               DebtOf(Accrued(Committed), id)..
                 (debtShareToVal(Accrued(Committed), Accrued(Committed).debtShare[id] + 1) + 1)
  <2> DEFINE d == Accrued(saved)
             e == Accrued(Storage')
  <2>1. Committed = saved /\ Committed' = Storage'
    BY <1>1 DEF Committed
  <2>2. saved \in Storages /\ GoodPool(saved.debt) /\ tx.id \in Ids /\ (e = d \/ Worked(d, e, tx.id))
    BY <1>1, EndedDebt
  <2>3. GoodPool(d)
    BY <2>2, AccruedGood
  <2> HIDE DEF d, e
  <2>4. StaysClose(d, e, id)
    BY <1>1, <2>2, <2>3, OthersStayClose, SameIsClose
  <2> QED BY <2>1, <2>4 DEF StaysClose, d, e
<1>2. ASSUME IInv, OnlyOneMoved, [Next]_vars
      PROVE  LET old == Accrued(Committed)
                 new == Accrued(Committed')
             IN  tx # NoTx /\ tx' = NoTx =>
                   \A id \in Ids \ {tx.id} :
                     DebtOf(new, id) \in
                       DebtOf(old, id)..(debtShareToVal(old, old.debtShare[id] + 1) + 1)
  BY <1>1, <1>2
<1>3. Init => IInv /\ OnlyOneMoved
  BY InitInv DEF Init, NoTx, OnlyOneMoved
<1>4. (IInv /\ OnlyOneMoved) /\ [Next]_vars => (IInv /\ OnlyOneMoved)'
  BY StepInv, MovedStep
<1> QED BY <1>2, <1>3, <1>4, PTL DEF Spec, BystanderDebtStable
-----------------------------------------------------------------------------
(* The vault in the middle of a call, and the price of time that has passed. *)

\* What a step does to the state that the chain shows: nothing, or it commits
\* an accrued state, or it is one of the four that accrue nothing.
Unaccruing ==
  \/ \E amount \in Amounts : receiveToken(amount)
  \/ \E value \in 1..MaxToken : withdrawReserve(value) \/ reduceReserve(value)
  \/ \E pid \in PoolIds : setFairLaunchPoolId(pid)
  \/ Tick

LEMMA CommittedStep ==
  ASSUME IInv, [Next]_vars
  PROVE  \/ Committed' = Committed
         \/ Committed' = Storage' /\ timePast' = 0
         \/ Unaccruing /\ Committed = Storage /\ Committed' = Storage'
<1>1. tx.kind = "none" <=> tx = NoTx
  BY DEF IInv, AtRest, NoTx
<1>2. tx # NoTx => timePast = 0
  BY <1>1 DEF IInv, Waiting
<1>3. CASE UNCHANGED vars
  BY <1>3 DEF vars, Committed, Storage
<1>4. ASSUME tx = NoTx, tx' = tx, timePast' = 0
      PROVE  Committed' = Storage' /\ timePast' = 0
  BY <1>4 DEF Committed
<1>5. ASSUME tx = NoTx, tx' # NoTx, saved' = Storage
      PROVE  Committed' = Committed
  BY <1>5 DEF Committed
<1>6. ASSUME tx' = tx, UNCHANGED saved, Unaccruing
      PROVE  \/ Committed' = Committed
             \/ Unaccruing /\ Committed = Storage /\ Committed' = Storage'
  BY <1>6 DEF Committed
<1>7. ASSUME tx # NoTx, tx' = NoTx, timePast' = 0
      PROVE  Committed' = Storage' /\ timePast' = 0
  BY <1>7 DEF Committed
<1>8. ASSUME NEW amount \in Amounts, deposit(amount) PROVE tx = NoTx /\ tx' = tx /\ timePast' = 0
  BY <1>1, <1>8 DEF deposit, nonReentrant
<1>9. ASSUME NEW share \in 1..MaxSupply, withdraw(share) PROVE tx = NoTx /\ tx' = tx /\ timePast' = 0
  BY <1>1, <1>9 DEF withdraw, nonReentrant
<1>10. ASSUME Unaccruing PROVE tx' = tx /\ UNCHANGED saved
  BY <1>10 DEF Unaccruing, receiveToken, withdrawReserve, reduceReserve, setFairLaunchPoolId, Tick
<1>11. CASE \E user \in Users, worker \in Workers, strategy \in Strategies,
              id \in Ids \cup {NO_ID}, borrow \in Amounts \cup {0},
              maxReturn \in MaxReturns :
             beginWork(user, worker, strategy, id, borrow, maxReturn)
  <2>1. tx.kind = "none" /\ tx'.kind = "work" /\ saved' = Storage
    BY <1>11 DEF beginWork, nonReentrant, Wait, NoTx
  <2>2. tx' # NoTx
    BY <2>1 DEF NoTx
  <2> QED BY <2>1, <2>2, <1>1, <1>5
<1>12. CASE \E user \in Users, strategy \in Strategies, id \in Ids,
              health \in HealthLevels :
             beginAddCollateral(user, strategy, id, health)
  <2>1. tx.kind = "none" /\ tx'.kind = "addCollateral" /\ saved' = Storage
    BY <1>12 DEF beginAddCollateral, nonReentrant, Wait, NoTx
  <2>2. tx' # NoTx
    BY <2>1 DEF NoTx
  <2> QED BY <2>1, <2>2, <1>1, <1>5
<1>13. CASE \E liquidator \in Users, id \in Ids, health \in HealthLevels :
             beginKill(liquidator, id, health)
  <2>1. tx.kind = "none" /\ tx'.kind = "kill" /\ saved' = Storage
    BY <1>13 DEF beginKill, nonReentrant, Wait, NoTx
  <2>2. tx' # NoTx
    BY <2>1 DEF NoTx
  <2> QED BY <2>1, <2>2, <1>1, <1>5
<1>14. CASE \E health \in HealthLevels : finishWork(health) \/ finishAddCollateral(health)
  <2>1. tx.kind # "none" /\ tx' = NoTx /\ timePast' = timePast
    BY <1>14 DEF finishWork, finishAddCollateral, Return
  <2> QED BY <2>1, <1>1, <1>2, <1>7
<1>15. CASE finishKill
  <2>1. tx.kind # "none" /\ tx' = NoTx /\ timePast' = timePast
    BY <1>15 DEF finishKill, Return
  <2> QED BY <2>1, <1>1, <1>2, <1>7
<1>16. CASE \E sender \in Strategies : requestFunds(sender)
  <2>1. POSITION_ID # NO_ID /\ UNCHANGED saved
    BY <1>16 DEF requestFunds
  <2>2. tx.kind # "none" /\ tx \in Calls
    BY <2>1 DEF IInv, AtRest, TypeOK
  <2>3. tx'.kind = tx.kind
    BY <1>16, <2>2 DEF requestFunds, Calls
  <2>4. tx' # NoTx
    BY <2>2, <2>3 DEF NoTx
  <2> QED BY <2>1, <2>2, <2>4, <1>1 DEF Committed
<1>17. CASE Revert
  <2>1. Storage' = saved /\ tx # NoTx /\ tx' = NoTx
    BY <1>17, RevertStep DEF Revert, Return
  <2> QED BY <2>1 DEF Committed
<1>18. CASE Unaccruing
  BY <1>6, <1>10, <1>18
<1>19. CASE \E amount \in Amounts : deposit(amount)
  BY <1>19, <1>8, <1>4
<1>20. CASE \E share \in 1..MaxSupply : withdraw(share)
  BY <1>20, <1>9, <1>4
<1> QED BY <1>3, <1>11, <1>12, <1>13, <1>14, <1>15, <1>16, <1>17, <1>18, <1>19, <1>20 DEF Next, Unaccruing

\* Interest is due for time and debt, the more the fewer tokens are left.
LEMMA DueFalls ==
  ASSUME NEW s \in Storages, NEW t \in Storages, t.debt.vaultDebtVal = s.debt.vaultDebtVal,
         t.timePast = s.timePast, s.bal <= t.bal
  PROVE  Due(s) \in Nat /\ Due(t) \in Nat /\ Due(t) <= Due(s)
<1> DEFINE V == s.debt.vaultDebtVal
           T == s.timePast
           high == getInterestRate(V, s.bal)
           low == getInterestRate(V, t.bal)
<1>1. /\ V \in Nat /\ T \in Nat /\ s.bal \in Nat /\ t.bal \in Nat /\ WAD \in Nat \ {0}
      /\ Due(s) = (high * V * T) \div WAD /\ Due(t) = (low * V * T) \div WAD
  BY InterestAssumption DEF Storages, DebtPools, Due
<1>2. high \in Nat /\ low \in Nat
  BY <1>1, RateNat
<1>3. V # 0 => low <= high
  <2>1. SUFFICES ASSUME V # 0 PROVE low <= high
    OBVIOUS
  <2> HIDE DEF V
  <2>2. V * (V + s.bal) <= V * (V + t.bal)
    BY <1>1, Products
  <2>3. V + s.bal > 0 /\ V + t.bal > 0
    BY <1>1, <2>1
  <2> QED BY <1>1, <2>2, <2>3, RateRises
<1> HIDE DEF V, T, high, low
<1>4. low * V * T \in Nat /\ high * V * T \in Nat /\ low * V * T <= high * V * T
  <2>1. CASE V = 0
    BY <1>1, <1>2, <2>1
  <2>2. CASE V # 0
    <3>1. low * V <= high * V /\ low * V \in Nat /\ high * V \in Nat
      BY <1>1, <1>2, <1>3, <2>2, Products
    <3> QED BY <1>1, <3>1, Products
  <2> QED BY <2>1, <2>2
<1> QED BY <1>1, <1>4, QuotientsMonotone, Division

\* What Due is: the interest on a debt of V in a vault that holds b tokens, for T ticks.
Interest(V, b, T) == (getInterestRate(V, b) * V * T) \div WAD

\* Two times are cut into one division each, or into one: a unit is lost at most.
LEMMA TwoDivisions ==
  ASSUME NEW x \in Nat, NEW y \in Nat, NEW n \in Nat \ {0}
  PROVE  (x + y) \div n <= (x \div n) + (y \div n) + 1
<1> DEFINE q == (x + y) \div n
           c == x \div n
           d == y \div n
<1>1. q \in Nat /\ c \in Nat /\ d \in Nat /\ n * q <= x + y /\ x < n * c + n /\ y < n * d + n
  BY Division
<1> HIDE DEF q, c, d
<1>2. n * q < n * c + n * d + 2 * n
  BY <1>1
<1>3. n * (c + d + 2) = n * c + n * d + 2 * n
  BY <1>1
<1>4. q < c + d + 2
  <2>1. CASE c + d + 2 <= q
    <3> DEFINE e == c + d + 2
    <3>1. e \in Nat /\ e <= q /\ n * e = n * c + n * d + 2 * n
      BY <1>1, <1>3, <2>1
    <3> HIDE DEF e
    <3>2. e * n <= q * n
      BY <1>1, <3>1, Products
    <3>3. n * e <= n * q
      BY <1>1, <3>1, <3>2
    <3> QED BY <1>1, <1>2, <3>1, <3>3
  <2> QED BY <1>1, <2>1
<1> QED BY <1>1, <1>4 DEF q, c, d

\* Nobody makes borrowing cheaper by having the vault accrue in the middle of a period, as every
\* deposit, loan and liquidation does: the rate is read again from a debt that has grown, and what the
\* two divisions of pendingInterest drop instead of one is a unit at most.
THEOREM AccruingTwiceIsNoCheaper ==
  ASSUME NEW V \in Nat, NEW b \in Nat, NEW t \in Nat, NEW u \in Nat
  PROVE  /\ \A s \in Storages : Due(s) = Interest(s.debt.vaultDebtVal, s.bal, s.timePast)
         /\ Interest(V, b, t + u) <= Interest(V, b, t) + Interest(V + Interest(V, b, t), b, u) + 1
<1> DEFINE W == V + Interest(V, b, t)
           low == getInterestRate(V, b)
           high == getInterestRate(W, b)
           v == low * V
           w == high * W
<1>1. \A s \in Storages : Due(s) = Interest(s.debt.vaultDebtVal, s.bal, s.timePast)
  BY DEF Due, Interest
<1>2. WAD \in Nat \ {0} /\ low \in Nat /\ v \in Nat
  <2>1. WAD \in Nat \ {0} /\ low \in Nat
    BY RateNat, InterestAssumption
  <2> HIDE DEF low
  <2>2. low * V \in Nat
    BY <2>1
  <2> QED BY <2>1, <2>2
<1>3. Interest(V, b, t) \in Nat /\ v * t \in Nat
  <2>1. v * t \in Nat
    <3> HIDE DEF v
    <3> QED BY <1>2
  <2>2. Interest(V, b, t) = (v * t) \div WAD
    BY DEF Interest
  <2> HIDE DEF v
  <2> QED BY <1>2, <2>1, <2>2, Division
<1>4. W \in Nat /\ V <= W
  BY <1>3
<1> HIDE DEF W
<1>5. high \in Nat /\ w \in Nat
  <2>1. high \in Nat
    BY <1>4, RateNat
  <2> HIDE DEF high
  <2>2. high * W \in Nat
    BY <1>4, <2>1
  <2> QED BY <2>1, <2>2
<1>6. v <= w
  <2>1. CASE V = 0
    BY <1>2, <1>5, <2>1
  <2>2. CASE V # 0
    <3>1. V * (W + b) <= W * (V + b)
      <4>1. V * b <= W * b
        BY <1>4, Products
      <4>2. V * (W + b) = V * W + V * b /\ W * (V + b) = V * W + W * b
        BY <1>4
      <4>3. V * W \in Nat /\ V * b \in Nat /\ W * b \in Nat
        BY <1>4
      <4> DEFINE x == V * b
                 y == W * b
                 z == V * W
      <4>4. x <= y /\ x \in Nat /\ y \in Nat /\ z \in Nat /\ V * (W + b) = z + x /\ W * (V + b) = z + y
        BY <4>1, <4>2, <4>3
      <4> HIDE DEF x, y, z
      <4>5. z + x <= z + y
        BY <4>4
      <4> QED BY <4>4, <4>5
    <3>2. V + b > 0 /\ W + b > 0
      BY <1>4, <2>2
    <3>3. low <= high
      BY <1>4, <3>1, <3>2, RateRises
    <3> HIDE DEF low, high
    <3>4. low * V <= high * V /\ high * V \in Nat /\ low * V \in Nat
      BY <1>2, <1>5, <3>3, Products
    <3>5. V * high <= W * high /\ V * high = high * V /\ W * high = high * W
      BY <1>4, <1>5, Products
    <3> DEFINE m == high * V
    <3>6. m \in Nat /\ v <= m /\ m <= w
      BY <3>4, <3>5
    <3> HIDE DEF m, v, w
    <3> QED BY <1>2, <1>5, <3>6
  <2> QED BY <2>1, <2>2
<1>7. /\ Interest(V, b, t) = (v * t) \div WAD
      /\ Interest(V, b, t + u) = (v * (t + u)) \div WAD
      /\ Interest(W, b, u) = (w * u) \div WAD
  BY DEF Interest
<1> HIDE DEF v, w
<1>8. v * (t + u) = v * t + v * u /\ v * u \in Nat /\ w * u \in Nat /\ v * u <= w * u
  BY <1>2, <1>5, <1>6, Products
<1> DEFINE x == v * t
           y == v * u
           z == w * u
<1>9. /\ x \in Nat /\ y \in Nat /\ z \in Nat /\ y <= z
      /\ Interest(V, b, t) = x \div WAD /\ Interest(V, b, t + u) = (x + y) \div WAD /\ Interest(W, b, u) = z \div WAD
  BY <1>3, <1>7, <1>8
<1> HIDE DEF x, y, z
<1>10. (x + y) \div WAD <= (x \div WAD) + (y \div WAD) + 1 /\ y \div WAD <= z \div WAD
  BY <1>2, <1>9, TwoDivisions, QuotientsMonotone
<1>11. x \div WAD \in Nat /\ y \div WAD \in Nat /\ z \div WAD \in Nat /\ (x + y) \div WAD \in Nat
  BY <1>2, <1>9, Division
<1>12. (x + y) \div WAD <= (x \div WAD) + (z \div WAD) + 1
  BY <1>10, <1>11
<1> QED BY <1>1, <1>9, <1>12 DEF W

\* The interest that is due is a natural number.
LEMMA DueNat ==
  ASSUME NEW s \in Storages
  PROVE  Due(s) \in Nat
<1>1. s.bal \in Nat
  BY DEF Storages
<1> QED BY <1>1, DueFalls

\* Nothing is due just after an accrual.
LEMMA NothingDue ==
  ASSUME NEW s \in Storages, s.timePast = 0
  PROVE  Due(s) = 0
<1>1. getInterestRate(s.debt.vaultDebtVal, s.bal) \in Nat /\ s.debt.vaultDebtVal \in Nat /\ WAD \in Nat \ {0}
  BY RateNat, InterestAssumption DEF Storages, DebtPools
<1>2. getInterestRate(s.debt.vaultDebtVal, s.bal) * s.debt.vaultDebtVal * s.timePast = 0
  BY <1>1
<1>3. 0 \div WAD = 0
  BY <1>1
<1> QED BY <1>2, <1>3 DEF Due

\* Nobody but the owner can make the time that has passed dearer to borrowers:
\* for every rate curve, every amount and every order of calls, since whatever
\* else takes tokens out of the vault accrues first.
THEOREM OnlyOwnerReprices == Spec => OnlyOwnerRepricesPast
<1>1. ASSUME IInv, [Next]_vars
      PROVE  Due(Committed) < Due(Committed') =>
               Tick \/ \E value \in 1..MaxToken : withdrawReserve(value)
  <2> SUFFICES ASSUME ~Tick, ~ \E value \in 1..MaxToken : withdrawReserve(value)
               PROVE  ~(Due(Committed) < Due(Committed'))
    OBVIOUS
  <2>1. IInv'
    BY <1>1, StepInv
  <2>2. Committed \in Storages /\ Committed' \in Storages /\ Storage' \in Storages
    BY <1>1, <2>1 DEF IInv, TypeOK, Committed
  <2>3. Due(Committed) \in Nat /\ Due(Committed') \in Nat
    BY <2>2, DueNat
  <2>4. CASE Committed' = Committed
    BY <2>3, <2>4
  <2>5. CASE Committed' = Storage' /\ timePast' = 0
    <3>1. Storage'.timePast = 0
      BY <2>5 DEF Storage
    <3>2. Due(Committed') = 0
      BY <2>2, <2>5, <3>1, NothingDue
    <3> QED BY <2>3, <3>2
  <2>6. CASE Unaccruing /\ Committed = Storage /\ Committed' = Storage'
    <3>1. UNCHANGED <<debt, timePast>> /\ bal <= bal'
      <4>1. bal \in Nat /\ Amounts \subseteq Nat
        BY <1>1, Typed, ConfigAssumption DEF IInv
      <4> QED BY <2>6, <4>1 DEF Unaccruing, receiveToken, reduceReserve, setFairLaunchPoolId
    <3>2. /\ Storage'.debt.vaultDebtVal = Storage.debt.vaultDebtVal
          /\ Storage'.timePast = Storage.timePast /\ Storage.bal <= Storage'.bal
      BY <3>1 DEF Storage
    <3>3. Due(Committed') <= Due(Committed)
      BY <2>2, <2>6, <3>2, DueFalls
    <3> QED BY <2>3, <3>3
  <2> QED BY <1>1, <2>4, <2>5, <2>6, CommittedStep
<1> QED BY <1>1, Invariance, PTL DEF Spec, OnlyOwnerRepricesPast

\* The ledger of a waiting call: what the lenders own is in the vault, owed to
\* it, or in the loan the call works on.
Ledger ==
  tx.kind # "none" =>
    /\ tx.before + debt.vaultDebtVal + Outstanding = saved.bal + Accrued(saved).vaultDebtVal
    /\ reservePool <= DueReserve(saved)

(* Every step keeps the ledger of the waiting call. *)
LEMMA LedgerStep == IInv /\ Ledger /\ [Next]_vars => Ledger'
<1> SUFFICES ASSUME IInv, Ledger, [Next]_vars PROVE Ledger'
  OBVIOUS
<1>1. TypeOK /\ GoodPool(debt) /\ (tx.kind = "none" => tx = NoTx) /\ IInv'
  BY StepInv DEF IInv, AtRest
<1>2. ASSUME tx'.kind # "none" => /\ tx.kind # "none" /\ tx'.kind = tx.kind /\ tx'.debt = tx.debt
                                  /\ tx'.before = tx.before
                                  /\ UNCHANGED <<debt, saved>> /\ reservePool' <= reservePool
      PROVE  Ledger'
  <2> SUFFICES ASSUME tx'.kind # "none" PROVE Ledger'
    BY DEF Ledger
  <2>1. /\ DueReserve(saved)' = DueReserve(saved) /\ Accrued(saved)' = Accrued(saved)
        /\ Outstanding' = Outstanding
    BY <1>2 DEF DueReserve, Accrued, Due, Outstanding
  <2>2. DueReserve(saved) \in Nat
    <3>1. saved \in Storages
      BY <1>1 DEF TypeOK
    <3>2. Due(saved) \in Nat /\ saved.reservePool \in Nat
      BY <3>1, DueNat DEF Storages
    <3>3. (Due(saved) * ReservePoolBps) \div BPS \in Nat
      BY <3>2, Bps, ConfigAssumption
    <3> QED BY <3>2, <3>3 DEF DueReserve
  <2>3. reservePool \in Nat /\ reservePool' \in Nat
    BY <1>1, Typed DEF IInv, TypeOK, Storage, Storages
  <2>4. reservePool' <= DueReserve(saved)
    BY <1>2, <2>2, <2>3 DEF Ledger
  <2> QED BY <1>2, <2>1, <2>4 DEF Ledger
<1>3. /\ GoodPool(AccruedDebt) /\ AccruedReserve \in Nat /\ bal \in Nat /\ AccruedDebt.vaultDebtVal \in Nat
      /\ Accrued(Storage) = AccruedDebt /\ DueReserve(Storage) = AccruedReserve
  <2>1. DueReserve(Storage) = AccruedReserve
    BY DEF DueReserve, Due, AccruedReserve, pendingInterest, Storage
  <2> QED BY <1>1, <2>1, Accrual, AccruedNow, Typed DEF GoodPool, DebtPools
<1>4. ASSUME saved' = Storage, reservePool' = AccruedReserve,
             tx'.before + debt'.vaultDebtVal + Outstanding' = bal + AccruedDebt.vaultDebtVal
      PROVE  Ledger'
  <2>1. Accrued(saved)' = AccruedDebt /\ DueReserve(saved)' = AccruedReserve /\ saved'.bal = bal
    <3>1. Accrued(saved)' = Accrued(saved') /\ DueReserve(saved)' = DueReserve(saved')
      BY DEF Accrued, Due, DueReserve
    <3>2. saved'.bal = bal
      BY <1>4 DEF Storage
    <3> QED BY <1>3, <1>4, <3>1, <3>2
  <2> QED BY <1>3, <1>4, <2>1 DEF Ledger
<1>5. CASE UNCHANGED vars
  BY <1>1, <1>2, <1>5, Typed DEF vars
<1>6. CASE \E amount \in Amounts : deposit(amount) \/ receiveToken(amount)
  BY <1>1, <1>2, <1>6, Typed DEF deposit, receiveToken, nonReentrant, lenderVars
<1>7. CASE \E share \in 1..MaxSupply : withdraw(share)
  BY <1>2, <1>7 DEF withdraw, nonReentrant
<1>8. CASE \E value \in 1..MaxToken : withdrawReserve(value) \/ reduceReserve(value)
  BY <1>1, <1>2, <1>8, Typed DEF withdrawReserve, reduceReserve, nonReentrant
<1>9. CASE \E pid \in PoolIds : setFairLaunchPoolId(pid)
  BY <1>1, <1>2, <1>9, Typed DEF setFairLaunchPoolId, lenderVars
<1>10. CASE \E user \in Users, worker \in Workers, strategy \in Strategies,
              id \in Ids \cup {NO_ID}, borrow \in Amounts \cup {0},
              maxReturn \in MaxReturns :
             beginWork(user, worker, strategy, id, borrow, maxReturn)
  <2>0. PICK user \in Users, worker \in Workers, strategy \in Strategies,
             anId \in Ids \cup {NO_ID}, borrow \in Amounts \cup {0},
             maxReturn \in MaxReturns :
               beginWork(user, worker, strategy, anId, borrow, maxReturn)
    BY <1>10
  <2> DEFINE id == IF anId = NO_ID THEN nextPositionID ELSE anId
  <2>1. /\ debt' = RemoveDebt(AccruedDebt, id) /\ reservePool' = AccruedReserve
        /\ tx'.id = id /\ tx'.kind = "work" /\ tx'.debt = DebtOf(AccruedDebt, id) + borrow
        /\ tx'.before = bal - borrow /\ saved' = Storage
    BY <2>0 DEF beginWork, Wait, NoTx
  <2> HIDE DEF id
  <2>2. id \in Ids /\ borrow \in Nat
    BY <1>1, <2>1, ConfigAssumption DEF IInv, Waiting
  <2>3. /\ debt'.vaultDebtVal = AccruedDebt.vaultDebtVal - DebtOf(AccruedDebt, id)
        /\ DebtOf(AccruedDebt, id) \in Nat
    BY <1>3, <2>1, <2>2, Removed
  <2>4. Outstanding' = DebtOf(AccruedDebt, id) + borrow
    BY <2>1 DEF Outstanding
  <2>5. tx'.before + debt'.vaultDebtVal + Outstanding' = bal + AccruedDebt.vaultDebtVal
    BY <1>3, <2>1, <2>2, <2>3, <2>4
  <2> QED BY <1>4, <2>1, <2>5
<1>11. CASE \E user \in Users, strategy \in Strategies, id \in Ids,
              health \in HealthLevels :
             beginAddCollateral(user, strategy, id, health)
  <2>1. /\ debt' = AccruedDebt /\ reservePool' = AccruedReserve /\ tx'.kind = "addCollateral"
        /\ tx'.before = bal /\ saved' = Storage
    BY <1>11 DEF beginAddCollateral, Wait, NoTx
  <2>2. tx'.before + debt'.vaultDebtVal + Outstanding' = bal + AccruedDebt.vaultDebtVal
    BY <1>3, <2>1 DEF Outstanding
  <2> QED BY <1>4, <2>1, <2>2
<1>12. CASE \E liquidator \in Users, id \in Ids, health \in HealthLevels :
             beginKill(liquidator, id, health)
  <2>1. PICK id \in Ids :
               /\ debt' = RemoveDebt(AccruedDebt, id) /\ reservePool' = AccruedReserve
               /\ tx'.kind = "kill" /\ tx'.debt = DebtOf(AccruedDebt, id)
               /\ tx'.before = bal /\ saved' = Storage
    BY <1>12 DEF beginKill, Wait, NoTx
  <2>2. /\ debt'.vaultDebtVal = AccruedDebt.vaultDebtVal - DebtOf(AccruedDebt, id)
        /\ DebtOf(AccruedDebt, id) \in Nat
    BY <1>3, <2>1, Removed
  <2>3. tx'.before + debt'.vaultDebtVal + Outstanding' = bal + AccruedDebt.vaultDebtVal
    BY <1>3, <2>1, <2>2 DEF Outstanding
  <2> QED BY <1>4, <2>1, <2>3
<1>13. CASE \E health \in HealthLevels : finishWork(health) \/ finishAddCollateral(health)
  BY <1>2, <1>13 DEF finishWork, finishAddCollateral, Return, NoTx
<1>14. CASE finishKill
  BY <1>2, <1>14 DEF finishKill, Return, NoTx
<1>15. CASE \E sender \in Strategies : requestFunds(sender)
  <2>1. POSITION_ID # NO_ID /\ UNCHANGED <<debt, saved, reservePool>>
    BY <1>15 DEF requestFunds, lenderVars
  <2>2. tx.kind # "none" /\ tx \in Calls
    BY <2>1 DEF IInv, AtRest, TypeOK
  <2>3. tx'.kind = tx.kind /\ tx'.debt = tx.debt /\ tx'.before = tx.before
    BY <1>15, <2>2 DEF requestFunds, Calls
  <2> QED BY <1>1, <1>2, <2>1, <2>2, <2>3, Typed
<1>16. CASE Tick
  BY <1>2, <1>16 DEF Tick, nonReentrant
<1>17. CASE Revert
  BY <1>2, <1>17 DEF Revert, Return, NoTx
<1> QED BY <1>5, <1>6, <1>7, <1>8, <1>9, <1>10, <1>11, <1>12, <1>13, <1>14, <1>15, <1>16, <1>17 DEF Next

\* totalToken read in the middle of a call is off by the loan the call works
\* on and by nothing else, for every pool, rate and rounding.
THEOREM OnlyTheLoanIsEverMissing == Spec => []OnlyTheLoanIsMissing
<1>1. Init => Ledger
  BY DEF Init, NoTx, Ledger
<1>2. ASSUME IInv, Ledger PROVE OnlyTheLoanIsMissing
  <2> SUFFICES ASSUME tx # NoTx
               PROVE  LET released == DueReserve(saved) - reservePool
                          atStart  == saved.bal + Accrued(saved).vaultDebtVal - DueReserve(saved)
                      IN  /\ released >= 0
                          /\ totalToken(Storage) + Outstanding = atStart + back + released
    BY DEF OnlyTheLoanIsMissing
  <2>1. tx.kind # "none"
    BY <1>2 DEF IInv, AtRest
  <2>2. /\ tx.before + debt.vaultDebtVal + Outstanding = saved.bal + Accrued(saved).vaultDebtVal
        /\ reservePool <= DueReserve(saved)
    BY <1>2, <2>1 DEF Ledger
  <2>3. /\ bal \in Nat /\ reservePool \in Nat /\ debt.vaultDebtVal \in Nat /\ tx.before \in Nat
        /\ Outstanding \in Nat
    BY <1>2, <2>1, Typed DEF IInv, Outstanding, DebtPools
  <2>4. saved \in Storages /\ GoodPool(saved.debt)
    BY <1>2, <2>1 DEF IInv, Waiting, TypeOK
  <2>5. saved.bal \in Nat /\ Accrued(saved).vaultDebtVal \in Nat
    BY <2>4, AccruedGood DEF GoodPool, DebtPools, Storages
  <2>6. DueReserve(saved) \in Nat
    <3>1. Due(saved) \in Nat /\ saved.reservePool \in Nat
      BY <2>4, DueNat DEF Storages
    <3>2. (Due(saved) * ReservePoolBps) \div BPS \in Nat
      BY <3>1, Bps, ConfigAssumption
    <3> QED BY <3>1, <3>2 DEF DueReserve
  <2>7. totalToken(Storage) = bal + debt.vaultDebtVal - reservePool
    BY DEF totalToken, Storage
  <2>8. DueReserve(saved) - reservePool >= 0
    BY <2>2, <2>3, <2>6
  <2>9. totalToken(Storage) + Outstanding =
          (saved.bal + Accrued(saved).vaultDebtVal - DueReserve(saved)) + (bal - tx.before)
            + (DueReserve(saved) - reservePool)
    <3> DEFINE V == debt.vaultDebtVal
               AV == Accrued(saved).vaultDebtVal
               DR == DueReserve(saved)
               O == Outstanding
               b == saved.bal
               w == tx.before
    <3>1. /\ w + V + O = b + AV /\ {V, AV, DR, O, b, w, bal, reservePool} \subseteq Int
          /\ totalToken(Storage) = bal + V - reservePool
      BY <2>2, <2>3, <2>5, <2>6, <2>7
    <3> HIDE DEF V, AV, DR, O, b, w
    <3>2. totalToken(Storage) + O = (b + AV - DR) + (bal - w) + (DR - reservePool)
      BY <3>1
    <3> QED BY <3>2 DEF V, AV, DR, O, b, w
  <2> QED BY <2>8, <2>9 DEF back
<1> QED BY <1>1, <1>2, LedgerStep, Invariance, PTL DEF Spec
=============================================================================
