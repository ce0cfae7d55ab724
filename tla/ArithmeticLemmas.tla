-------------------------- MODULE ArithmeticLemmas --------------------------
(* Facts about products, quotients and sums that the proofs about shares,    *)
(* values, rates, stakes and rewards cite.  A sum over a finite set is the   *)
(* fold of the module Functions; what holds of it is shown by looking at a   *)
(* smallest subset for which it would not.                                   *)
EXTENDS Integers, Functions, FiniteSetTheorems, WellFoundedInduction, TLAPS

\* What integer division rounds away is less than the divisor.
LEMMA Division ==
  ASSUME NEW a \in Nat, NEW b \in Nat \ {0}
  PROVE  /\ a \div b \in Nat
         /\ b * (a \div b) <= a
         /\ a < b * (a \div b) + b
OBVIOUS

\* A product of naturals is monotone in both factors.
LEMMA Products ==
  ASSUME NEW a \in Nat, NEW b \in Nat, NEW c \in Nat, a <= b
  PROVE  a * c \in Nat /\ a * c <= b * c
OBVIOUS

\* A factor can be cancelled.
LEMMA Cancel ==
  ASSUME NEW a \in Nat, NEW b \in Nat, NEW c \in Nat \ {0}, c * a <= c * b
  PROVE  a <= b
OBVIOUS

\* The quotient of a multiple.
LEMMA ExactDivision ==
  ASSUME NEW a \in Nat, NEW b \in Nat \ {0}
  PROVE  (b * a) \div b = a
OBVIOUS
\* The quotients of two fractions are ordered as the fractions are.
LEMMA Fractions ==
  ASSUME NEW a \in Nat, NEW b \in Nat \ {0},
         NEW c \in Nat, NEW d \in Nat \ {0}, a * d <= c * b
  PROVE  a \div b <= c \div d
<1> DEFINE q == a \div b
           r == c \div d
<1>1. q \in Nat /\ b * q <= a
  BY Division
<1>2. r \in Nat /\ c < d * r + d
  BY Division
<1> HIDE DEF q, r
<1>3. q * d <= c
  <2>1. (b * q) * d <= a * d
    BY <1>1, Products
  <2>2. (b * q) * d = b * (q * d) /\ c * b = b * c
    BY <1>1
  <2>3. b * (q * d) <= b * c /\ q * d \in Nat
    BY <2>1, <2>2, <1>1
  <2> QED BY <2>3, Cancel
<1>4. q <= r
  <2> SUFFICES ASSUME r + 1 <= q PROVE FALSE
    BY <1>1, <1>2
  <2>1. (r + 1) * d <= q * d
    BY <1>1, <1>2, Products
  <2>2. (r + 1) * d = d * r + d
    BY <1>2
  <2> QED BY <2>1, <2>2, <1>1, <1>2, <1>3
<1> QED BY <1>4 DEF q, r

(* Division rounds down monotonically: a larger numerator never gives a smaller quotient. *)
LEMMA QuotientsMonotone ==
  ASSUME NEW a \in Nat, NEW b \in Nat, NEW c \in Nat \ {0}, a <= b
  PROVE  a \div c <= b \div c
<1>1. a * c <= b * c
  BY Products
<1> QED BY <1>1, Fractions

\* A part of a whole is no more than the whole.
LEMMA PartOfWhole ==
  ASSUME NEW a \in Nat, NEW part \in Nat, NEW whole \in Nat \ {0}, part <= whole
  PROVE  /\ (a * part) \div whole \in Nat
         /\ (a * part) \div whole <= a
<1> DEFINE q == (a * part) \div whole
<1>1. a * part \in Nat /\ a * part <= whole * a
  BY Products
<1>2. q \in Nat /\ whole * q <= a * part
  BY <1>1, Division
<1> HIDE DEF q
<1>3. whole * q <= whole * a
  BY <1>1, <1>2
<1>4. q <= a
  BY <1>2, <1>3, Cancel
<1> QED BY <1>2, <1>4 DEF q

----------------------------------------------------------------------------
(* Sums over finite sets. *)

\* What the functions in these sums are on the set they are summed over.
Natural(f, S) == \A x \in S : f[x] \in Nat
Integral(f, S) == \A x \in S : f[x] \in Int
Zero(f, S) == \A x \in S : f[x] = 0
Ordered(f, g, S) == \A x \in S : f[x] \in Int /\ g[x] \in Int /\ f[x] <= g[x]
Same(f, g, S) == \A x \in S : f[x] \in Int /\ f[x] = g[x]
AddUp(f, g, h, S) == \A x \in S : f[x] \in Int /\ g[x] \in Int /\ h[x] = f[x] + g[x]
Multiple(c, f, g, S) == \A x \in S : f[x] \in Int /\ g[x] = c * f[x]
SameBut(f, g, a, S) == /\ \A x \in S : f[x] \in Int /\ g[x] \in Int
                       /\ \A x \in S \ {a} : g[x] = f[x]
CountsOnly(P, f, g, S) == /\ \A x \in S : g[x] = IF x \in P THEN f[x] ELSE 0
                          /\ \A x \in P : f[x] \in Int

\* The element a fold takes next, and the recursion of a sum.
OneOf(s) == CHOOSE x \in s : TRUE
IsSum(g, f, S) == g = [s \in SUBSET S |-> IF s = {} THEN 0 ELSE f[OneOf(s)] + g[s \ {OneOf(s)}]]

\* The sum as the community module defines it.
LEMMA SumByDefinition ==
  ASSUME NEW f, NEW S
  PROVE  SumFunctionOnSet(f, S) = (CHOOSE g : IsSum(g, f, S))[S]
BY DEF SumFunctionOnSet, FoldFunctionOnSet, MapThenFoldSet, IsSum, OneOf

\* Among some subsets of a finite set there is one that contains no other.
LEMMA SmallestSubset ==
  ASSUME NEW S, IsFiniteSet(S), NEW T, T \subseteq SUBSET S, T # {}
  PROVE  \E x \in T : \A y \in T : y \subseteq x => y = x
<1>1. IsWellFoundedOn(StrictSubsetOrdering(S), SUBSET S)
  BY FS_StrictSubsetOrderingWellFounded, FS_FiniteSubsetsOfFinite
<1>2. PICK x \in T : \A y \in T : ~ (<<y, x>> \in StrictSubsetOrdering(S))
  BY <1>1, WFMin
<1> QED BY <1>2 DEF StrictSubsetOrdering

\* A sum is determined by its recursion.
LEMMA SumsAgree ==
  ASSUME NEW f, NEW S, IsFiniteSet(S), NEW R, NEW g, NEW h, IsSum(g, f, S), IsSum(h, f, R)
  PROVE  \A s \in SUBSET S : s \subseteq R => g[s] = h[s]
<1> DEFINE T == {s \in SUBSET S : s \subseteq R /\ g[s] # h[s]}
<1> SUFFICES ASSUME T # {} PROVE FALSE
  OBVIOUS
<1>1. PICK s \in T : \A y \in T : y \subseteq s => y = s
  <2>1. T \subseteq SUBSET S OBVIOUS
  <2> HIDE DEF T
  <2> QED BY <2>1, SmallestSubset
<1>2. s # {}
  BY <1>1 DEF IsSum
<1> DEFINE r == s \ {OneOf(s)}
<1>3. OneOf(s) \in s
  BY <1>2 DEF OneOf
<1>4. r \in SUBSET S /\ r \subseteq R /\ r \subseteq s /\ r # s
  BY <1>1, <1>3
<1>5. g[r] = h[r]
  BY <1>1, <1>4
<1>6. g[s] = f[OneOf(s)] + g[r] /\ h[s] = f[OneOf(s)] + h[r]
  BY <1>1, <1>2 DEF IsSum
<1> QED BY <1>1, <1>5, <1>6

\* The recursion has a solution.
LEMMA SumsExist ==
  ASSUME NEW f, NEW S, IsFiniteSet(S)
  PROVE  \A s \in SUBSET S : \E g : IsSum(g, f, s)
<1> DEFINE T == {s \in SUBSET S : ~ \E g : IsSum(g, f, s)}
<1> SUFFICES ASSUME T # {} PROVE FALSE
  OBVIOUS
<1>1. PICK s \in T : \A y \in T : y \subseteq s => y = s
  <2>1. T \subseteq SUBSET S OBVIOUS
  <2> HIDE DEF T
  <2> QED BY <2>1, SmallestSubset
<1> DEFINE G(v) == CHOOSE g : IsSum(g, f, v)
           new == [u \in SUBSET s |-> IF u = {} THEN 0 ELSE f[OneOf(u)] + G(u \ {OneOf(u)})[u \ {OneOf(u)}]]
<1>2. ASSUME NEW v \in SUBSET s, v # s PROVE IsSum(G(v), f, v) /\ IsFiniteSet(v)
  <2>1. \E g : IsSum(g, f, v) BY <1>1, <1>2
  <2> QED BY <2>1, FS_Subset, <1>1
<1>3. ASSUME NEW u \in SUBSET s, u # s PROVE new[u] = G(u)[u]
  <2>1. IsSum(G(u), f, u) BY <1>2, <1>3
  <2> HIDE DEF G
  <2>2. CASE u = {} BY <2>1, <2>2 DEF IsSum
  <2>3. CASE u # {}
    <3> DEFINE v == u \ {OneOf(u)}
    <3>1. OneOf(u) \in u BY <2>3 DEF OneOf
    <3>2. v \in SUBSET s /\ v \subseteq u /\ v # s BY <3>1
    <3>3. IsSum(G(v), f, v) /\ IsFiniteSet(v) BY <3>2, <1>2
    <3>4. G(v)[v] = G(u)[v] BY <3>2, <3>3, <2>1, SumsAgree
    <3>5. G(u)[u] = f[OneOf(u)] + G(u)[v] BY <2>1, <2>3 DEF IsSum
    <3>6. new[u] = f[OneOf(u)] + G(v)[v] BY <2>3
    <3> QED BY <3>4, <3>5, <3>6
  <2> QED BY <2>2, <2>3
<1> HIDE DEF G
<1>4. IsSum(new, f, s)
  <2>1. ASSUME NEW u \in SUBSET s, u # {}
        PROVE new[u \ {OneOf(u)}] = G(u \ {OneOf(u)})[u \ {OneOf(u)}]
    <3>1. OneOf(u) \in u BY <2>1 DEF OneOf
    <3>2. u \ {OneOf(u)} \in SUBSET s /\ u \ {OneOf(u)} # s BY <3>1
    <3> HIDE DEF new
    <3> QED BY <3>2, <1>3
  <2>2. \A u \in SUBSET s : new[u] = IF u = {} THEN 0 ELSE f[OneOf(u)] + new[u \ {OneOf(u)}]
    BY <2>1
  <2>3. new = [u \in SUBSET s |-> new[u]] OBVIOUS
  <2> HIDE DEF new
  <2> QED BY <2>2, <2>3 DEF IsSum
<1> QED BY <1>1, <1>4

\* The sum of nothing.
LEMMA SumOfNone == \A f : SumFunctionOnSet(f, {}) = 0
<1> SUFFICES ASSUME NEW f PROVE SumFunctionOnSet(f, {}) = 0
  OBVIOUS
<1>1. \E g : IsSum(g, f, {})
  BY SumsExist, FS_EmptySet
<1> DEFINE g == CHOOSE g : IsSum(g, f, {})
<1>2. IsSum(g, f, {})
  BY <1>1
<1> HIDE DEF g
<1>3. g[{}] = 0
  BY <1>2 DEF IsSum
<1> QED BY <1>3, SumByDefinition DEF g

\* One element taken out, as the fold takes them.
LEMMA SumUnfolds ==
  ASSUME NEW f, NEW S, IsFiniteSet(S)
  PROVE  S # {} => /\ OneOf(S) \in S
                   /\ SumFunctionOnSet(f, S) = f[OneOf(S)] + SumFunctionOnSet(f, S \ {OneOf(S)})
<1> DEFINE G(v) == CHOOSE g : IsSum(g, f, v)
<1>1. \A v \in SUBSET S : IsSum(G(v), f, v) /\ SumFunctionOnSet(f, v) = G(v)[v]
  BY SumsExist, SumByDefinition
<1> HIDE DEF G
<1>3. ASSUME S # {} PROVE SumFunctionOnSet(f, S) = f[OneOf(S)] + SumFunctionOnSet(f, S \ {OneOf(S)})
  <2> DEFINE v == S \ {OneOf(S)}
  <2>1. G(S)[S] = f[OneOf(S)] + G(S)[v] BY <1>1, <1>3 DEF IsSum
  <2>2. IsFiniteSet(v) BY FS_Subset
  <2>3. G(S)[v] = G(v)[v] BY <1>1, <2>2, SumsAgree
  <2> QED BY <1>1, <2>1, <2>3
<1> QED BY <1>3 DEF OneOf

\* The sum of naturals, of integers.
LEMMA SumType ==
  ASSUME NEW S, IsFiniteSet(S), NEW f
  PROVE  /\ Integral(f, S) => SumFunctionOnSet(f, S) \in Int
         /\ Natural(f, S) => SumFunctionOnSet(f, S) \in Nat
<1>1. ASSUME NEW N \in {Nat, Int}, \A x \in S : f[x] \in N PROVE SumFunctionOnSet(f, S) \in N
  <2> DEFINE T == {s \in SUBSET S : SumFunctionOnSet(f, s) \notin N}
  <2> SUFFICES ASSUME T # {} PROVE FALSE
    OBVIOUS
  <2>1. PICK s \in T : \A y \in T : y \subseteq s => y = s
    <3>1. T \subseteq SUBSET S OBVIOUS
    <3> HIDE DEF T
    <3> QED BY <3>1, SmallestSubset
  <2>2. IsFiniteSet(s) BY <2>1, FS_Subset
  <2> DEFINE x == OneOf(s)
  <2>3. s # {}
    <3>1. {} \notin T BY <1>1, SumOfNone
    <3> QED BY <2>1, <3>1
  <2>4. x \in s /\ SumFunctionOnSet(f, s) = f[x] + SumFunctionOnSet(f, s \ {x}) BY <2>2, <2>3, SumUnfolds
  <2> HIDE DEF x
  <2>5. SumFunctionOnSet(f, s \ {x}) \in N BY <2>1, <2>4
  <2> QED BY <1>1, <2>1, <2>4, <2>5
<1> QED BY <1>1 DEF Integral, Natural

\* Any element may be taken out of a sum.
LEMMA SumSplits ==
  ASSUME NEW S, IsFiniteSet(S), NEW f, Integral(f, S), NEW a \in S
  PROVE  SumFunctionOnSet(f, S) = f[a] + SumFunctionOnSet(f, S \ {a})
<1> USE DEF Integral
<1> DEFINE T == {s \in SUBSET S : \E x \in s : SumFunctionOnSet(f, s) # f[x] + SumFunctionOnSet(f, s \ {x})}
<1> SUFFICES ASSUME T # {} PROVE FALSE
  OBVIOUS
<1>1. PICK s \in T : \A y \in T : y \subseteq s => y = s
  <2>1. T \subseteq SUBSET S OBVIOUS
  <2> HIDE DEF T
  <2> QED BY <2>1, SmallestSubset
<1>2. PICK x \in s : SumFunctionOnSet(f, s) # f[x] + SumFunctionOnSet(f, s \ {x})
  BY <1>1
<1>3. IsFiniteSet(s)
  BY <1>1, FS_Subset
<1> DEFINE y == OneOf(s)
<1>4. y \in s /\ SumFunctionOnSet(f, s) = f[y] + SumFunctionOnSet(f, s \ {y})
  BY <1>2, <1>3, SumUnfolds
<1> HIDE DEF y
<1>5. x # y
  BY <1>2, <1>4
<1>6. SumFunctionOnSet(f, s \ {y}) = f[x] + SumFunctionOnSet(f, (s \ {y}) \ {x})
  <2>1. s \ {y} \notin T BY <1>1, <1>4
  <2> QED BY <1>1, <1>5, <2>1
<1>7. SumFunctionOnSet(f, s \ {x}) = f[y] + SumFunctionOnSet(f, (s \ {x}) \ {y})
  <2>1. s \ {x} \notin T BY <1>1
  <2> QED BY <1>1, <1>4, <1>5, <2>1
<1>8. (s \ {y}) \ {x} = (s \ {x}) \ {y}
  OBVIOUS
<1>9. SumFunctionOnSet(f, (s \ {y}) \ {x}) \in Int
  <2> DEFINE r == (s \ {y}) \ {x}
  <2>1. r \in SUBSET S /\ IsFiniteSet(r) /\ \A z \in r : f[z] \in Int BY <1>1, FS_Subset
  <2> HIDE DEF r
  <2> QED BY <2>1, SumType DEF r
<1>10. f[x] \in Int /\ f[y] \in Int
  BY <1>1, <1>4
<1> DEFINE w == SumFunctionOnSet(f, (s \ {y}) \ {x})
<1>11. SumFunctionOnSet(f, s) = f[y] + (f[x] + w) /\ SumFunctionOnSet(f, s \ {x}) = f[y] + w
  BY <1>4, <1>6, <1>7, <1>8
<1>12. w \in Int BY <1>9
<1> HIDE DEF w
<1> QED BY <1>2, <1>10, <1>11, <1>12

\* Sums of functions that are ordered on the set.
LEMMA SumsOrdered ==
  ASSUME NEW S, IsFiniteSet(S), NEW f, NEW g, Ordered(f, g, S)
  PROVE  SumFunctionOnSet(f, S) <= SumFunctionOnSet(g, S)
<1> USE DEF Ordered, Integral
<1> DEFINE T == {s \in SUBSET S : ~ (SumFunctionOnSet(f, s) <= SumFunctionOnSet(g, s))}
<1> SUFFICES ASSUME T # {} PROVE FALSE
  OBVIOUS
<1>1. PICK s \in T : \A y \in T : y \subseteq s => y = s
  <2>1. T \subseteq SUBSET S OBVIOUS
  <2> HIDE DEF T
  <2> QED BY <2>1, SmallestSubset
<1>2. IsFiniteSet(s)
  BY <1>1, FS_Subset
<1>3. s # {}
  <2>1. {} \notin T BY SumOfNone
  <2> QED BY <1>1, <2>1
<1> DEFINE x == OneOf(s)
<1>4. x \in s /\ SumFunctionOnSet(f, s) = f[x] + SumFunctionOnSet(f, s \ {x}) /\ SumFunctionOnSet(g, s) = g[x] + SumFunctionOnSet(g, s \ {x})
  BY <1>2, <1>3, SumUnfolds
<1> HIDE DEF x
<1>5. SumFunctionOnSet(f, s \ {x}) <= SumFunctionOnSet(g, s \ {x})
  BY <1>1, <1>4
<1>6. SumFunctionOnSet(f, s \ {x}) \in Int /\ SumFunctionOnSet(g, s \ {x}) \in Int
  <2> DEFINE r == s \ {x}
  <2>1. r \in SUBSET S /\ IsFiniteSet(r) /\ \A z \in r : f[z] \in Int /\ g[z] \in Int BY <1>1, FS_Subset
  <2> HIDE DEF r
  <2> QED BY <2>1, SumType DEF r
<1>7. f[x] \in Int /\ g[x] \in Int /\ f[x] <= g[x]
  BY <1>1, <1>4
<1> QED BY <1>1, <1>4, <1>5, <1>6, <1>7

\* Equal functions have equal sums.
LEMMA SumsEqual ==
  ASSUME NEW S, IsFiniteSet(S), NEW f, NEW g, Same(f, g, S)
  PROVE  SumFunctionOnSet(f, S) = SumFunctionOnSet(g, S)
<1> USE DEF Same, Ordered, Integral
<1>1. SumFunctionOnSet(f, S) <= SumFunctionOnSet(g, S) /\ SumFunctionOnSet(g, S) <= SumFunctionOnSet(f, S)
  BY SumsOrdered
<1>2. SumFunctionOnSet(f, S) \in Int /\ SumFunctionOnSet(g, S) \in Int
  BY SumType
<1> QED BY <1>1, <1>2

\* Sums add up.
LEMMA SumsAdd ==
  ASSUME NEW S, IsFiniteSet(S), NEW f, NEW g, NEW h, AddUp(f, g, h, S)
  PROVE  SumFunctionOnSet(h, S) = SumFunctionOnSet(f, S) + SumFunctionOnSet(g, S)
<1> USE DEF AddUp, Integral
<1> DEFINE T == {s \in SUBSET S : SumFunctionOnSet(h, s) # SumFunctionOnSet(f, s) + SumFunctionOnSet(g, s)}
<1> SUFFICES ASSUME T # {} PROVE FALSE
  OBVIOUS
<1>1. PICK s \in T : \A y \in T : y \subseteq s => y = s
  <2>1. T \subseteq SUBSET S OBVIOUS
  <2> HIDE DEF T
  <2> QED BY <2>1, SmallestSubset
<1>2. IsFiniteSet(s)
  BY <1>1, FS_Subset
<1>3. s # {}
  <2>1. {} \notin T BY SumOfNone
  <2> QED BY <1>1, <2>1
<1> DEFINE x == OneOf(s)
<1>4. /\ x \in s /\ SumFunctionOnSet(f, s) = f[x] + SumFunctionOnSet(f, s \ {x})
      /\ SumFunctionOnSet(g, s) = g[x] + SumFunctionOnSet(g, s \ {x}) /\ SumFunctionOnSet(h, s) = h[x] + SumFunctionOnSet(h, s \ {x})
  BY <1>2, <1>3, SumUnfolds
<1> HIDE DEF x
<1>5. SumFunctionOnSet(h, s \ {x}) = SumFunctionOnSet(f, s \ {x}) + SumFunctionOnSet(g, s \ {x})
  BY <1>1, <1>4
<1>6. SumFunctionOnSet(f, s \ {x}) \in Int /\ SumFunctionOnSet(g, s \ {x}) \in Int
  <2> DEFINE r == s \ {x}
  <2>1. r \in SUBSET S /\ IsFiniteSet(r) /\ \A z \in r : f[z] \in Int /\ g[z] \in Int BY <1>1, FS_Subset
  <2> HIDE DEF r
  <2> QED BY <2>1, SumType DEF r
<1>7. f[x] \in Int /\ g[x] \in Int /\ h[x] = f[x] + g[x]
  BY <1>1, <1>4
<1> QED BY <1>1, <1>4, <1>5, <1>6, <1>7

\* Changing one term changes the sum by as much.
LEMMA SumShifts ==
  ASSUME NEW S, IsFiniteSet(S), NEW f, NEW g, NEW a \in S, SameBut(f, g, a, S)
  PROVE  SumFunctionOnSet(g, S) = SumFunctionOnSet(f, S) + g[a] - f[a]
<1> USE DEF SameBut, Same, Integral
<1> DEFINE r == S \ {a}
<1>1. IsFiniteSet(r) /\ \A x \in r : f[x] \in Int /\ g[x] = f[x]
  BY FS_Subset
<1>2. SumFunctionOnSet(f, S) = f[a] + SumFunctionOnSet(f, r) /\ SumFunctionOnSet(g, S) = g[a] + SumFunctionOnSet(g, r)
  BY SumSplits
<1> HIDE DEF r
<1>3. SumFunctionOnSet(g, r) = SumFunctionOnSet(f, r) /\ SumFunctionOnSet(f, r) \in Int
  BY <1>1, SumsEqual, SumType
<1> QED BY <1>2, <1>3

\* What lies outside a part and counts for nothing does not change the sum.
LEMMA SumOfPart ==
  ASSUME NEW S, IsFiniteSet(S), NEW P \in SUBSET S, NEW f, NEW g, CountsOnly(P, f, g, S)
  PROVE  SumFunctionOnSet(g, S) = SumFunctionOnSet(f, P)
<1> USE DEF CountsOnly, Integral
<1> DEFINE T == {s \in SUBSET S : SumFunctionOnSet(g, s) # SumFunctionOnSet(f, s \cap P)}
<1> SUFFICES ASSUME T # {} PROVE FALSE
  <2>1. S \in SUBSET S /\ S \cap P = P OBVIOUS
  <2> QED BY <2>1
<1>1. PICK s \in T : \A y \in T : y \subseteq s => y = s
  <2>1. T \subseteq SUBSET S OBVIOUS
  <2> HIDE DEF T
  <2> QED BY <2>1, SmallestSubset
<1>2. IsFiniteSet(s) /\ IsFiniteSet(s \cap P)
  BY <1>1, FS_Subset
<1>3. s # {}
  <2>1. {} \cap P = {} OBVIOUS
  <2>2. {} \notin T BY <2>1, SumOfNone
  <2> QED BY <1>1, <2>2
<1> DEFINE x == OneOf(s)
<1>4. x \in s /\ SumFunctionOnSet(g, s) = g[x] + SumFunctionOnSet(g, s \ {x})
  BY <1>2, <1>3, SumUnfolds
<1> HIDE DEF x
<1>5. SumFunctionOnSet(g, s \ {x}) = SumFunctionOnSet(f, (s \ {x}) \cap P)
  BY <1>1, <1>4
<1>6. CASE x \in P
  <2>1. x \in s \cap P /\ (s \cap P) \ {x} = (s \ {x}) \cap P BY <1>4, <1>6
  <2>2. \A y \in s \cap P : f[y] \in Int OBVIOUS
  <2>3. SumFunctionOnSet(f, s \cap P) = f[x] + SumFunctionOnSet(f, (s \ {x}) \cap P) BY <1>2, <2>1, <2>2, SumSplits
  <2>4. g[x] = f[x] BY <1>1, <1>4, <1>6
  <2> QED BY <1>1, <1>4, <1>5, <2>3, <2>4
<1>7. CASE x \notin P
  <2>1. s \cap P = (s \ {x}) \cap P BY <1>7
  <2>2. g[x] = 0 BY <1>1, <1>4, <1>7
  <2>3. SumFunctionOnSet(f, s \cap P) \in Int
    <3> DEFINE r == s \cap P
    <3>1. IsFiniteSet(r) /\ \A y \in r : f[y] \in Int BY <1>2
    <3> HIDE DEF r
    <3>2. SumFunctionOnSet(f, r) \in Int BY <3>1, SumType
    <3> QED BY <3>2 DEF r
  <2>4. SumFunctionOnSet(g, s) = 0 + SumFunctionOnSet(f, s \cap P) BY <1>4, <1>5, <2>1, <2>2
  <2> QED BY <1>1, <2>3, <2>4
<1> QED BY <1>6, <1>7

\* What counts for nothing sums up to nothing.
LEMMA SumOfZeros ==
  ASSUME NEW S, IsFiniteSet(S), NEW f, Zero(f, S)
  PROVE  SumFunctionOnSet(f, S) = 0
<1> USE DEF Zero, CountsOnly
<1> DEFINE P == {}
<1>1. P \in SUBSET S /\ (\A x \in S : f[x] = IF x \in P THEN f[x] ELSE 0) /\ \A x \in P : f[x] \in Int
  OBVIOUS
<1> HIDE DEF P
<1>2. SumFunctionOnSet(f, S) = SumFunctionOnSet(f, P)
  BY <1>1, SumOfPart
<1> QED BY <1>2, SumOfNone DEF P

\* A factor can be taken out of a sum.
LEMMA SumScales ==
  ASSUME NEW S, IsFiniteSet(S), NEW c \in Int, NEW f, NEW g, Multiple(c, f, g, S)
  PROVE  SumFunctionOnSet(g, S) = c * SumFunctionOnSet(f, S)
<1> USE DEF Multiple, Integral
<1> DEFINE T == {s \in SUBSET S : SumFunctionOnSet(g, s) # c * SumFunctionOnSet(f, s)}
<1> SUFFICES ASSUME T # {} PROVE FALSE
  OBVIOUS
<1>1. PICK s \in T : \A y \in T : y \subseteq s => y = s
  <2>1. T \subseteq SUBSET S OBVIOUS
  <2> HIDE DEF T
  <2> QED BY <2>1, SmallestSubset
<1>2. IsFiniteSet(s)
  BY <1>1, FS_Subset
<1>3. s # {}
  <2>1. {} \notin T BY SumOfNone
  <2> QED BY <1>1, <2>1
<1> DEFINE x == OneOf(s)
<1>4. x \in s /\ SumFunctionOnSet(f, s) = f[x] + SumFunctionOnSet(f, s \ {x}) /\ SumFunctionOnSet(g, s) = g[x] + SumFunctionOnSet(g, s \ {x})
  BY <1>2, <1>3, SumUnfolds
<1> HIDE DEF x
<1>5. SumFunctionOnSet(g, s \ {x}) = c * SumFunctionOnSet(f, s \ {x})
  BY <1>1, <1>4
<1>6. SumFunctionOnSet(f, s \ {x}) \in Int
  <2> DEFINE r == s \ {x}
  <2>1. r \in SUBSET S /\ IsFiniteSet(r) /\ \A z \in r : f[z] \in Int BY <1>1, FS_Subset
  <2> HIDE DEF r
  <2> QED BY <2>1, SumType DEF r
<1> DEFINE w == SumFunctionOnSet(f, s \ {x})
<1>7. SumFunctionOnSet(f, s) = f[x] + w /\ SumFunctionOnSet(g, s) = c * f[x] + c * w /\ w \in Int /\ f[x] \in Int
  BY <1>1, <1>4, <1>5, <1>6
<1> HIDE DEF w
<1>8. c * (f[x] + w) = c * f[x] + c * w
  BY <1>7
<1> QED BY <1>1, <1>7, <1>8
=============================================================================
