--------------------------- MODULE InterestCalls ---------------------------
(* Calls of getInterestRate with the numbers of a vault, one after another. *)
EXTENDS InterestModel

CONSTANT MaxPool     \* bound: tokens lent out, tokens left
ASSUME MaxPoolAssumption == MaxPool \in Nat

VARIABLES debt, floating     \* the arguments of the last call
callVars == <<debt, floating>>

CallsInit == debt = 0 /\ floating = 0

Call == debt' \in 0..MaxPool /\ floating' \in 0..MaxPool

CallsSpec == CallsInit /\ [][Call]_callVars

Rate == getInterestRate(debt, floating)

\* Of two calls, the one with more debt and fewer tokens left never gets the
\* lower rate, whichever slopes of getInterestRate the two land on and down to
\* the last token: otherwise draining the pool would make borrowing cheaper.
TighterIsDearer ==
  [][debt' >= debt /\ floating' <= floating => Rate' >= Rate]_callVars

\* No utilisation, the one the code calls "Not possible" included, costs more
\* than the top rate.
NeverAboveTop == Rate * YEAR <= MAX_INTEREST_SLOPE_3
=============================================================================
