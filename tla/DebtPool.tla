----------------------------- MODULE DebtPool -----------------------------
(* The debt of a vault: vaultDebtShare shares stand for vaultDebtVal tokens *)
(* owed, and every position holds some of the shares.  Interest raises the  *)
(* value and leaves the shares alone, so that one addition accrues interest *)
(* on every position.  The conversions round down in both directions.       *)
EXTENDS Integers

CONSTANT MaxPositions     \* bound: positions ever opened
ASSUME PositionsAssumption == MaxPositions \in Nat \ {0}

Ids == 1..MaxPositions

DebtPools ==
  [vaultDebtShare : Nat, vaultDebtVal : Nat, debtShare : [Ids -> Nat]]

NoDebt ==
  [vaultDebtShare |-> 0, vaultDebtVal |-> 0, debtShare |-> [id \in Ids |-> 0]]

debtShareToVal(d, share) ==
  IF d.vaultDebtShare = 0 THEN share
  ELSE (share * d.vaultDebtVal) \div d.vaultDebtShare

\* Mutant: shares are rounded up.
debtValToShare_RoundsUp(d, val) ==
  IF d.vaultDebtShare = 0 THEN val
  ELSE (val * d.vaultDebtShare + d.vaultDebtVal - 1) \div d.vaultDebtVal

debtValToShare(d, val) ==
  IF d.vaultDebtShare = 0 THEN val
  ELSE (val * d.vaultDebtShare) \div d.vaultDebtVal

DebtOf(d, id) == debtShareToVal(d, d.debtShare[id])

\* Mutant: the value is added before it is converted.
AddDebt_ConvertsLate(d, id, val) ==
  LET share == debtValToShare([d EXCEPT !.vaultDebtVal = @ + val], val)
  IN  [vaultDebtShare |-> d.vaultDebtShare + share,
       vaultDebtVal   |-> d.vaultDebtVal + val,
       debtShare      |-> [d.debtShare EXCEPT ![id] = @ + share]]

\* _addDebt; the share is what the value buys before it is added.
AddDebt(d, id, val) ==
  LET share == debtValToShare(d, val)
  IN  [vaultDebtShare |-> d.vaultDebtShare + share,
       vaultDebtVal   |-> d.vaultDebtVal + val,
       debtShare      |-> [d.debtShare EXCEPT ![id] = @ + share]]

\* Mutant: the position keeps its shares.
RemoveDebt_KeepsShare(d, id) ==
  [d EXCEPT !.vaultDebtShare = @ - d.debtShare[id],
            !.vaultDebtVal = @ - DebtOf(d, id)]

\* Mutant: the value goes down by shares.
RemoveDebt_ByShare(d, id) ==
  [vaultDebtShare |-> d.vaultDebtShare - d.debtShare[id],
   vaultDebtVal   |-> d.vaultDebtVal - d.debtShare[id],
   debtShare      |-> [d.debtShare EXCEPT ![id] = 0]]

\* _removeDebt; its result, the value removed, is DebtOf(d, id).
RemoveDebt(d, id) ==
  [vaultDebtShare |-> d.vaultDebtShare - d.debtShare[id],
   vaultDebtVal   |-> d.vaultDebtVal - DebtOf(d, id),
   debtShare      |-> [d.debtShare EXCEPT ![id] = 0]]

\* The assignment of the accrue modifier to vaultDebtVal.
AddInterest(d, interest) == [d EXCEPT !.vaultDebtVal = @ + interest]

-----------------------------------------------------------------------------
(* p witnesses that total is the sum of f: its values are the partial sums. *)
ArePartialSums(p, f, total) ==
  /\ p[1] = f[1]
  /\ p[MaxPositions] = total
  /\ \A i \in Ids \ {1} : p[i] = p[i - 1] + f[i]
  /\ \A i, j \in Ids : i <= j => p[i] <= p[j]

\* The shares of the positions add up to the shares of the pool.
SharesAgree(d) ==
  \E p \in [Ids -> 0..d.vaultDebtShare] :
    ArePartialSums(p, d.debtShare, d.vaultDebtShare)

\* No value is owed by nobody, and a share never stands for less than a token.
ValueCoversShares(d) ==
  /\ d.vaultDebtShare <= d.vaultDebtVal
  /\ d.vaultDebtShare = 0 => d.vaultDebtVal = 0

\* The two, for a pool of the right type.
GoodPool(d) == d \in DebtPools /\ SharesAgree(d) /\ ValueCoversShares(d)
=============================================================================
