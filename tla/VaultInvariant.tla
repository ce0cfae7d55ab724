--------------------------- MODULE VaultInvariant ---------------------------
(* The inductive invariant behind the safety of the vault: what holds       *)
(* between two transactions and at the point where a call waits.            *)
EXTENDS VaultLending

\* The part of the tokens lent that the waiting call took out of vaultDebtVal.
Outstanding == IF tx.kind \in {"work", "kill"} THEN tx.debt ELSE 0

\* No call waits: nothing is left of the last one.
AtRest ==
  /\ tx = NoTx
  /\ saved = Fresh
  /\ POSITION_ID = NO_ID

\* A call waits: interest is accrued, the vault only gained tokens since, and
\* what the call holds is still owed to the lenders.
Waiting ==
  /\ tx.caller \in Users /\ tx.id \in Ids
  /\ GoodPool(saved.debt) /\ saved.POSITION_ID = NO_ID
  /\ timePast = 0
  /\ tx.before <= bal
  /\ totalSupply = saved.totalSupply
  /\ totalToken(saved) <=
       tx.before + debt.vaultDebtVal + Outstanding - reservePool
  /\ tx.kind = "work" => debt.debtShare[tx.id] = 0
  /\ tx.kind = "addCollateral" => tx.debt = DebtOf(debt, tx.id)
  /\ tx.kind = "kill" => saved.debt.vaultDebtVal > 0

\* The whole: a vault whose every waiting call (work, addCollateral, kill)
\* can still end, or be undone, with the lenders, the debt pool and the
\* execution scope in order.
IInv ==
  /\ TypeOK
  /\ GoodPool(debt)
  /\ OnlyCallerPays
  /\ IF tx.kind = "none" THEN AtRest ELSE Waiting
-----------------------------------------------------------------------------
(* Two more facts about a call that waits, each inductive with IInv.        *)

\* The debt shares of a user's positions, and all the user's stakes.
SharesOf(user, pos, shares) ==
  SumFunction([id \in Ids |-> IF pos[id].owner = user THEN shares[id] ELSE 0])
StakesOf(user, stk) == SumFunction([p \in PoolIds |-> stk[p][user]])

Covered(pos, shares, stk) ==
  \A user \in Users : SharesOf(user, pos, shares) <= StakesOf(user, stk)

\* Stakes cover the shares now, and would again if the waiting call were
\* undone; there is a pool to stake in when it ends.
StakesCover ==
  /\ Covered(positions, debt.debtShare, stake)
  /\ tx.kind # "none" =>
       /\ Covered(saved.positions, saved.debt.debtShare, saved.stake)
       /\ fairLaunchPoolId \in PoolIds

\* The debt while a call waits is the one it began with, accrued, and without
\* the position it works on or kills.
OnlyOneMoved ==
  tx.kind # "none" =>
    debt = IF tx.kind = "addCollateral" THEN Accrued(saved)
           ELSE RemoveDebt(Accrued(saved), tx.id)
-----------------------------------------------------------------------------
(* What others see of a vault in the middle of a call. *)

\* The reserve with what is due to it.
DueReserve(s) == s.reservePool + (Due(s) * ReservePoolBps) \div BPS

\* A contract that reads totalToken while a worker runs (to price ibToken, say)
\* sees the pool of the start of the call, accrued, with what came in since and
\* what the owner released from the reserve, and without the loan that is being
\* worked on or liquidated: that much is missing, and nothing else.
OnlyTheLoanIsMissing ==
  LET released == DueReserve(saved) - reservePool
      atStart  == saved.bal + Accrued(saved).vaultDebtVal - DueReserve(saved)
  IN  tx # NoTx =>
        /\ released >= 0
        /\ totalToken(Storage) + Outstanding = atStart + back + released
=============================================================================
