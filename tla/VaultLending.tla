---------------------------- MODULE VaultLending ----------------------------
(* The vault implements the lending pool.  The pool's total is totalToken() *)
(* of the committed state: interest counts once it is accrued, a loan that  *)
(* is being worked on counts as the chain last showed it.                   *)
EXTENDS Vault

CONSTANT Interests

Pool == INSTANCE LendingPool WITH
  Deposits <- Amounts,
  total    <- totalToken(Committed),
  supply   <- Committed.totalSupply,
  lent     <- Committed.debt.vaultDebtVal

\* Whatever work, addCollateral, kill, their callees and their failures do,
\* lenders see a LendingPool (deposit, withdraw, accrue, totalToken).
ImplementsLendingPool == Pool!PoolSpec
=============================================================================
