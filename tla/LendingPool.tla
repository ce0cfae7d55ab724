---------------------------- MODULE LendingPool ----------------------------
(* What a vault promises its lenders, without farmers, workers, reserves or *)
(* calls that fail: supply shares own total tokens.  Shares are bought and  *)
(* redeemed at the going price, rounded in favour of those who stay;        *)
(* interest and gifts only add to total, and nothing is lost but loans.     *)
EXTENDS Integers

CONSTANTS
  Deposits,     \* amounts one deposit may bring
  Interests     \* amounts of interest credited before a deposit or redemption

VARIABLES
  total,        \* tokens the lenders own; below 0 when bad debt ate them all
  supply,       \* their shares
  lent          \* owed to them by borrowers
poolVars == <<total, supply, lent>>

PoolInit == total = 0 /\ supply = 0 /\ lent = 0

\* The shares an amount buys when the lenders own t tokens.
Bought(amount, t) == IF t = 0 THEN amount ELSE (amount * supply) \div t

\* The tokens a share redeems when the lenders own t tokens.
Redeemed(share, t) == (share * t) \div supply

Deposit(interest, amount) ==
  /\ total + interest >= 0
  /\ total' = total + interest + amount
  /\ supply' = supply + Bought(amount, total + interest)
  /\ lent' \in Nat

Redeem(interest, share) ==
  /\ total + interest >= 0
  /\ share <= supply
  /\ total' = total + interest - Redeemed(share, total + interest)
  /\ supply' = supply - share
  /\ lent' \in Nat

\* Interest, rewards, gifts, released reserves, loans taken and repaid.
Earn == total' >= total /\ supply' = supply /\ lent' \in Nat

\* A loan is closed for less than it is worth.
Default == lent > 0 /\ total' < total /\ supply' = supply /\ lent' \in Nat

PoolNext ==
  \/ \E interest \in Interests :
       \/ \E amount \in Deposits : Deposit(interest, amount)
       \/ \E share \in 1..supply : Redeem(interest, share)
  \/ Earn
  \/ Default

PoolSpec == PoolInit /\ [][PoolNext]_poolVars
=============================================================================
