------------------------------- MODULE Vault -------------------------------
(* Vault.sol: lenders deposit a token and hold ibToken against it; farmers  *)
(* borrow the token into leveraged positions that a worker contract runs;   *)
(* whitelisted liquidators close positions that fall under water.           *)
(*                                                                          *)
(* work, addCollateral and kill call a worker in the middle.  They are two  *)
(* steps here, everything before that call and everything after it, so      *)
(* that what the callee may do in between (send tokens to the vault, pull   *)
(* funds through requestFunds, call back) is interleaved.  A call that      *)
(* fails is undone by the EVM: Revert restores the state it began in.       *)
(* timePast is now - lastAccrueTime, the only way the code uses the two.    *)
EXTENDS DebtPool, InterestModel, FiniteSets, Functions

CONSTANTS
  Users,                  \* accounts that open positions or liquidate
  Workers,                \* config.isWorker
  Strategies,             \* strategy contracts
  ApprovedAddStrategies,  \* config.approvedAddStrategies
  NoAddr,                 \* address(0), _NO_ADDRESS
  PoolIds, NoPool,        \* FairLaunch pools; uint256(-1)
  BPS,                    \* 10000 in the code
  Percent,                \* 100, one percent of BPS
  WorkFactor, KillFactor, \* of every worker
  KillBps, KillTreasuryBps, ReservePoolBps,
  MinDebtSize,
  MinSupply,              \* 10 ** (decimals - 1), the "no tiny shares" limit
  Amounts,                \* inputs: tokens of a deposit, a loan, a transfer
  MaxReturns,             \* inputs: maxReturn of work
  HealthLevels,           \* values of IWorker.health
  \* bounds
  MaxToken, MaxSupply, MaxDebt, MaxReserve, MaxStake, MaxTimePast

ASSUME ConfigAssumption ==
  /\ BPS \in Nat \ {0} /\ Percent \in Nat
  /\ KillBps \in Nat /\ KillTreasuryBps \in Nat
  /\ KillBps + KillTreasuryBps <= BPS       \* setParams: at most maxKillBps
  /\ ReservePoolBps \in 0..BPS
  /\ WorkFactor \in Nat /\ KillFactor \in Nat
  /\ WorkFactor <= KillFactor
  /\ MinDebtSize \in Nat /\ MinSupply \in Nat
  /\ Amounts \subseteq Nat \ {0} /\ MaxReturns \subseteq Nat
  /\ HealthLevels \subseteq Nat /\ 0 \in HealthLevels
  /\ NoAddr \notin Users \cup Workers \cup Strategies
  /\ ApprovedAddStrategies \subseteq Strategies
  /\ IsFiniteSet(PoolIds) /\ NoPool \notin PoolIds

NO_ID == 0
NotOpen == [worker |-> NoAddr, owner |-> NoAddr]

VARIABLES
  timePast,          \* since the interest was last accrued
  bal,               \* token balance of the vault
  reservePool,       \* part of the pool that belongs to the protocol
  totalSupply,       \* of ibToken
  debt,              \* vaultDebtShare, vaultDebtVal, positions[].debtShare
  positions,         \* worker and owner of a position
  nextPositionID,
  fairLaunchPoolId,
  stake,             \* debtToken staked in FairLaunch, by pool and user
  POSITION_ID, STRATEGY,     \* the execution scope
  tx,                \* the call that waits for a worker, or NoTx
  saved              \* the state that call began in

scopeVars == <<POSITION_ID, STRATEGY>>
lenderVars == <<reservePool, totalSupply>>
positionVars == <<positions, nextPositionID>>
vars == <<timePast, bal, reservePool, totalSupply, debt, positions,
          nextPositionID, fairLaunchPoolId, stake,
          POSITION_ID, STRATEGY, tx, saved>>

\* What a failed call gives back.
Storage ==
  [timePast |-> timePast, bal |-> bal, reservePool |-> reservePool,
   totalSupply |-> totalSupply, debt |-> debt, positions |-> positions,
   nextPositionID |-> nextPositionID, fairLaunchPoolId |-> fairLaunchPoolId,
   stake |-> stake,
   POSITION_ID |-> POSITION_ID, STRATEGY |-> STRATEGY]

Fresh ==
  [timePast |-> 0, bal |-> 0, reservePool |-> 0, totalSupply |-> 0,
   debt |-> NoDebt, positions |-> [id \in Ids |-> NotOpen],
   nextPositionID |-> 1, fairLaunchPoolId |-> NoPool,
   stake |-> [p \in PoolIds |-> [u \in Users |-> 0]],
   POSITION_ID |-> NO_ID, STRATEGY |-> NoAddr]

NoTx == [kind |-> "none", caller |-> NoAddr, id |-> NO_ID, debt |-> 0,
         maxReturn |-> 0, before |-> 0, healthBefore |-> 0, debited |-> {}]

\* ReentrancyGuard's modifier: no other guarded call is on the stack.
nonReentrant == tx.kind = "none"

Storages ==
  [timePast : Nat, bal : Nat, reservePool : Nat, totalSupply : Nat,
   debt : DebtPools,
   positions :
     [Ids -> [worker : Workers \cup {NoAddr}, owner : Users \cup {NoAddr}]],
   nextPositionID : 1..(MaxPositions + 1),
   fairLaunchPoolId : PoolIds \cup {NoPool},
   stake : [PoolIds -> [Users -> Nat]],
   POSITION_ID : Ids \cup {NO_ID}, STRATEGY : Strategies \cup {NoAddr}]

Calls ==
  [kind : {"none", "work", "addCollateral", "kill"},
   caller : Users \cup {NoAddr}, id : Ids \cup {NO_ID}, debt : Nat,
   maxReturn : Nat, before : Nat, healthBefore : Nat,
   debited : SUBSET (Users \cup {NoAddr})]

TypeOK == Storage \in Storages /\ tx \in Calls /\ saved \in Storages

\* initialize; saved stays Fresh as long as no call waits.
Init ==
  /\ timePast = 0 /\ bal = 0 /\ reservePool = 0 /\ totalSupply = 0
  /\ debt = NoDebt
  /\ positions = Fresh.positions /\ nextPositionID = 1
  /\ fairLaunchPoolId = NoPool
  /\ stake = Fresh.stake
  /\ POSITION_ID = NO_ID /\ STRATEGY = NoAddr
  /\ tx = NoTx
  /\ saved = Fresh
-----------------------------------------------------------------------------
(* Accrual.  The balance is the one before the caller's tokens came in,     *)
(* which the code reads by subtracting them again.                          *)
pendingInterest ==
  (getInterestRate(debt.vaultDebtVal, bal) * debt.vaultDebtVal * timePast)
    \div WAD

AccruedDebt == AddInterest(debt, pendingInterest)
AccruedReserve == reservePool + (pendingInterest * ReservePoolBps) \div BPS

totalToken(s) == s.bal + s.debt.vaultDebtVal - s.reservePool

\* totalToken of an accrued vault, before the caller's tokens came in.
AccruedTotal == bal + AccruedDebt.vaultDebtVal - AccruedReserve
-----------------------------------------------------------------------------
(* The lenders. *)

\* Mutant: without nonReentrant.
deposit_Reentrant(amount) ==
  LET total == AccruedTotal
      share == IF total = 0 THEN amount ELSE (amount * totalSupply) \div total
  IN  /\ total >= 0
      /\ totalSupply + share > MinSupply
      /\ bal + amount <= MaxToken /\ totalSupply + share <= MaxSupply
      /\ bal' = bal + amount
      /\ totalSupply' = totalSupply + share
      /\ debt' = AccruedDebt
      /\ reservePool' = AccruedReserve
      /\ timePast' = 0
      /\ UNCHANGED <<positionVars, fairLaunchPoolId, stake, scopeVars, tx,
                     saved>>

deposit(amount) ==
  LET total == AccruedTotal
      share == IF total = 0 THEN amount ELSE (amount * totalSupply) \div total
  IN  /\ nonReentrant
      /\ total >= 0                        \* SafeMath
      /\ totalSupply + share > MinSupply   \* "no tiny shares"
      /\ bal + amount <= MaxToken /\ totalSupply + share <= MaxSupply
      /\ bal' = bal + amount
      /\ totalSupply' = totalSupply + share
      /\ debt' = AccruedDebt
      /\ reservePool' = AccruedReserve
      /\ timePast' = 0
      /\ UNCHANGED <<positionVars, fairLaunchPoolId, stake, scopeVars, tx,
                     saved>>

\* Mutant: burns before it converts.
withdraw_BurnsFirst(share) ==
  LET amount == (share * AccruedTotal) \div (totalSupply - share)
  IN  /\ nonReentrant
      /\ AccruedTotal >= 0
      /\ share <= totalSupply
      /\ totalSupply - share > MinSupply
      /\ amount <= bal
      /\ bal' = bal - amount
      /\ totalSupply' = totalSupply - share
      /\ debt' = AccruedDebt
      /\ reservePool' = AccruedReserve
      /\ timePast' = 0
      /\ UNCHANGED <<positionVars, fairLaunchPoolId, stake, scopeVars, tx,
                     saved>>

\* Mutant: without the accrue modifier.
withdraw_Unaccrued(share) ==
  LET amount == (share * totalToken(Storage)) \div totalSupply
  IN  /\ nonReentrant
      /\ totalToken(Storage) >= 0
      /\ share <= totalSupply
      /\ totalSupply - share > MinSupply
      /\ amount <= bal
      /\ bal' = bal - amount
      /\ totalSupply' = totalSupply - share
      /\ UNCHANGED <<timePast, reservePool, debt, positionVars,
                     fairLaunchPoolId, stake, scopeVars, tx, saved>>

\* A holder of at least share ibToken redeems them.
withdraw(share) ==
  LET amount == (share * AccruedTotal) \div totalSupply
  IN  /\ nonReentrant
      /\ AccruedTotal >= 0
      /\ share <= totalSupply
      /\ totalSupply - share > MinSupply
      /\ amount <= bal
      /\ bal' = bal - amount
      /\ totalSupply' = totalSupply - share
      /\ debt' = AccruedDebt
      /\ reservePool' = AccruedReserve
      /\ timePast' = 0
      /\ UNCHANGED <<positionVars, fairLaunchPoolId, stake, scopeVars, tx,
                     saved>>
-----------------------------------------------------------------------------
(* The owner. *)

\* Mutant: without the underflow check.
withdrawReserve_Unchecked(value) ==
  /\ nonReentrant
  /\ value <= bal
  /\ reservePool' = reservePool - value
  /\ bal' = bal - value
  /\ UNCHANGED <<timePast, totalSupply, debt, positionVars, fairLaunchPoolId,
                 stake, scopeVars, tx, saved>>

withdrawReserve(value) ==
  /\ nonReentrant
  /\ value <= reservePool /\ value <= bal
  /\ reservePool' = reservePool - value
  /\ bal' = bal - value
  /\ UNCHANGED <<timePast, totalSupply, debt, positionVars, fairLaunchPoolId,
                 stake, scopeVars, tx, saved>>

reduceReserve(value) ==
  /\ value <= reservePool
  /\ reservePool' = reservePool - value
  /\ UNCHANGED <<timePast, bal, totalSupply, debt, positionVars,
                 fairLaunchPoolId, stake, scopeVars, tx, saved>>

setFairLaunchPoolId(pid) ==
  /\ fairLaunchPoolId' = pid
  /\ UNCHANGED <<timePast, bal, lenderVars, debt, positionVars, stake,
                 scopeVars, tx, saved>>
-----------------------------------------------------------------------------
(* Shared by the calls on positions. *)

\* All the debtToken FairLaunch holds for a user.
StakeOf(user) == SumFunction([p \in PoolIds |-> stake[p][user]])

\* Mutant: a stake that was left behind is taken for this one.
fairLaunchDeposit_OncePerUser(owner, amount) ==
  IF amount > 0 /\ stake[fairLaunchPoolId][owner] = 0
  THEN stake' = [stake EXCEPT ![fairLaunchPoolId][owner] = amount]
  ELSE UNCHANGED stake

\* The share is staked for the owner of the position.
fairLaunchDeposit(owner, amount) ==
  IF amount > 0
  THEN stake' = [stake EXCEPT ![fairLaunchPoolId][owner] = @ + amount]
  ELSE UNCHANGED stake

\* The vault ignores the failure of a withdrawal: the stake stays behind.
fairLaunchWithdraw(id) ==
  LET owner == positions[id].owner
      share == debt.debtShare[id]
  IN  \/ /\ share <= stake[fairLaunchPoolId][owner]
         /\ stake' = [stake EXCEPT ![fairLaunchPoolId][owner] = @ - share]
      \/ /\ share > 0
         /\ StakeOf(owner) + share <= MaxStake
         /\ UNCHANGED stake

\* The code before the worker is called ends: the call now waits for it.
Wait(call) ==
  /\ tx' = call
  /\ saved' = Storage

\* The call returns.
Return ==
  /\ tx' = NoTx
  /\ saved' = Fresh

\* BEP20 that came in while the call waited.
back == bal - tx.before

\* Debt over health above factor: the comparisons of work and kill.  Markets
\* and workers move a health at will, so that each reading is an input.
Exceeds(debtVal, factor, health) == health * factor < debtVal * BPS
-----------------------------------------------------------------------------
(* work.  The principal goes through to the worker in the same call; what   *)
(* it does shows in the health the worker reports.                          *)

openPosition(user, worker) ==
  /\ nextPositionID <= MaxPositions
  /\ positions' = [positions EXCEPT ![nextPositionID] =
                     [worker |-> worker, owner |-> user]]
  /\ nextPositionID' = nextPositionID + 1
  /\ UNCHANGED stake

reopenPosition(user, worker, id) ==
  /\ id < nextPositionID
  /\ positions[id].worker = worker
  /\ positions[id].owner = user
  /\ fairLaunchWithdraw(id)
  /\ UNCHANGED positionVars

beginWork(user, worker, strategy, anId, borrow, maxReturn) ==
  LET id == IF anId = NO_ID THEN nextPositionID ELSE anId
  IN  /\ nonReentrant
      /\ fairLaunchPoolId # NoPool
      /\ \/ anId = NO_ID /\ openPosition(user, worker)
         \/ anId # NO_ID /\ reopenPosition(user, worker, anId)
      /\ borrow <= bal                  \* "insufficient funds in the vault"
      /\ AccruedDebt.vaultDebtVal + borrow <= MaxDebt
      /\ debt' = RemoveDebt(AccruedDebt, id)
      /\ reservePool' = AccruedReserve
      /\ timePast' = 0
      /\ bal' = bal - borrow
      /\ POSITION_ID' = id /\ STRATEGY' = strategy
      /\ Wait([NoTx EXCEPT !.kind = "work", !.caller = user, !.id = id,
                           !.debt = DebtOf(AccruedDebt, id) + borrow,
                           !.maxReturn = maxReturn, !.before = bal - borrow])
      /\ UNCHANGED <<totalSupply, fairLaunchPoolId>>

min(a, b) == IF a <= b THEN a ELSE b

finishWork(health) ==
  LET lessDebt == min(tx.debt, min(back, tx.maxReturn))
      left == tx.debt - lessDebt
  IN  /\ tx.kind = "work"
      /\ IF left > 0
         THEN /\ left >= MinDebtSize
              /\ ~Exceeds(left, WorkFactor, health)
              /\ debt' = AddDebt(debt, tx.id, left)
              /\ fairLaunchDeposit(positions[tx.id].owner,
                                   AddDebt(debt, tx.id, left).debtShare[tx.id])
         ELSE UNCHANGED <<debt, stake>>
      /\ POSITION_ID' = NO_ID /\ STRATEGY' = NoAddr
      /\ bal' = bal - (back - lessDebt)
      /\ Return
      /\ UNCHANGED <<timePast, lenderVars, positionVars,
                     fairLaunchPoolId>>
-----------------------------------------------------------------------------
(* addCollateral.  No debt moves; as in work, the tokens go straight on.    *)

\* Mutant: without the accrue modifier.
beginAddCollateral_Unaccrued(user, strategy, id, health) ==
  /\ nonReentrant
  /\ fairLaunchPoolId # NoPool
  /\ id < nextPositionID
  /\ positions[id].owner = user
  /\ health # 0
  /\ strategy \in ApprovedAddStrategies
  /\ POSITION_ID' = id /\ STRATEGY' = strategy
  /\ Wait([NoTx EXCEPT !.kind = "addCollateral", !.caller = user, !.id = id,
                       !.debt = DebtOf(debt, id), !.before = bal,
                       !.healthBefore = health])
  /\ UNCHANGED <<timePast, bal, lenderVars, debt, positionVars,
                 fairLaunchPoolId, stake>>

beginAddCollateral(user, strategy, id, health) ==
  /\ nonReentrant
  /\ fairLaunchPoolId # NoPool
  /\ id < nextPositionID
  /\ positions[id].owner = user
  /\ health # 0
  /\ strategy \in ApprovedAddStrategies
  /\ debt' = AccruedDebt
  /\ reservePool' = AccruedReserve
  /\ timePast' = 0
  /\ POSITION_ID' = id /\ STRATEGY' = strategy
  /\ Wait([NoTx EXCEPT !.kind = "addCollateral", !.caller = user, !.id = id,
                       !.debt = DebtOf(AccruedDebt, id), !.before = bal,
                       !.healthBefore = health])
  /\ UNCHANGED <<bal, totalSupply, positionVars, fairLaunchPoolId, stake>>

\* Mutant: the scope is not released.
finishAddCollateral_KeepsScope(health) ==
  /\ tx.kind = "addCollateral"
  /\ back = 0
  /\ health > tx.healthBefore
  /\ KillFactor >= Percent
  /\ ~Exceeds(tx.debt, KillFactor - Percent, health)
  /\ Return
  /\ UNCHANGED <<timePast, bal, lenderVars, debt, positionVars,
                 fairLaunchPoolId, stake, scopeVars>>

finishAddCollateral(health) ==
  /\ tx.kind = "addCollateral"
  /\ back = 0
  /\ health > tx.healthBefore
  /\ KillFactor >= Percent
  /\ ~Exceeds(tx.debt, KillFactor - Percent, health)
  /\ POSITION_ID' = NO_ID /\ STRATEGY' = NoAddr
  /\ Return
  /\ UNCHANGED <<timePast, bal, lenderVars, debt, positionVars,
                 fairLaunchPoolId, stake>>
-----------------------------------------------------------------------------
(* kill.  It leaves the execution scope free. *)

\* Mutant: the debt to repay is read before interest is accrued.
beginKill_StaleDebt(liquidator, id, health) ==
  /\ nonReentrant
  /\ fairLaunchPoolId # NoPool
  /\ debt.debtShare[id] > 0
  /\ fairLaunchWithdraw(id)
  /\ Exceeds(DebtOf(debt, id), KillFactor, health)
  /\ debt' = RemoveDebt(AccruedDebt, id)
  /\ reservePool' = AccruedReserve
  /\ timePast' = 0
  /\ Wait([NoTx EXCEPT !.kind = "kill", !.caller = liquidator, !.id = id,
                       !.debt = DebtOf(debt, id), !.before = bal])
  /\ UNCHANGED <<bal, totalSupply, positionVars, fairLaunchPoolId, scopeVars>>

beginKill(liquidator, id, health) ==
  /\ nonReentrant
  /\ fairLaunchPoolId # NoPool
  /\ debt.debtShare[id] > 0
  /\ fairLaunchWithdraw(id)
  /\ Exceeds(DebtOf(AccruedDebt, id), KillFactor, health)
  /\ debt' = RemoveDebt(AccruedDebt, id)
  /\ reservePool' = AccruedReserve
  /\ timePast' = 0
  /\ Wait([NoTx EXCEPT !.kind = "kill", !.caller = liquidator, !.id = id,
                       !.debt = DebtOf(AccruedDebt, id), !.before = bal])
  /\ UNCHANGED <<bal, totalSupply, positionVars, fairLaunchPoolId, scopeVars>>

prize == (back * KillBps) \div BPS + (back * KillTreasuryBps) \div BPS

\* What the liquidation leaves for the debt; the owner gets the excess.
rest == back - prize

finishKill ==
  LET left == IF rest > tx.debt THEN rest - tx.debt ELSE 0
  IN  /\ tx.kind = "kill"
      /\ bal' = bal - prize - left
      /\ Return
      /\ UNCHANGED <<timePast, lenderVars, debt, positionVars,
                     fairLaunchPoolId, stake, scopeVars>>
-----------------------------------------------------------------------------
(* What workers, strategies and the world around the vault do.              *)

\* Tokens come in: a strategy returns funds, a worker pays its share of the
\* rewards to the lenders, anybody sends tokens.
receiveToken(amount) ==
  /\ bal + amount <= MaxToken
  /\ bal' = bal + amount
  /\ UNCHANGED <<timePast, lenderVars, debt, positionVars, fairLaunchPoolId,
                 stake, scopeVars, tx, saved>>

\* A strategy has the owner of the position in scope pay for it.
requestFunds(sender) ==
  /\ POSITION_ID # NO_ID
  /\ STRATEGY = sender
  /\ tx' = [tx EXCEPT !.debited = @ \cup {positions[POSITION_ID].owner}]
  /\ UNCHANGED <<timePast, bal, lenderVars, debt, positionVars,
                 fairLaunchPoolId, stake, scopeVars, saved>>

\* Time passes between transactions.
Tick ==
  /\ nonReentrant
  /\ timePast < MaxTimePast
  /\ debt.vaultDebtVal <= MaxDebt /\ reservePool <= MaxReserve
  /\ timePast' = timePast + 1
  /\ UNCHANGED <<bal, lenderVars, debt, positionVars, fairLaunchPoolId,
                 stake, scopeVars, tx, saved>>

\* The callee or a check after it fails: the EVM undoes the whole call.
Revert ==
  /\ tx # NoTx
  /\ timePast' = saved.timePast /\ bal' = saved.bal
  /\ reservePool' = saved.reservePool /\ totalSupply' = saved.totalSupply
  /\ debt' = saved.debt /\ positions' = saved.positions
  /\ nextPositionID' = saved.nextPositionID
  /\ fairLaunchPoolId' = saved.fairLaunchPoolId
  /\ stake' = saved.stake
  /\ POSITION_ID' = saved.POSITION_ID /\ STRATEGY' = saved.STRATEGY
  /\ Return
-----------------------------------------------------------------------------
Next ==
  \/ \E amount \in Amounts : deposit(amount) \/ receiveToken(amount)
  \/ \E share \in 1..MaxSupply : withdraw(share)
  \/ \E value \in 1..MaxToken : withdrawReserve(value) \/ reduceReserve(value)
  \/ \E pid \in PoolIds : setFairLaunchPoolId(pid)
  \/ \E user \in Users, worker \in Workers, strategy \in Strategies,
        id \in Ids \cup {NO_ID}, borrow \in Amounts \cup {0},
        maxReturn \in MaxReturns :
       beginWork(user, worker, strategy, id, borrow, maxReturn)
  \/ \E user \in Users, strategy \in Strategies, id \in Ids,
        health \in HealthLevels :
       beginAddCollateral(user, strategy, id, health)
  \/ \E liquidator \in Users, id \in Ids, health \in HealthLevels :
       beginKill(liquidator, id, health)
  \/ \E health \in HealthLevels :
       finishWork(health) \/ finishAddCollateral(health)
  \/ finishKill
  \/ \E sender \in Strategies : requestFunds(sender)
  \/ Tick
  \/ Revert

Spec == Init /\ [][Next]_vars
-----------------------------------------------------------------------------
(* Properties.  Committed is the state as the chain shows it: a call that   *)
(* waits has committed nothing yet.                                         *)
Committed == IF tx = NoTx THEN Storage ELSE saved

\* Every debt share belongs to a position, in the middle of a call too
\* (_addDebt, _removeDebt keep three storage slots in step).
DebtSharesAgree == SharesAgree(debt)

\* The debt pool never owes value without shares or holds shares worth less
\* than a token each: otherwise debtValToShare divides by zero or new debt is
\* shared out wrongly.
DebtPoolSound == ValueCoversShares(debt)

\* Only the account that made the call pays through requestFunds: the scope
\* points at a position of the caller, and at none outside work and
\* addCollateral.
OnlyCallerPays ==
  /\ tx.debited \subseteq {tx.caller}
  /\ POSITION_ID # NO_ID => /\ tx.kind \in {"work", "addCollateral"}
                            /\ positions[POSITION_ID].owner = tx.caller

\* A position is never open to kill right after its owner's own work or
\* addCollateral went through, although the debt is converted to shares and
\* back in between.
NoInstantKill ==
  [][\A health \in HealthLevels :
       (finishWork(health) \/ finishAddCollateral(health)) =>
         ~Exceeds(DebtOf(AccruedDebt', tx.id), KillFactor, health)]_vars

\* What an ibToken is worth never falls, whatever deposits, withdrawals,
\* loans, failures and fees of others: only a liquidation that brings in less
\* than the debt takes from it, and then no more than what is missing.
LenderShareNeverFalls ==
  [][LET old == Committed
         new == Committed'
         missing == IF tx.kind = "kill" /\ finishKill /\ rest < tx.debt
                    THEN tx.debt - rest ELSE 0
     IN  totalToken(old) * new.totalSupply
           <= (totalToken(new) + missing) * old.totalSupply]_vars

\* The interest that is due in a state, and its debt with it.
Due(s) ==
  (getInterestRate(s.debt.vaultDebtVal, s.bal)
     * s.debt.vaultDebtVal * s.timePast) \div WAD
Accrued(s) == AddInterest(s.debt, Due(s))

\* What borrowers are to pay for the time that has passed never rises but by
\* time, or by the owner taking out the reserve: withdrawReserve has no accrue
\* modifier and leaves less in the vault, so that pendingInterest prices the
\* past at the higher rate.  Deposits, loans, calls that fail, whoever makes
\* them, and tokens sent to the vault can only lower it.  A new configuration
\* (updateConfig, and the setters of the one in use) can also change the rate
\* of the past; the configuration is constant here.
OnlyOwnerRepricesPast ==
  [][Due(Committed) < Due(Committed') =>
       Tick \/ \E value \in 1..MaxToken : withdrawReserve(value)]_vars

\* Interest apart, a call on one position moves the debt of the others only
\* up, and never above what one share more would have owed, and a token.
BystanderDebtStable ==
  [][LET old == Accrued(Committed)
         new == Accrued(Committed')
     IN  tx # NoTx /\ tx' = NoTx =>
           \A id \in Ids \ {tx.id} :
             DebtOf(new, id) \in
               DebtOf(old, id)..(debtShareToVal(old, old.debtShare[id] + 1) + 1)]_vars

\* The debt shares of a user's positions.
OwnedShares(user) ==
  SumFunction([id \in Ids |->
                 IF positions[id].owner = user THEN debt.debtShare[id] ELSE 0])

\* A farmer always has at least the debt shares of their positions staked in
\* FairLaunch, also when withdrawals from it failed.
FairLaunchCovers == \A user \in Users : OwnedShares(user) <= StakeOf(user)
=============================================================================
