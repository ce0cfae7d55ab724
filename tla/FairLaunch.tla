----------------------------- MODULE FairLaunch -----------------------------
(***************************************************************************)
(* 6/token/FairLaunch.sol: ALPACA minted block by block and shared out     *)
(* among those who stake.  Stakes may be funded by somebody else (vaults   *)
(* stake for their farmers), and part of what is paid during a bonus       *)
(* period is locked.  Every stake token has one pool; none is ALPACA.      *)
(***************************************************************************)
EXTENDS Integers, Sequences, FiniteSets, Functions

CONSTANTS
  Users,        \* who stakes and who funds
  NoOne,        \* address(0)
  PRECISION,    \* 1e12
  AllocPoints,  \* what the owner gives a pool
  Rates,        \* what the owner sets alpacaPerBlock to
  Multipliers,  \* what the owner sets bonusMultiplier to
  BonusEnds,    \* what the owner sets bonusEndBlock to
  Careful,      \* the owner changes rates when every pool is up to date, and gives one bonus, from the start
  FirstRate, FirstBonus,
  CAP,          \* of the token
  MaxPools, MaxStake, MaxBlock, MaxTouched  \* bounds

ASSUME FairLaunchAssumption ==
  /\ IsFiniteSet(Users) /\ NoOne \notin Users
  /\ PRECISION \in Nat \ {0} /\ AllocPoints \subseteq Nat /\ Rates \subseteq Nat
  /\ Multipliers \subseteq Nat \ {0, 1} /\ BonusEnds \subseteq Nat
  /\ Careful \in BOOLEAN
  /\ FirstRate \in Nat /\ FirstBonus \in [multiplier : Nat, endBlock : Nat]
  /\ CAP \in Nat /\ MaxPools \in Nat /\ MaxStake \in Nat /\ MaxBlock \in Nat /\ MaxTouched \in Nat

VARIABLES
  block, alpacaPerBlock, bonus, totalAllocPoint,
  poolInfo,  \* sequence; lpSupply is the contract's balance of the stake token
  userInfo,  \* [1 .. MaxPools -> [Users -> what they stake]]
  alpaca,    \* ALPACA in the contract
  supply,    \* ALPACA the contract has minted, what dev gets included
  announced, \* history: what the rate and the bonus of every block so far amount to
  paidIn,    \* history: [user -> stake tokens put in less stake tokens taken out]
  touched    \* history: how often a stake has changed

vars == <<block, alpacaPerBlock, bonus, totalAllocPoint, poolInfo, userInfo, alpaca, supply, announced, paidIn, touched>>
settings == <<alpacaPerBlock, bonus>>
stakes == <<userInfo, paidIn, touched>>

Pids == DOMAIN poolInfo
NoStake == [amount |-> 0, rewardDebt |-> 0, bonusDebt |-> 0, fundedBy |-> NoOne]

----------------------------------------------------------------------------
getMultiplier(from, to) ==
  IF to <= bonus.endBlock THEN (to - from) * bonus.multiplier
  ELSE IF from >= bonus.endBlock THEN to - from
  ELSE (bonus.endBlock - from) * bonus.multiplier + (to - bonus.endBlock)

Outdated(pool) == block > pool.lastRewardBlock /\ pool.lpSupply # 0
alpacaReward(pool) ==
  IF Outdated(pool)
  THEN (getMultiplier(pool.lastRewardBlock, block) * alpacaPerBlock * pool.allocPoint) \div totalAllocPoint
  ELSE 0
alpacaBonusPortion(pool) ==
  ((bonus.endBlock - pool.lastRewardBlock) * bonus.multiplier * alpacaPerBlock * pool.allocPoint) \div totalAllocPoint

PerShare(pool, reward) == (reward * PRECISION) \div pool.lpSupply
\* Mutant: the bonus portion is added to the new sum instead of the old one.
TilBonusEnd_FromNew(pool, acc) ==
  IF block <= bonus.endBlock THEN acc
  ELSE IF pool.lastRewardBlock < bonus.endBlock THEN acc + PerShare(pool, alpacaBonusPortion(pool))
  ELSE pool.accAlpacaPerShareTilBonusEnd
TilBonusEnd(pool, acc) ==
  IF block <= bonus.endBlock THEN acc
  ELSE IF pool.lastRewardBlock < bonus.endBlock
  THEN pool.accAlpacaPerShareTilBonusEnd + PerShare(pool, alpacaBonusPortion(pool))
  ELSE pool.accAlpacaPerShareTilBonusEnd

updatePool(pool) ==
  LET acc == pool.accAlpacaPerShare + PerShare(pool, alpacaReward(pool))
  IN IF ~Outdated(pool) THEN [pool EXCEPT !.lastRewardBlock = IF block > @ THEN block ELSE @]
     ELSE [pool EXCEPT !.lastRewardBlock = block, !.accAlpacaPerShare = acc,
                       !.accAlpacaPerShareTilBonusEnd = TilBonusEnd(pool, acc)]

\* The pools of S are brought up to date: a division by totalAllocPoint or the cap can make it fail.
Minted(S) == SumFunction([p \in S |-> alpacaReward(poolInfo[p])])
ForDev(S) == SumFunction([p \in S |-> alpacaReward(poolInfo[p]) \div 10])
Update(S) ==
  /\ \A p \in S : Outdated(poolInfo[p]) => totalAllocPoint # 0
  /\ supply + Minted(S) + ForDev(S) <= CAP
  /\ supply' = supply + Minted(S) + ForDev(S)
Fresh(S) == [p \in Pids |-> IF p \in S THEN updatePool(poolInfo[p]) ELSE poolInfo[p]]

----------------------------------------------------------------------------
Init ==
  /\ block = 0 /\ alpacaPerBlock = FirstRate /\ bonus = FirstBonus /\ totalAllocPoint = 0
  /\ poolInfo = <<>> /\ userInfo = [p \in 1 .. MaxPools |-> [u \in Users |-> NoStake]]
  /\ alpaca = 0 /\ supply = 0 /\ announced = 0
  /\ paidIn = [u \in Users |-> 0] /\ touched = 0

MultiplierAt(b) == IF b <= bonus.endBlock THEN bonus.multiplier ELSE 1
NextBlock ==
  /\ block < MaxBlock
  /\ block' = block + 1
  /\ announced' = announced + alpacaPerBlock * MultiplierAt(block + 1)
  /\ UNCHANGED <<settings, totalAllocPoint, poolInfo, stakes, alpaca, supply>>

(* The owner. *)

UpToDate == \A p \in Pids : poolInfo[p].lastRewardBlock = block
BonusOnly == \A p \in Pids : poolInfo[p].accAlpacaPerShare = poolInfo[p].accAlpacaPerShareTilBonusEnd

setAlpacaPerBlock ==
  /\ Careful => UpToDate
  /\ alpacaPerBlock' \in Rates
  /\ UNCHANGED <<block, bonus, totalAllocPoint, poolInfo, stakes, alpaca, supply, announced>>

setBonus ==
  /\ Careful => UpToDate /\ BonusOnly
  /\ \E m \in Multipliers, end \in BonusEnds : end > block /\ bonus' = [multiplier |-> m, endBlock |-> end]
  /\ UNCHANGED <<block, alpacaPerBlock, totalAllocPoint, poolInfo, stakes, alpaca, supply, announced>>

\* The model starts at the start block or later, so that the later of it and the present block
\* is the present one.
addPool ==
  /\ Len(poolInfo) < MaxPools
  /\ \E allocPoint \in AllocPoints, withUpdate \in BOOLEAN :
       LET S == IF withUpdate THEN Pids ELSE {}
           pool == [allocPoint |-> allocPoint, lastRewardBlock |-> block, lpSupply |-> 0,
                    accAlpacaPerShare |-> 0, accAlpacaPerShareTilBonusEnd |-> 0]
       IN /\ Update(S) /\ alpaca' = alpaca + Minted(S)
          /\ totalAllocPoint' = totalAllocPoint + allocPoint
          /\ poolInfo' = Append(Fresh(S), pool)
  /\ UNCHANGED <<block, settings, stakes, announced>>

\* Mutant: without massUpdatePools.
setPool_NoUpdate(pid) ==
  /\ \E allocPoint \in AllocPoints :
       /\ totalAllocPoint' = totalAllocPoint - poolInfo[pid].allocPoint + allocPoint
       /\ poolInfo' = [poolInfo EXCEPT ![pid].allocPoint = allocPoint]
  /\ UNCHANGED <<block, settings, stakes, announced, supply, alpaca>>
setPool(pid) ==
  /\ totalAllocPoint >= poolInfo[pid].allocPoint
  /\ Update(Pids) /\ alpaca' = alpaca + Minted(Pids)
  /\ \E allocPoint \in AllocPoints :
       /\ totalAllocPoint' = totalAllocPoint - poolInfo[pid].allocPoint + allocPoint
       /\ poolInfo' = [Fresh(Pids) EXCEPT ![pid].allocPoint = allocPoint]
  /\ UNCHANGED <<block, settings, stakes, announced>>

(* Everybody. *)

\* updatePool is public; massUpdatePools is one after the other.
touchPool(pid) ==
  /\ Update({pid}) /\ alpaca' = alpaca + Minted({pid})
  /\ poolInfo' = Fresh({pid})
  /\ UNCHANGED <<block, settings, totalAllocPoint, stakes, announced>>

\* Stake tokens sent to the contract without a deposit.
donate(pid) ==
  /\ poolInfo[pid].lpSupply < MaxStake
  /\ poolInfo' = [poolInfo EXCEPT ![pid].lpSupply = @ + 1]
  /\ UNCHANGED <<block, settings, totalAllocPoint, stakes, alpaca, supply, announced>>

Earned(user, pool) == (user.amount * pool.accAlpacaPerShare) \div PRECISION
EarnedTilBonusEnd(user, pool) == (user.amount * pool.accAlpacaPerShareTilBonusEnd) \div PRECISION
\* Mutant: the debt is that of the old amount.
Settled_Late(user, pool, amount) ==
  [user EXCEPT !.amount = amount, !.rewardDebt = Earned(user, pool), !.bonusDebt = EarnedTilBonusEnd(user, pool)]
Settled(user, pool, amount) ==
  LET new == [user EXCEPT !.amount = amount]
  IN [new EXCEPT !.rewardDebt = Earned(new, pool), !.bonusDebt = EarnedTilBonusEnd(new, pool)]

pending(user, pool) == Earned(user, pool) - user.rewardDebt
bonusOf(user, pool) == EarnedTilBonusEnd(user, pool) - user.bonusDebt

pendingAlpaca(pid, _user) == pending(userInfo[pid][_user], updatePool(poolInfo[pid]))

\* _harvest of an up to date pool; the locked part is taken from what the user holds then.
harvestPays(pid, _for) ==
  LET user == userInfo[pid][_for]
      balance == alpaca + Minted({pid})
  IN /\ pending(user, updatePool(poolInfo[pid])) <= balance
     /\ alpaca' = balance - pending(user, updatePool(poolInfo[pid]))

\* Mutant: whoever sends tokens may add to a stake.
badSof_Unchecked(user, sender) == FALSE
badSof(user, sender) == user.fundedBy # NoOne /\ user.fundedBy # sender

\* Mutant: the tokens arrive before the pool is brought up to date.
deposit_TransfersFirst(sender, _for, pid, amount) ==
  LET user == userInfo[pid][_for]
      funded == [user EXCEPT !.fundedBy = IF @ = NoOne THEN sender ELSE @]
      fresh == updatePool([poolInfo[pid] EXCEPT !.lpSupply = @ + amount])
  IN /\ ~badSof(user, sender) /\ totalAllocPoint # 0
     /\ Update({pid})
     /\ IF user.amount > 0 THEN harvestPays(pid, _for) ELSE alpaca' = alpaca + Minted({pid})
     /\ userInfo' = [userInfo EXCEPT ![pid][_for] = Settled(funded, fresh, user.amount + amount)]
     /\ poolInfo' = [poolInfo EXCEPT ![pid] = fresh]
     /\ fresh.lpSupply <= MaxStake
     /\ paidIn' = [paidIn EXCEPT ![sender] = @ + amount]
     /\ touched < MaxTouched /\ touched' = touched + 1
     /\ UNCHANGED <<block, settings, totalAllocPoint, announced>>
deposit(sender, _for, pid, amount) ==
  LET user == userInfo[pid][_for]
      funded == [user EXCEPT !.fundedBy = IF @ = NoOne THEN sender ELSE @]
  IN /\ ~badSof(user, sender)
     /\ Update({pid})
     /\ IF user.amount > 0 THEN harvestPays(pid, _for) ELSE alpaca' = alpaca + Minted({pid})
     /\ userInfo' = [userInfo EXCEPT ![pid][_for] = Settled(funded, updatePool(poolInfo[pid]), user.amount + amount)]
     /\ poolInfo' = [Fresh({pid}) EXCEPT ![pid].lpSupply = @ + amount]
     /\ poolInfo[pid].lpSupply + amount <= MaxStake
     /\ paidIn' = [paidIn EXCEPT ![sender] = @ + amount]
     /\ touched < MaxTouched /\ touched' = touched + 1
     /\ UNCHANGED <<block, settings, totalAllocPoint, announced>>

\* withdrawAll is a withdrawal of the whole amount.
withdraw(sender, _for, pid, amount) ==
  LET user == userInfo[pid][_for]
      left == Settled(user, updatePool(poolInfo[pid]), user.amount - amount)
  IN /\ user.fundedBy = sender /\ user.amount >= amount /\ user.amount > 0
     /\ poolInfo[pid].lpSupply >= amount
     /\ Update({pid}) /\ harvestPays(pid, _for)
     /\ userInfo' = [userInfo EXCEPT ![pid][_for] =
                       [left EXCEPT !.fundedBy = IF left.amount = 0 THEN NoOne ELSE @]]
     /\ poolInfo' = [Fresh({pid}) EXCEPT ![pid].lpSupply = @ - amount]
     /\ paidIn' = [paidIn EXCEPT ![sender] = @ - amount]
     /\ touched < MaxTouched /\ touched' = touched + 1
     /\ UNCHANGED <<block, settings, totalAllocPoint, announced>>

harvest(user, pid) ==
  LET stake == userInfo[pid][user]
  IN /\ stake.amount > 0
     /\ Update({pid}) /\ harvestPays(pid, user)
     /\ userInfo' = [userInfo EXCEPT ![pid][user] = Settled(stake, updatePool(poolInfo[pid]), stake.amount)]
     /\ poolInfo' = Fresh({pid})
     /\ UNCHANGED <<block, settings, totalAllocPoint, announced, paidIn, touched>>

\* Mutant: the amount stays.
emergencyWithdraw_KeepsAmount(user, pid) ==
  LET stake == userInfo[pid][user]
  IN /\ stake.fundedBy = user /\ poolInfo[pid].lpSupply >= stake.amount
     /\ userInfo' = [userInfo EXCEPT ![pid][user].rewardDebt = 0]
     /\ poolInfo' = [poolInfo EXCEPT ![pid].lpSupply = @ - stake.amount]
     /\ paidIn' = [paidIn EXCEPT ![user] = @ - stake.amount]
     /\ UNCHANGED <<block, settings, totalAllocPoint, alpaca, supply, announced, touched>>
\* bonusDebt stays.
emergencyWithdraw(user, pid) ==
  LET stake == userInfo[pid][user]
  IN /\ stake.fundedBy = user /\ poolInfo[pid].lpSupply >= stake.amount
     /\ userInfo' = [userInfo EXCEPT ![pid][user] = [NoStake EXCEPT !.bonusDebt = stake.bonusDebt]]
     /\ poolInfo' = [poolInfo EXCEPT ![pid].lpSupply = @ - stake.amount]
     /\ paidIn' = [paidIn EXCEPT ![user] = @ - stake.amount]
     /\ UNCHANGED <<block, settings, totalAllocPoint, alpaca, supply, announced, touched>>

Next ==
  \/ NextBlock \/ setAlpacaPerBlock \/ setBonus \/ addPool
  \/ \E pid \in Pids :
       \/ setPool(pid) \/ touchPool(pid) \/ donate(pid)
       \/ \E u \in Users :
            \/ harvest(u, pid) \/ emergencyWithdraw(u, pid)
            \/ \E _for \in Users, amount \in 0 .. MaxStake :
                 deposit(u, _for, pid, amount) \/ withdraw(u, _for, pid, amount)

Spec == Init /\ [][Next]_vars

----------------------------------------------------------------------------
\* What a funder has put in and not taken out is what the stakes of their name hold, and all of it is
\* in the contract, however stakes are topped up, withdrawn by their funder or taken out in emergency.
Funded(p, funder) ==
  SumFunction([u \in Users |-> IF userInfo[p][u].fundedBy = funder THEN userInfo[p][u].amount ELSE 0])
Staked(p) == SumFunction([u \in Users |-> userInfo[p][u].amount])
StakesBacked ==
  /\ \A funder \in Users : paidIn[funder] = SumFunction([p \in Pids |-> Funded(p, funder)])
  /\ \A p \in Pids : Staked(p) <= poolInfo[p].lpSupply

\* What all stakers together could harvest is in the contract, but for less than one unit for each time
\* a stake changed: rewards are never promised twice, across deposits, withdrawals, pools and rounding.
Harvestable(p) == SumFunction([u \in Users |-> pending(userInfo[p][u], poolInfo[p])])
RewardsCovered == SumFunction([p \in Pids |-> Harvestable(p)]) <= alpaca + touched

\* What a staker could harvest is never lowered by what others do: deposits, withdrawals and harvests of
\* others, those in emergency too (which leave the pool as it was), the updates of pools and new pools
\* without a share all leave it, and time only adds to it.  What can lower it is a new rate, bonus or
\* total of points, and stake tokens sent to the contract, which dilute blocks that already passed.
OthersKeepTheirRewards ==
  [][UNCHANGED <<settings, totalAllocPoint>> /\ totalAllocPoint # 0 /\ (\A pid \in Pids : ~donate(pid)) =>
       \A p \in Pids, u \in Users :
         userInfo'[p][u] = userInfo[p][u] => pendingAlpaca(p, u) <= pendingAlpaca(p, u)']_vars

\* No more ALPACA is minted than the rate and the bonus in force at each block amount to, plus a tenth for
\* dev, whenever pools are brought up to date (the comments on alpacaPerBlock and setBonus).
MintsAsAnnounced == 10 * supply <= 11 * announced

\* What a harvest locks is part of what it pays: nobody's own ALPACA is locked with it, and nobody who
\* has none is kept from their stake.
BonusWithinReward ==
  \A p \in Pids, u \in Users : userInfo[p][u].amount > 0 =>
    bonusOf(userInfo[p][u], poolInfo[p]) <= pending(userInfo[p][u], poolInfo[p])
=============================================================================
