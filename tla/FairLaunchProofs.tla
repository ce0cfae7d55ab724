--------------------------- MODULE FairLaunchProofs ---------------------------
(***************************************************************************)
(* What FairLaunch promises, for any number of users, pools and blocks.    *)
(*                                                                         *)
(* BonusInv: what a careful owner's FairLaunch locks is part of what it    *)
(* pays.  A stake remembers both sums per share as they were when it was   *)
(* settled last (A and B below).  Until the bonus has ended the two sums   *)
(* are equal in every pool that has been updated in time; afterwards the   *)
(* sum until the end stands still, and a stake settled since then has      *)
(* nothing to lock.                                                        *)
(*                                                                         *)
(* StakesInv: what was staked, in whoever's name, is in the contract, and  *)
(* so is what all stakers together may harvest, but for the rounding of    *)
(* the stakes that were changed.  Before rounding, an update adds to what  *)
(* may be harvested no more than it mints.                                 *)
(*                                                                         *)
(* MintInv: what pools that wait for their update may still mint is part   *)
(* of what the blocks announced, as long as rates change with every pool   *)
(* updated.                                                                *)
(*                                                                         *)
(* SumAt: what a pool will be worth per share once it is up to date; no    *)
(* step of a staker makes it less, so that none takes from another.        *)
(***************************************************************************)
EXTENDS FairLaunch, ArithmeticLemmas

Pool == [allocPoint : Nat, lastRewardBlock : Nat, lpSupply : Nat,
         accAlpacaPerShare : Nat, accAlpacaPerShareTilBonusEnd : Nat]
Stake == [amount : Nat, rewardDebt : Nat, bonusDebt : Nat, fundedBy : Users \cup {NoOne}]

\* A pool at block b, when the bonus ends at block end.
GoodSums(pool, b, end) ==
  /\ pool \in Pool
  /\ pool.lastRewardBlock <= b
  /\ pool.accAlpacaPerShareTilBonusEnd <= pool.accAlpacaPerShare
  /\ pool.lastRewardBlock <= end => pool.accAlpacaPerShareTilBonusEnd = pool.accAlpacaPerShare

\* A stake that was settled at the sums A and B.
SettledAt(user, A, B) ==
  user.rewardDebt = (user.amount * A) \div PRECISION /\ user.bonusDebt = (user.amount * B) \div PRECISION
Remembers(user, pool, end) ==
  user.amount > 0 =>
    \E A, B \in Nat :
      /\ SettledAt(user, A, B)
      /\ B <= A /\ A <= pool.accAlpacaPerShare
      /\ A = B \/ (B = pool.accAlpacaPerShareTilBonusEnd /\ pool.lastRewardBlock > end)

\* The pools and stakes of a state, with the block and the end of the bonus.
GoodBooks(pools, users, b, end) ==
  /\ pools \in Seq(Pool) /\ Len(pools) <= MaxPools
  /\ users \in [1 .. MaxPools -> [Users -> Stake]]
  /\ \A p \in DOMAIN pools : GoodSums(pools[p], b, end)
  /\ \A p \in DOMAIN pools, u \in Users : Remembers(users[p][u], pools[p], end)
  /\ \A p \in 1 .. MaxPools, u \in Users : p \notin DOMAIN pools => users[p][u].amount = 0
SettingsOK ==
  /\ block \in Nat /\ alpacaPerBlock \in Nat /\ totalAllocPoint \in Nat
  /\ bonus \in [multiplier : Nat, endBlock : Nat]
BonusInv == SettingsOK /\ GoodBooks(poolInfo, userInfo, block, bonus.endBlock)

----------------------------------------------------------------------------
(* The reward of a pool. *)

\* The blocks of the bonus are a part of all blocks.
LEMMA BonusPortion ==
  ASSUME SettingsOK, NEW pool \in Pool, Outdated(pool), totalAllocPoint # 0
  PROVE  /\ alpacaReward(pool) \in Nat
         /\ pool.lastRewardBlock < bonus.endBlock /\ block > bonus.endBlock =>
              alpacaBonusPortion(pool) \in Nat /\ alpacaBonusPortion(pool) <= alpacaReward(pool)
PROOF
<1> DEFINE from == pool.lastRewardBlock
           m == getMultiplier(from, block)
           n == (bonus.endBlock - from) * bonus.multiplier
           x == (m * alpacaPerBlock) * pool.allocPoint
           y == (n * alpacaPerBlock) * pool.allocPoint
<1>1. /\ from \in Nat /\ pool.allocPoint \in Nat /\ block \in Nat /\ block > from
      /\ bonus.endBlock \in Nat /\ bonus.multiplier \in Nat
      /\ alpacaPerBlock \in Nat /\ totalAllocPoint \in Nat \ {0}
  BY DEF SettingsOK, Pool, Outdated
<1>2. m \in Nat
  <2>1. CASE block <= bonus.endBlock
    <3>1. m = (block - from) * bonus.multiplier /\ block - from \in Nat BY <1>1, <2>1 DEF getMultiplier
    <3> QED BY <1>1, <3>1, Products
  <2>2. CASE block > bonus.endBlock /\ from >= bonus.endBlock BY <1>1, <2>2 DEF getMultiplier
  <2>3. CASE block > bonus.endBlock /\ from < bonus.endBlock
    <3>1. m = n + (block - bonus.endBlock) /\ bonus.endBlock - from \in Nat BY <1>1, <2>3 DEF getMultiplier
    <3>2. n \in Nat BY <1>1, <3>1, Products
    <3> QED BY <1>1, <2>3, <3>1, <3>2
  <2> QED BY <1>1, <2>1, <2>2, <2>3
<1>3. x \in Nat
  <2>1. m * alpacaPerBlock \in Nat BY <1>1, <1>2
  <2> QED BY <1>1, <2>1
<1>4. alpacaReward(pool) = x \div totalAllocPoint BY DEF alpacaReward
<1>5. x \div totalAllocPoint \in Nat
  <2> HIDE DEF x
  <2> QED BY <1>1, <1>3, Division
<1>6. ASSUME from < bonus.endBlock, block > bonus.endBlock
      PROVE  alpacaBonusPortion(pool) \in Nat /\ alpacaBonusPortion(pool) <= alpacaReward(pool)
  <2>1. m = n + (block - bonus.endBlock) /\ bonus.endBlock - from \in Nat BY <1>1, <1>6 DEF getMultiplier
  <2>2. n \in Nat BY <1>1, <2>1, Products
  <2>3. n <= m BY <1>1, <1>6, <2>1, <2>2
  <2> HIDE DEF n, m
  <2>4. n * alpacaPerBlock \in Nat /\ n * alpacaPerBlock <= m * alpacaPerBlock BY <1>1, <1>2, <2>2, <2>3, Products
  <2>5. m * alpacaPerBlock \in Nat BY <1>1, <1>2
  <2> DEFINE nr == n * alpacaPerBlock
             mr == m * alpacaPerBlock
  <2>6. nr \in Nat /\ mr \in Nat /\ nr <= mr BY <2>4, <2>5
  <2> HIDE DEF nr, mr
  <2>7. nr * pool.allocPoint \in Nat /\ nr * pool.allocPoint <= mr * pool.allocPoint BY <1>1, <2>6, Products
  <2>8. y \in Nat /\ y <= x BY <2>7 DEF nr, mr
  <2> HIDE DEF x, y
  <2>9. y \div totalAllocPoint \in Nat /\ y \div totalAllocPoint <= x \div totalAllocPoint
    BY <1>1, <1>3, <2>8, Division, QuotientsMonotone
  <2>10. alpacaBonusPortion(pool) = y \div totalAllocPoint BY DEF alpacaBonusPortion, y, n
  <2> QED BY <1>4, <2>9, <2>10
<1> QED BY <1>4, <1>5, <1>6

\* A larger reward is more per share.
LEMMA MorePerShare ==
  ASSUME FairLaunchAssumption, NEW pool \in Pool, pool.lpSupply # 0, NEW r \in Nat, NEW s \in Nat, s <= r
  PROVE  /\ PerShare(pool, r) \in Nat /\ PerShare(pool, s) \in Nat
         /\ PerShare(pool, s) <= PerShare(pool, r)
PROOF
<1>1. PRECISION \in Nat /\ pool.lpSupply \in Nat \ {0} BY DEF FairLaunchAssumption, Pool
<1>2. s * PRECISION \in Nat /\ r * PRECISION \in Nat /\ s * PRECISION <= r * PRECISION BY <1>1, Products
<1> DEFINE a == s * PRECISION
           b == r * PRECISION
<1>3. a \in Nat /\ b \in Nat /\ a <= b BY <1>2
<1> HIDE DEF a, b
<1>4. a \div pool.lpSupply \in Nat /\ b \div pool.lpSupply \in Nat /\ a \div pool.lpSupply <= b \div pool.lpSupply
  BY <1>1, <1>3, Division, QuotientsMonotone
<1> QED BY <1>4 DEF PerShare, a, b

\* Updating a pool raises its sums, and the one until the end only before the end.
LEMMA UpdateRaises ==
  ASSUME FairLaunchAssumption, SettingsOK, NEW pool, GoodSums(pool, block, bonus.endBlock),
         Outdated(pool) => totalAllocPoint # 0
  PROVE  LET new == updatePool(pool)
         IN /\ GoodSums(new, block, bonus.endBlock)
            /\ new.lastRewardBlock = block
            /\ pool.accAlpacaPerShare <= new.accAlpacaPerShare
            /\ pool.lastRewardBlock > bonus.endBlock =>
                 new.accAlpacaPerShareTilBonusEnd = pool.accAlpacaPerShareTilBonusEnd
PROOF
<1> DEFINE new == updatePool(pool)
           end == bonus.endBlock
           x == PerShare(pool, alpacaReward(pool))
           y == PerShare(pool, alpacaBonusPortion(pool))
           acc == pool.accAlpacaPerShare + x
           til == TilBonusEnd(pool, acc)
<1>1. /\ pool \in Pool /\ pool.lastRewardBlock \in Nat /\ pool.lastRewardBlock <= block
      /\ pool.accAlpacaPerShare \in Nat /\ pool.accAlpacaPerShareTilBonusEnd \in Nat
      /\ block \in Nat /\ end \in Nat
  BY DEF GoodSums, Pool, SettingsOK
<1>2. CASE ~Outdated(pool)
  <2>1. new = [pool EXCEPT !.lastRewardBlock = block]
    BY <1>1, <1>2 DEF updatePool
  <2>2. /\ new \in Pool /\ new.lastRewardBlock = block
        /\ new.accAlpacaPerShare = pool.accAlpacaPerShare
        /\ new.accAlpacaPerShareTilBonusEnd = pool.accAlpacaPerShareTilBonusEnd
    BY <1>1, <2>1 DEF Pool
  <2> HIDE DEF new
  <2>3. GoodSums(new, block, end) BY <1>1, <2>2 DEF GoodSums
  <2>4. pool.accAlpacaPerShare <= new.accAlpacaPerShare BY <1>1, <2>2
  <2> QED BY <2>2, <2>3, <2>4 DEF new
<1>3. CASE Outdated(pool)
  <2>1. pool.lpSupply # 0 /\ block > pool.lastRewardBlock BY <1>3 DEF Outdated
  <2>2. alpacaReward(pool) \in Nat BY <1>1, <1>3, BonusPortion
  <2>3. x \in Nat BY <1>1, <2>1, <2>2, MorePerShare
  <2>4. pool.lastRewardBlock < end /\ block > end => y \in Nat /\ y <= x
    BY <1>1, <1>3, <2>1, <2>2, BonusPortion, MorePerShare
  <2>5. new = [pool EXCEPT !.lastRewardBlock = block, !.accAlpacaPerShare = acc, !.accAlpacaPerShareTilBonusEnd = til]
    BY <1>3 DEF updatePool
  <2> HIDE DEF x, y
  <2>6. acc \in Nat /\ pool.accAlpacaPerShare <= acc BY <1>1, <2>3
  <2>7. /\ til \in Nat /\ til <= acc
        /\ block <= end => til = acc
        /\ pool.lastRewardBlock > end => til = pool.accAlpacaPerShareTilBonusEnd
    <3>1. CASE block <= end
      <4>1. til = acc BY <3>1 DEF TilBonusEnd
      <4> QED BY <1>1, <2>1, <2>6, <3>1, <4>1
    <3>2. CASE block > end /\ pool.lastRewardBlock < end
      <4>1. til = pool.accAlpacaPerShareTilBonusEnd + y BY <1>1, <3>2 DEF TilBonusEnd, y
      <4>2. y \in Nat /\ y <= x BY <2>4, <3>2
      <4>3. pool.accAlpacaPerShareTilBonusEnd <= pool.accAlpacaPerShare BY DEF GoodSums
      <4> QED BY <1>1, <2>3, <3>2, <4>1, <4>2, <4>3
    <3>3. CASE block > end /\ pool.lastRewardBlock >= end
      <4>1. til = pool.accAlpacaPerShareTilBonusEnd BY <1>1, <3>3 DEF TilBonusEnd
      <4>2. pool.accAlpacaPerShareTilBonusEnd <= pool.accAlpacaPerShare BY DEF GoodSums
      <4> QED BY <1>1, <2>3, <3>3, <4>1, <4>2
    <3> QED BY <1>1, <3>1, <3>2, <3>3
  <2> HIDE DEF acc, til
  <2>8. /\ new \in Pool /\ new.lastRewardBlock = block
        /\ new.accAlpacaPerShare = acc /\ new.accAlpacaPerShareTilBonusEnd = til
    BY <1>1, <2>5, <2>6, <2>7 DEF Pool
  <2> HIDE DEF new
  <2>9. GoodSums(new, block, end) BY <1>1, <2>7, <2>8 DEF GoodSums
  <2> QED BY <2>6, <2>7, <2>8, <2>9 DEF new
<1> QED BY <1>2, <1>3

----------------------------------------------------------------------------
(* Stakes and pools. *)

\* A stake remembers what it was settled at while the pool's sums rise.
LEMMA StillRemembers ==
  ASSUME FairLaunchAssumption, SettingsOK, NEW pool, GoodSums(pool, block, bonus.endBlock),
         Outdated(pool) => totalAllocPoint # 0,
         NEW user, Remembers(user, pool, bonus.endBlock)
  PROVE  Remembers(user, updatePool(pool), bonus.endBlock)
PROOF
<1> DEFINE new == updatePool(pool)
           end == bonus.endBlock
<1>1. /\ new.lastRewardBlock = block /\ pool.lastRewardBlock <= block
      /\ pool.accAlpacaPerShare <= new.accAlpacaPerShare
      /\ pool.lastRewardBlock > end => new.accAlpacaPerShareTilBonusEnd = pool.accAlpacaPerShareTilBonusEnd
  BY UpdateRaises DEF GoodSums
<1>2. /\ pool.lastRewardBlock \in Nat /\ block \in Nat /\ end \in Nat
      /\ pool.accAlpacaPerShare \in Nat /\ new.accAlpacaPerShare \in Nat
  BY UpdateRaises DEF GoodSums, Pool, SettingsOK
<1> HIDE DEF new, end
<1>3. ASSUME user.amount > 0
      PROVE  \E A, B \in Nat :
               /\ SettledAt(user, A, B) /\ B <= A /\ A <= new.accAlpacaPerShare
               /\ A = B \/ (B = new.accAlpacaPerShareTilBonusEnd /\ new.lastRewardBlock > end)
  <2>1. PICK A \in Nat, B \in Nat :
          /\ SettledAt(user, A, B) /\ B <= A /\ A <= pool.accAlpacaPerShare
          /\ A = B \/ (B = pool.accAlpacaPerShareTilBonusEnd /\ pool.lastRewardBlock > end)
    BY <1>3 DEF Remembers, end
  <2>2. A <= new.accAlpacaPerShare BY <1>1, <1>2, <2>1
  <2>3. pool.lastRewardBlock > end => new.lastRewardBlock > end BY <1>1, <1>2
  <2> QED BY <1>1, <2>1, <2>2, <2>3
<1> QED BY <1>3 DEF Remembers, new, end

\* What settling leaves.
LEMMA SettlingRemembers ==
  ASSUME FairLaunchAssumption, NEW pool, NEW b \in Nat, NEW end \in Nat, GoodSums(pool, b, end),
         NEW user \in Stake, NEW amount \in Nat
  PROVE  LET new == Settled(user, pool, amount)
         IN new \in Stake /\ new.amount = amount /\ new.fundedBy = user.fundedBy /\ Remembers(new, pool, end)
PROOF
<1> DEFINE new == Settled(user, pool, amount)
           A == pool.accAlpacaPerShare
           B == pool.accAlpacaPerShareTilBonusEnd
<1>1. A \in Nat /\ B \in Nat /\ B <= A /\ (A = B \/ pool.lastRewardBlock > end)
  BY DEF GoodSums, Pool
<1>2. PRECISION \in Nat \ {0} BY DEF FairLaunchAssumption
<1>3. amount * A \in Nat /\ amount * B \in Nat BY <1>1
<1>4. (amount * A) \div PRECISION \in Nat /\ (amount * B) \div PRECISION \in Nat
  BY <1>2, <1>3, Division
<1>5. new = [user EXCEPT !.amount = amount, !.rewardDebt = (amount * A) \div PRECISION,
                         !.bonusDebt = (amount * B) \div PRECISION]
  <2> DEFINE n == [user EXCEPT !.amount = amount]
  <2>1. n.amount = amount BY DEF Stake
  <2>2. new = [n EXCEPT !.rewardDebt = Earned(n, pool), !.bonusDebt = EarnedTilBonusEnd(n, pool)] BY DEF Settled
  <2>3. Earned(n, pool) = (amount * A) \div PRECISION /\ EarnedTilBonusEnd(n, pool) = (amount * B) \div PRECISION
    BY <2>1 DEF Earned, EarnedTilBonusEnd
  <2> QED BY <2>2, <2>3
<1> DEFINE a == (amount * A) \div PRECISION
           c == (amount * B) \div PRECISION
<1>6. a \in Nat /\ c \in Nat /\ new = [user EXCEPT !.amount = amount, !.rewardDebt = a, !.bonusDebt = c]
  BY <1>4, <1>5
<1> HIDE DEF new, a, c
<1>7. /\ new \in Stake /\ new.amount = amount /\ new.rewardDebt = a /\ new.bonusDebt = c
      /\ new.fundedBy = user.fundedBy
  BY <1>6 DEF Stake
<1>8. SettledAt(new, A, B) BY <1>7 DEF SettledAt, a, c
<1>9. Remembers(new, pool, end) BY <1>1, <1>8 DEF Remembers
<1> QED BY <1>7, <1>9 DEF new

\* What a stake remembers does not depend on the size of the pool.
LEMMA SizeDoesNotMatter ==
  ASSUME NEW b \in Nat, NEW end \in Nat, NEW pool, GoodSums(pool, b, end), NEW size \in Nat, NEW points \in Nat
  PROVE  LET new == [pool EXCEPT !.lpSupply = size]
             other == [pool EXCEPT !.allocPoint = points]
         IN /\ GoodSums(new, b, end) /\ GoodSums(other, b, end)
            /\ \A user : Remembers(user, pool, end) => Remembers(user, new, end) /\ Remembers(user, other, end)
PROOF
<1> DEFINE new == [pool EXCEPT !.lpSupply = size]
           other == [pool EXCEPT !.allocPoint = points]
<1>1. /\ new \in Pool /\ new.lastRewardBlock = pool.lastRewardBlock
      /\ new.accAlpacaPerShare = pool.accAlpacaPerShare
      /\ new.accAlpacaPerShareTilBonusEnd = pool.accAlpacaPerShareTilBonusEnd
  BY DEF GoodSums, Pool
<1>2. /\ other \in Pool /\ other.lastRewardBlock = pool.lastRewardBlock
      /\ other.accAlpacaPerShare = pool.accAlpacaPerShare
      /\ other.accAlpacaPerShareTilBonusEnd = pool.accAlpacaPerShareTilBonusEnd
  BY DEF GoodSums, Pool
<1> HIDE DEF new, other
<1>3. GoodSums(new, b, end) /\ GoodSums(other, b, end) BY <1>1, <1>2 DEF GoodSums
<1>4. \A user : Remembers(user, pool, end) => Remembers(user, new, end) /\ Remembers(user, other, end)
  BY <1>1, <1>2 DEF Remembers
<1> QED BY <1>3, <1>4 DEF new, other

\* Bringing pools up to date keeps the books.
LEMMA UpdateKeepsBooks ==
  ASSUME FairLaunchAssumption, BonusInv, NEW S \in SUBSET Pids, \A p \in S : Outdated(poolInfo[p]) => totalAllocPoint # 0
  PROVE  GoodBooks(Fresh(S), userInfo, block, bonus.endBlock) /\ DOMAIN Fresh(S) = Pids
PROOF
<1> DEFINE pools == Fresh(S)
<1>1. /\ SettingsOK /\ poolInfo \in Seq(Pool) /\ Pids = 1 .. Len(poolInfo) /\ Len(poolInfo) \in Nat
      /\ \A p \in Pids : GoodSums(poolInfo[p], block, bonus.endBlock)
  BY DEF BonusInv, GoodBooks, Pids
<1>2. /\ DOMAIN pools = Pids
      /\ \A p \in Pids : pools[p] = IF p \in S THEN updatePool(poolInfo[p]) ELSE poolInfo[p]
  BY DEF Fresh
<1> HIDE DEF pools
<1>3. ASSUME NEW p \in Pids PROVE GoodSums(pools[p], block, bonus.endBlock)
  BY <1>1, <1>2, UpdateRaises
<1>4. ASSUME NEW p \in Pids, NEW u \in Users PROVE Remembers(userInfo[p][u], pools[p], bonus.endBlock)
  <2>1. Remembers(userInfo[p][u], poolInfo[p], bonus.endBlock) BY DEF BonusInv, GoodBooks, Pids
  <2> QED BY <1>1, <1>2, <2>1, StillRemembers
<1>5. pools \in Seq(Pool) /\ Len(pools) = Len(poolInfo)
  <2>1. \A p \in 1 .. Len(poolInfo) : pools[p] \in Pool BY <1>1, <1>3 DEF GoodSums
  <2>2. pools = [p \in 1 .. Len(poolInfo) |-> pools[p]] BY <1>1, <1>2 DEF Fresh, pools
  <2> QED BY <1>1, <2>1, <2>2
<1> QED BY <1>2, <1>3, <1>4, <1>5 DEF BonusInv, GoodBooks, Pids, pools

\* A stake in an up to date pool is settled, and the pool gets another size.
LEMMA SettlingKeepsBooks ==
  ASSUME FairLaunchAssumption, NEW b \in Nat, NEW end \in Nat, NEW pools, NEW users, GoodBooks(pools, users, b, end),
         NEW pid \in DOMAIN pools, NEW u \in Users, NEW size \in Nat, NEW stake \in Stake,
         Remembers(stake, pools[pid], end)
  PROVE  GoodBooks([pools EXCEPT ![pid].lpSupply = size], [users EXCEPT ![pid][u] = stake], b, end)
PROOF
<1> DEFINE new == [pools EXCEPT ![pid].lpSupply = size]
           q == [pools[pid] EXCEPT !.lpSupply = size]
           us == [users EXCEPT ![pid][u] = stake]
<1>1. pools \in Seq(Pool) /\ GoodSums(pools[pid], b, end) /\ DOMAIN pools \subseteq 1 .. MaxPools BY DEF GoodBooks, FairLaunchAssumption
<1>2. /\ GoodSums(q, b, end) /\ \A user : Remembers(user, pools[pid], end) => Remembers(user, q, end)
  BY <1>1, SizeDoesNotMatter
<1>3. q \in Pool BY <1>2 DEF GoodSums
<1>4. new = [pools EXCEPT ![pid] = q] OBVIOUS
<1> HIDE DEF q, new
<1>5. /\ new \in Seq(Pool) /\ Len(new) = Len(pools) /\ DOMAIN new = DOMAIN pools
      /\ new[pid] = q /\ \A p \in DOMAIN pools : p # pid => new[p] = pools[p]
  BY <1>1, <1>3, <1>4
<1>6. /\ us \in [1 .. MaxPools -> [Users -> Stake]] /\ us[pid][u] = stake
      /\ \A p \in 1 .. MaxPools, v \in Users : p # pid \/ v # u => us[p][v] = users[p][v]
  BY <1>1 DEF GoodBooks
<1> HIDE DEF us
<1>7. \A p \in DOMAIN new : GoodSums(new[p], b, end) BY <1>2, <1>5 DEF GoodBooks
<1>8. ASSUME NEW p \in DOMAIN new, NEW v \in Users PROVE Remembers(us[p][v], new[p], end)
  <2>1. CASE p = pid /\ v = u BY <1>2, <1>5, <1>6, <2>1
  <2>2. CASE p = pid /\ v # u BY <1>1, <1>2, <1>5, <1>6, <2>2 DEF GoodBooks
  <2>3. CASE p # pid BY <1>1, <1>5, <1>6, <2>3 DEF GoodBooks
  <2> QED BY <2>1, <2>2, <2>3
<1>9. ASSUME NEW p \in 1 .. MaxPools, NEW v \in Users, p \notin DOMAIN new PROVE us[p][v].amount = 0
  <2>1. users[p][v].amount = 0 BY <1>5, <1>9 DEF GoodBooks
  <2>2. p # pid BY <1>5, <1>9
  <2> QED BY <1>6, <2>1, <2>2
<1>10. GoodBooks(new, us, b, end) BY <1>5, <1>6, <1>7, <1>8, <1>9 DEF GoodBooks
<1> QED BY <1>10 DEF new, us

----------------------------------------------------------------------------
(* The steps. *)

\* A deposit or a withdrawal: the pool is updated, the stake settled and the size of the pool changed.
LEMMA StakingKeepsInv ==
  ASSUME FairLaunchAssumption, BonusInv, NEW pid \in Pids, Update({pid}), NEW u \in Users,
         NEW stake \in Stake, NEW amount \in Nat, NEW size \in Nat, NEW funder \in Users \cup {NoOne},
         userInfo' = [userInfo EXCEPT ![pid][u] =
                        [Settled(stake, updatePool(poolInfo[pid]), amount) EXCEPT !.fundedBy = funder]],
         poolInfo' = [Fresh({pid}) EXCEPT ![pid].lpSupply = size],
         block' = block, bonus' = bonus, alpacaPerBlock' = alpacaPerBlock, totalAllocPoint' = totalAllocPoint
  PROVE  BonusInv'
PROOF
<1> DEFINE pool == updatePool(poolInfo[pid])
           settled == Settled(stake, pool, amount)
           new == [settled EXCEPT !.fundedBy = funder]
<1>1. GoodBooks(Fresh({pid}), userInfo, block, bonus.endBlock) /\ DOMAIN Fresh({pid}) = Pids
  BY UpdateKeepsBooks DEF Update
<1>2. Fresh({pid})[pid] = pool BY DEF Fresh
<1>3. GoodSums(pool, block, bonus.endBlock) BY <1>1, <1>2 DEF GoodBooks
<1>4. block \in Nat /\ bonus.endBlock \in Nat BY DEF BonusInv, SettingsOK
<1> HIDE DEF pool
<1>5. settled \in Stake /\ Remembers(settled, pool, bonus.endBlock) BY <1>3, <1>4, SettlingRemembers
<1> HIDE DEF settled
<1>6. /\ new \in Stake /\ new.amount = settled.amount /\ new.rewardDebt = settled.rewardDebt
      /\ new.bonusDebt = settled.bonusDebt
  BY <1>5 DEF Stake
<1>7. Remembers(new, pool, bonus.endBlock) BY <1>5, <1>6 DEF Remembers, SettledAt
<1>8. userInfo' = [userInfo EXCEPT ![pid][u] = new] BY DEF pool, settled
<1> HIDE DEF new
<1>9. GoodBooks(poolInfo', userInfo', block, bonus.endBlock)
  <2> DEFINE pools == Fresh({pid})
  <2>1. GoodBooks(pools, userInfo, block, bonus.endBlock) /\ pid \in DOMAIN pools /\ pools[pid] = pool
    BY <1>1, <1>2
  <2>2. poolInfo' = [pools EXCEPT ![pid].lpSupply = size] OBVIOUS
  <2> HIDE DEF pools
  <2>3. GoodBooks([pools EXCEPT ![pid].lpSupply = size], [userInfo EXCEPT ![pid][u] = new], block, bonus.endBlock)
    BY <1>4, <1>6, <1>7, <2>1, SettlingKeepsBooks
  <2> QED BY <1>8, <2>2, <2>3
<1> QED BY <1>9 DEF BonusInv, SettingsOK

\* The stakes and pools after a stake is settled and keeps its funder.
StakesSettled(pid, u, stake, amount) ==
  [userInfo EXCEPT ![pid][u] = Settled(stake, updatePool(poolInfo[pid]), amount)]
PoolsSized(pid, size) == [Fresh({pid}) EXCEPT ![pid].lpSupply = size]

\* The same for a stake that keeps its funder.
LEMMA SettlingKeepsInv ==
  ASSUME FairLaunchAssumption, BonusInv, NEW pid \in Pids, Update({pid}), NEW u \in Users,
         NEW stake \in Stake, NEW amount \in Nat, NEW size \in Nat,
         userInfo' = StakesSettled(pid, u, stake, amount), poolInfo' = PoolsSized(pid, size),
         block' = block, bonus' = bonus, alpacaPerBlock' = alpacaPerBlock, totalAllocPoint' = totalAllocPoint
  PROVE  BonusInv'
PROOF
<1> DEFINE pool == updatePool(poolInfo[pid])
           new == Settled(stake, pool, amount)
<1>1. GoodBooks(Fresh({pid}), userInfo, block, bonus.endBlock) /\ DOMAIN Fresh({pid}) = Pids
  BY UpdateKeepsBooks DEF Update
<1>2. Fresh({pid})[pid] = pool BY DEF Fresh
<1>3. GoodSums(pool, block, bonus.endBlock) BY <1>1, <1>2 DEF GoodBooks
<1>4. block \in Nat /\ bonus.endBlock \in Nat BY DEF BonusInv, SettingsOK
<1>5. userInfo' = [userInfo EXCEPT ![pid][u] = new] BY DEF StakesSettled
<1> HIDE DEF pool
<1>6. new \in Stake /\ Remembers(new, pool, bonus.endBlock) BY <1>3, <1>4, SettlingRemembers
<1> HIDE DEF new
<1>7. GoodBooks(poolInfo', userInfo', block, bonus.endBlock)
  <2> DEFINE pools == Fresh({pid})
  <2>1. GoodBooks(pools, userInfo, block, bonus.endBlock) /\ pid \in DOMAIN pools /\ pools[pid] = pool
    BY <1>1, <1>2
  <2>2. poolInfo' = [pools EXCEPT ![pid].lpSupply = size] BY DEF PoolsSized
  <2> HIDE DEF pools
  <2>3. GoodBooks([pools EXCEPT ![pid].lpSupply = size], [userInfo EXCEPT ![pid][u] = new], block, bonus.endBlock)
    BY <1>4, <1>6, <2>1, SettlingKeepsBooks
  <2> QED BY <1>5, <2>2, <2>3
<1> QED BY <1>7 DEF BonusInv, SettingsOK

\* The contract starts without pools and stakes.
LEMMA BonusInvHolds == ASSUME FairLaunchAssumption, Init PROVE BonusInv
PROOF
<1>1. SettingsOK BY DEF Init, SettingsOK, FairLaunchAssumption
<1>2. poolInfo \in Seq(Pool) /\ Len(poolInfo) <= MaxPools /\ DOMAIN poolInfo = {} BY DEF Init, FairLaunchAssumption
<1>3. NoStake \in Stake /\ NoStake.amount = 0 BY DEF NoStake, Stake
<1>4. /\ userInfo \in [1 .. MaxPools -> [Users -> Stake]]
      /\ \A p \in 1 .. MaxPools, u \in Users : userInfo[p][u].amount = 0
  BY <1>3 DEF Init
<1> QED BY <1>1, <1>2, <1>4 DEF BonusInv, GoodBooks

\* A block passes, or only what FairLaunch pays changes.
LEMMA LaterBooks ==
  ASSUME NEW pools, NEW users, NEW b \in Nat, NEW c \in Nat, NEW end, b <= c, GoodBooks(pools, users, b, end)
  PROVE  GoodBooks(pools, users, c, end)
PROOF
<1>1. ASSUME NEW p \in DOMAIN pools PROVE GoodSums(pools[p], c, end)
  <2>1. GoodSums(pools[p], b, end) /\ pools[p].lastRewardBlock \in Nat BY DEF GoodBooks, GoodSums, Pool
  <2> QED BY <2>1 DEF GoodSums
<1> QED BY <1>1 DEF GoodBooks

\* A bonus given when every pool is up to date and has paid nothing after the bonus before.
LEMMA NewBonusKeepsBooks ==
  ASSUME BonusInv, BonusOnly, NEW end \in Nat, end > block
  PROVE  GoodBooks(poolInfo, userInfo, block, end)
PROOF
<1>1. ASSUME NEW p \in Pids PROVE GoodSums(poolInfo[p], block, end)
  BY <1>1 DEF BonusInv, GoodBooks, GoodSums, BonusOnly, Pids
<1>2. ASSUME NEW p \in Pids, NEW u \in Users PROVE Remembers(userInfo[p][u], poolInfo[p], end)
  <2> DEFINE user == userInfo[p][u]
             pool == poolInfo[p]
  <2>1. /\ Remembers(user, pool, bonus.endBlock) /\ pool.accAlpacaPerShare \in Nat
        /\ pool.accAlpacaPerShareTilBonusEnd = pool.accAlpacaPerShare
    BY DEF BonusInv, GoodBooks, GoodSums, Pool, BonusOnly, Pids
  <2> HIDE DEF user, pool
  <2>2. ASSUME user.amount > 0
        PROVE  \E A, B \in Nat :
                 /\ SettledAt(user, A, B) /\ B <= A /\ A <= pool.accAlpacaPerShare
                 /\ A = B \/ (B = pool.accAlpacaPerShareTilBonusEnd /\ pool.lastRewardBlock > end)
    <3>1. PICK A \in Nat, B \in Nat :
            /\ SettledAt(user, A, B) /\ B <= A /\ A <= pool.accAlpacaPerShare
            /\ A = B \/ (B = pool.accAlpacaPerShareTilBonusEnd /\ pool.lastRewardBlock > bonus.endBlock)
      BY <2>1, <2>2 DEF Remembers
    <3>2. A = B BY <2>1, <3>1
    <3> QED BY <3>1, <3>2
  <2>3. Remembers(user, pool, end) BY <2>2 DEF Remembers
  <2> QED BY <2>3 DEF user, pool
<1> QED BY <1>1, <1>2 DEF BonusInv, GoodBooks, Pids

\* A pool is changed in what stakes do not remember.
LEMMA PoolKeepsBooks ==
  ASSUME FairLaunchAssumption, NEW b \in Nat, NEW end \in Nat, NEW pools, NEW users, GoodBooks(pools, users, b, end),
         NEW pid \in DOMAIN pools, NEW q, GoodSums(q, b, end),
         \A user : Remembers(user, pools[pid], end) => Remembers(user, q, end)
  PROVE  GoodBooks([pools EXCEPT ![pid] = q], users, b, end)
PROOF
<1> DEFINE new == [pools EXCEPT ![pid] = q]
<1>1. pools \in Seq(Pool) /\ q \in Pool BY DEF GoodBooks, GoodSums
<1>2. /\ new \in Seq(Pool) /\ Len(new) = Len(pools) /\ DOMAIN new = DOMAIN pools
      /\ new[pid] = q /\ \A p \in DOMAIN pools : p # pid => new[p] = pools[p]
  BY <1>1
<1> HIDE DEF new
<1>3. \A p \in DOMAIN new : GoodSums(new[p], b, end) BY <1>2 DEF GoodBooks
<1>4. ASSUME NEW p \in DOMAIN new, NEW u \in Users PROVE Remembers(users[p][u], new[p], end)
  <2>1. Remembers(users[p][u], pools[p], end) BY <1>2 DEF GoodBooks
  <2> QED BY <1>2, <2>1
<1>5. GoodBooks(new, users, b, end) BY <1>2, <1>3, <1>4 DEF GoodBooks
<1> QED BY <1>5 DEF new

\* A new pool has no stakes.
LEMMA AppendKeepsBooks ==
  ASSUME FairLaunchAssumption, NEW b \in Nat, NEW end \in Nat, NEW pools, NEW users, GoodBooks(pools, users, b, end),
         Len(pools) < MaxPools, NEW q, GoodSums(q, b, end)
  PROVE  GoodBooks(Append(pools, q), users, b, end)
PROOF
<1> DEFINE new == Append(pools, q)
           last == Len(pools) + 1
<1>1. pools \in Seq(Pool) /\ q \in Pool /\ MaxPools \in Nat BY DEF GoodBooks, GoodSums, FairLaunchAssumption
<1>2. /\ new \in Seq(Pool) /\ Len(new) <= MaxPools /\ DOMAIN new = DOMAIN pools \cup {last}
      /\ last \in 1 .. MaxPools /\ last \notin DOMAIN pools
      /\ new[last] = q /\ \A p \in DOMAIN pools : new[p] = pools[p]
  BY <1>1
<1> HIDE DEF new, last
<1>3. \A p \in DOMAIN new : GoodSums(new[p], b, end) BY <1>2 DEF GoodBooks
<1>4. ASSUME NEW p \in DOMAIN new, NEW u \in Users PROVE Remembers(users[p][u], new[p], end)
  <2>1. CASE p \in DOMAIN pools BY <1>2, <2>1 DEF GoodBooks
  <2>2. CASE p = last
    <3>1. users[p][u].amount = 0 BY <1>2, <2>2 DEF GoodBooks
    <3> QED BY <3>1 DEF Remembers
  <2> QED BY <1>2, <2>1, <2>2
<1>5. \A p \in 1 .. MaxPools, u \in Users : p \notin DOMAIN new => users[p][u].amount = 0 BY <1>2 DEF GoodBooks
<1>6. GoodBooks(new, users, b, end) BY <1>2, <1>3, <1>4, <1>5 DEF GoodBooks
<1> QED BY <1>6 DEF new

\* Updating leaves the size of a pool alone.
LEMMA UpdateKeepsSize ==
  ASSUME NEW pool \in Pool
  PROVE  updatePool(pool).lpSupply = pool.lpSupply
PROOF
<1> QED BY DEF updatePool, Pool

\* Every step of a careful owner's FairLaunch keeps the books.
LEMMA BonusInvIsKept ==
  ASSUME FairLaunchAssumption, Careful, BonusInv, [Next]_vars
  PROVE  BonusInv'
PROOF
<1> DEFINE end == bonus.endBlock
<1>0. /\ SettingsOK /\ block \in Nat /\ end \in Nat /\ GoodBooks(poolInfo, userInfo, block, end)
      /\ Pids = DOMAIN poolInfo /\ poolInfo \in Seq(Pool) /\ Pids \subseteq 1 .. MaxPools
      /\ userInfo \in [1 .. MaxPools -> [Users -> Stake]] /\ MaxStake \in Nat
  BY DEF BonusInv, SettingsOK, GoodBooks, Pids, FairLaunchAssumption
<1>1. ASSUME NextBlock PROVE BonusInv'
  <2>1. /\ block' = block + 1 /\ bonus' = bonus /\ alpacaPerBlock' = alpacaPerBlock /\ totalAllocPoint' = totalAllocPoint
        /\ poolInfo' = poolInfo /\ userInfo' = userInfo
    BY <1>1 DEF NextBlock, settings, stakes
  <2>2. GoodBooks(poolInfo, userInfo, block + 1, end) BY <1>0, LaterBooks
  <2> QED BY <1>0, <2>1, <2>2 DEF BonusInv, SettingsOK
<1>2. ASSUME setAlpacaPerBlock PROVE BonusInv'
  BY <1>2 DEF setAlpacaPerBlock, stakes, BonusInv, SettingsOK, FairLaunchAssumption
<1>3. ASSUME setBonus PROVE BonusInv'
  <2>1. PICK m \in Multipliers, e \in BonusEnds : e > block /\ bonus' = [multiplier |-> m, endBlock |-> e]
    BY <1>3 DEF setBonus
  <2>2. m \in Nat /\ e \in Nat BY DEF FairLaunchAssumption
  <2>3. GoodBooks(poolInfo, userInfo, block, e) BY <1>3, <2>1, <2>2, NewBonusKeepsBooks DEF setBonus
  <2> QED BY <1>3, <2>1, <2>2, <2>3 DEF setBonus, stakes, BonusInv, SettingsOK
<1>4. ASSUME addPool PROVE BonusInv'
  <2>1. PICK allocPoint \in AllocPoints, withUpdate \in BOOLEAN :
          LET S == IF withUpdate THEN Pids ELSE {}
              pool == [allocPoint |-> allocPoint, lastRewardBlock |-> block, lpSupply |-> 0,
                       accAlpacaPerShare |-> 0, accAlpacaPerShareTilBonusEnd |-> 0]
          IN /\ Update(S)
             /\ totalAllocPoint' = totalAllocPoint + allocPoint
             /\ poolInfo' = Append(Fresh(S), pool)
    BY <1>4 DEF addPool
  <2> DEFINE S == IF withUpdate THEN Pids ELSE {}
             pool == [allocPoint |-> allocPoint, lastRewardBlock |-> block, lpSupply |-> 0,
                      accAlpacaPerShare |-> 0, accAlpacaPerShareTilBonusEnd |-> 0]
  <2>2. allocPoint \in Nat BY DEF FairLaunchAssumption
  <2>3. GoodSums(pool, block, end) BY <1>0, <2>2 DEF GoodSums, Pool
  <2>4. Update(S) /\ poolInfo' = Append(Fresh(S), pool) /\ S \in SUBSET Pids BY <2>1
  <2> HIDE DEF S, pool
  <2>5. GoodBooks(Fresh(S), userInfo, block, end) /\ DOMAIN Fresh(S) = Pids BY <2>4, UpdateKeepsBooks DEF Update
  <2>6. Len(Fresh(S)) < MaxPools
    <3>1. Fresh(S) \in Seq(Pool) /\ Len(poolInfo) < MaxPools BY <1>4, <2>5 DEF GoodBooks, addPool
    <3> QED BY <1>0, <2>5, <3>1
  <2>7. GoodBooks(Append(Fresh(S), pool), userInfo, block, end) BY <1>0, <2>3, <2>5, <2>6, AppendKeepsBooks
  <2>8. block' = block /\ bonus' = bonus /\ alpacaPerBlock' = alpacaPerBlock /\ userInfo' = userInfo
    BY <1>4 DEF addPool, settings, stakes
  <2>9. totalAllocPoint' \in Nat BY <1>0, <2>1, <2>2 DEF SettingsOK
  <2>10. GoodBooks(poolInfo', userInfo', block', bonus'.endBlock) BY <2>4, <2>7, <2>8
  <2> QED BY <1>0, <2>8, <2>9, <2>10 DEF BonusInv, SettingsOK
<1>5. ASSUME NEW pid \in Pids, setPool(pid) PROVE BonusInv'
  <2>1. PICK allocPoint \in AllocPoints :
          /\ totalAllocPoint' = totalAllocPoint - poolInfo[pid].allocPoint + allocPoint
          /\ poolInfo' = [Fresh(Pids) EXCEPT ![pid].allocPoint = allocPoint]
    BY <1>5 DEF setPool
  <2>2. totalAllocPoint' \in Nat
    <3>1. allocPoint \in Nat BY DEF FairLaunchAssumption
    <3>2. poolInfo[pid] \in Pool BY <1>0
    <3>3. poolInfo[pid].allocPoint \in Nat BY <3>2 DEF Pool
    <3>4. totalAllocPoint \in Nat /\ totalAllocPoint >= poolInfo[pid].allocPoint BY <1>0, <1>5 DEF setPool, SettingsOK
    <3> QED BY <2>1, <3>1, <3>3, <3>4
  <2> DEFINE pools == Fresh(Pids)
             q == [pools[pid] EXCEPT !.allocPoint = allocPoint]
  <2>3. GoodBooks(pools, userInfo, block, end) /\ DOMAIN pools = Pids BY <1>5, UpdateKeepsBooks DEF setPool, Update
  <2>4. poolInfo' = [pools EXCEPT ![pid] = q] BY <2>1
  <2> HIDE DEF pools
  <2>5. GoodSums(q, block, end) /\ \A user : Remembers(user, pools[pid], end) => Remembers(user, q, end)
    <3>1. GoodSums(pools[pid], block, end) BY <2>3 DEF GoodBooks
    <3>2. allocPoint \in Nat BY DEF FairLaunchAssumption
    <3> QED BY <1>0, <3>1, <3>2, SizeDoesNotMatter
  <2> HIDE DEF q
  <2>6. GoodBooks(poolInfo', userInfo, block, end) BY <1>0, <2>3, <2>4, <2>5, PoolKeepsBooks
  <2>7. block' = block /\ bonus' = bonus /\ alpacaPerBlock' = alpacaPerBlock /\ userInfo' = userInfo
    BY <1>5 DEF setPool, settings, stakes
  <2> QED BY <1>0, <2>2, <2>6, <2>7 DEF BonusInv, SettingsOK
<1>6. ASSUME NEW pid \in Pids, touchPool(pid) PROVE BonusInv'
  <2>1. GoodBooks(Fresh({pid}), userInfo, block, end) BY <1>6, UpdateKeepsBooks DEF touchPool, Update
  <2> QED BY <1>0, <1>6, <2>1 DEF touchPool, settings, stakes, BonusInv, SettingsOK
<1>7. ASSUME NEW pid \in Pids, donate(pid) PROVE BonusInv'
  <2> DEFINE q == [poolInfo[pid] EXCEPT !.lpSupply = @ + 1]
  <2>1. poolInfo' = [poolInfo EXCEPT ![pid] = q] BY <1>7 DEF donate
  <2>2. GoodSums(poolInfo[pid], block, end) /\ poolInfo[pid].lpSupply + 1 \in Nat
    <3>1. GoodSums(poolInfo[pid], block, end) BY <1>0 DEF GoodBooks
    <3>2. poolInfo[pid].lpSupply \in Nat BY <3>1 DEF GoodSums, Pool
    <3> QED BY <3>1, <3>2
  <2>3. GoodSums(q, block, end) /\ \A user : Remembers(user, poolInfo[pid], end) => Remembers(user, q, end)
    BY <1>0, <2>2, SizeDoesNotMatter
  <2> HIDE DEF q
  <2>4. GoodBooks(poolInfo', userInfo, block, end) BY <1>0, <2>1, <2>3, PoolKeepsBooks
  <2> QED BY <1>0, <1>7, <2>4 DEF donate, settings, stakes, BonusInv, SettingsOK
<1>8. ASSUME NEW pid \in Pids, NEW u \in Users, harvest(u, pid) PROVE BonusInv'
  <2> DEFINE stake == userInfo[pid][u]
             pool == updatePool(poolInfo[pid])
             settled == Settled(stake, pool, stake.amount)
             pools == Fresh({pid})
  <2>1. /\ stake \in Stake /\ stake.amount \in Nat /\ stake.fundedBy \in Users \cup {NoOne} /\ Update({pid})
        /\ userInfo' = [userInfo EXCEPT ![pid][u] = settled] /\ poolInfo' = pools
        /\ block' = block /\ bonus' = bonus /\ alpacaPerBlock' = alpacaPerBlock /\ totalAllocPoint' = totalAllocPoint
    BY <1>0, <1>8 DEF harvest, settings, Stake
  <2>2. GoodBooks(pools, userInfo, block, end) /\ pid \in DOMAIN pools /\ pools[pid] = pool
    BY <2>1, UpdateKeepsBooks DEF Update, Fresh
  <2>3. pools \in Seq(Pool) /\ GoodSums(pool, block, end) /\ pool \in Pool BY <2>2 DEF GoodBooks, GoodSums
  <2> HIDE DEF pool, pools
  <2>4. pools = [pools EXCEPT ![pid].lpSupply = pool.lpSupply] /\ pool.lpSupply \in Nat
    <3>1. pool = [pool EXCEPT !.lpSupply = pool.lpSupply] /\ pool.lpSupply \in Nat BY <2>3 DEF Pool
    <3>2. pools = [pools EXCEPT ![pid] = pool] BY <2>2, <2>3
    <3> QED BY <2>2, <3>1, <3>2
  <2>5. userInfo' = StakesSettled(pid, u, stake, stake.amount) BY <2>1 DEF StakesSettled, pool
  <2>6. poolInfo' = PoolsSized(pid, pool.lpSupply) BY <2>1, <2>4 DEF PoolsSized, pools
  <2> HIDE DEF stake
  <2> QED BY <2>1, <2>4, <2>5, <2>6, SettlingKeepsInv
<1>9. ASSUME NEW pid \in Pids, NEW u \in Users, emergencyWithdraw(u, pid) PROVE BonusInv'
  <2> DEFINE old == userInfo[pid][u]
             stake == [NoStake EXCEPT !.bonusDebt = old.bonusDebt]
             size == poolInfo[pid].lpSupply - old.amount
  <2>1. /\ old \in Stake /\ poolInfo[pid] \in Pool /\ poolInfo[pid].lpSupply >= old.amount
        /\ userInfo' = [userInfo EXCEPT ![pid][u] = stake] /\ poolInfo' = [poolInfo EXCEPT ![pid].lpSupply = size]
        /\ block' = block /\ bonus' = bonus /\ alpacaPerBlock' = alpacaPerBlock /\ totalAllocPoint' = totalAllocPoint
    BY <1>0, <1>9 DEF emergencyWithdraw, settings
  <2>2. size \in Nat BY <2>1 DEF Stake, Pool
  <2>3. stake \in Stake /\ stake.amount = 0 BY <2>1 DEF NoStake, Stake
  <2> HIDE DEF stake, size
  <2>4. Remembers(stake, poolInfo[pid], end) BY <2>3 DEF Remembers
  <2>5. GoodBooks(poolInfo', userInfo', block, end) BY <1>0, <2>1, <2>2, <2>3, <2>4, SettlingKeepsBooks
  <2> QED BY <1>0, <2>1, <2>5 DEF BonusInv, SettingsOK
<1>10. ASSUME NEW pid \in Pids, NEW sender \in Users, NEW _for \in Users, NEW amount \in 0 .. MaxStake,
              deposit(sender, _for, pid, amount)
       PROVE  BonusInv'
  <2> DEFINE user == userInfo[pid][_for]
             funder == IF user.fundedBy = NoOne THEN sender ELSE user.fundedBy
             funded == [user EXCEPT !.fundedBy = funder]
             pool == updatePool(poolInfo[pid])
             settled == Settled(funded, pool, user.amount + amount)
             pools == Fresh({pid})
             size == pools[pid].lpSupply + amount
  <2>1. /\ user \in Stake /\ Update({pid})
        /\ userInfo' = [userInfo EXCEPT ![pid][_for] = settled] /\ poolInfo' = [pools EXCEPT ![pid].lpSupply = size]
        /\ block' = block /\ bonus' = bonus /\ alpacaPerBlock' = alpacaPerBlock /\ totalAllocPoint' = totalAllocPoint
    BY <1>0, <1>10 DEF deposit, settings
  <2>2. funder \in Users \cup {NoOne} /\ user.amount + amount \in Nat
    <3>1. user.amount \in Nat /\ user.fundedBy \in Users \cup {NoOne} BY <2>1 DEF Stake
    <3>2. amount \in Nat BY <1>0
    <3> HIDE DEF user, funded, settled, pool, pools, size
    <3> QED BY <3>1, <3>2
  <2> HIDE DEF funder
  <2>3. funded \in Stake /\ funded.fundedBy = funder BY <2>1, <2>2 DEF Stake
  <2>4. GoodBooks(pools, userInfo, block, end) /\ pid \in DOMAIN pools /\ pools[pid] = pool
    BY <2>1, UpdateKeepsBooks DEF Update, Fresh
  <2>5. GoodSums(pool, block, end) /\ pool \in Pool BY <2>4 DEF GoodBooks, GoodSums
  <2>6. size \in Nat
    <3>1. pool.lpSupply \in Nat BY <2>5 DEF Pool
    <3>2. amount \in Nat BY <1>0
    <3> HIDE DEF pool, pools
    <3> QED BY <2>4, <3>1, <3>2
  <2> HIDE DEF pool, pools, size, funded, user
  <2>7. userInfo' = StakesSettled(pid, _for, funded, user.amount + amount) BY <2>1 DEF StakesSettled, pool
  <2>8. poolInfo' = PoolsSized(pid, size) BY <2>1 DEF PoolsSized, pools
  <2> HIDE DEF settled
  <2> QED BY <2>1, <2>2, <2>3, <2>6, <2>7, <2>8, SettlingKeepsInv
<1>11. ASSUME NEW pid \in Pids, NEW sender \in Users, NEW _for \in Users, NEW amount \in 0 .. MaxStake,
              withdraw(sender, _for, pid, amount)
       PROVE  BonusInv'
  <2> DEFINE user == userInfo[pid][_for]
             pool == updatePool(poolInfo[pid])
             left == Settled(user, pool, user.amount - amount)
             funder == IF left.amount = 0 THEN NoOne ELSE left.fundedBy
             pools == Fresh({pid})
             size == pools[pid].lpSupply - amount
  <2>1. /\ user \in Stake /\ Update({pid}) /\ user.amount >= amount
        /\ poolInfo[pid] \in Pool /\ poolInfo[pid].lpSupply >= amount
        /\ userInfo' = [userInfo EXCEPT ![pid][_for] = [left EXCEPT !.fundedBy = funder]]
        /\ poolInfo' = [pools EXCEPT ![pid].lpSupply = size]
        /\ block' = block /\ bonus' = bonus /\ alpacaPerBlock' = alpacaPerBlock /\ totalAllocPoint' = totalAllocPoint
    <3>1. user \in Stake /\ poolInfo[pid] \in Pool BY <1>0
    <3>2. /\ Update({pid}) /\ user.amount >= amount /\ poolInfo[pid].lpSupply >= amount
          /\ block' = block /\ bonus' = bonus /\ alpacaPerBlock' = alpacaPerBlock /\ totalAllocPoint' = totalAllocPoint
      BY <1>11 DEF withdraw, settings
    <3>3. /\ userInfo' = [userInfo EXCEPT ![pid][_for] = [left EXCEPT !.fundedBy = funder]]
          /\ poolInfo' = [pools EXCEPT ![pid].lpSupply = size]
      BY <1>11 DEF withdraw
    <3> HIDE DEF user, pool, left, funder, pools, size
    <3> QED BY <3>1, <3>2, <3>3
  <2>2. user.amount - amount \in Nat
    <3>1. user.amount \in Nat /\ amount \in Nat /\ user.amount >= amount BY <1>0, <2>1 DEF Stake
    <3> HIDE DEF user, pool, left, funder, pools, size
    <3> QED BY <3>1
  <2>3. GoodBooks(pools, userInfo, block, end) /\ pid \in DOMAIN pools /\ pools[pid] = pool
    BY <2>1, UpdateKeepsBooks, SMTT(30) DEF Update, Fresh
  <2>4. GoodSums(pool, block, end) BY <2>3 DEF GoodBooks
  <2>5. size \in Nat
    <3>1. pool.lpSupply = poolInfo[pid].lpSupply BY <2>1, UpdateKeepsSize
    <3>2. poolInfo[pid].lpSupply \in Nat BY <2>1 DEF Pool
    <3> HIDE DEF pool, pools
    <3> QED BY <2>1, <2>3, <3>1, <3>2
  <2> HIDE DEF pool, pools, size, user
  <2>6. left \in Stake BY <1>0, <2>1, <2>2, <2>4, SettlingRemembers
  <2>7. funder \in Users \cup {NoOne} BY <2>6 DEF Stake
  <2> HIDE DEF funder
  <2> QED BY <2>1, <2>2, <2>5, <2>7, StakingKeepsInv DEF pool, pools
<1>12. CASE UNCHANGED vars BY <1>12 DEF vars, BonusInv, SettingsOK
<1> QED BY <1>1, <1>2, <1>3, <1>4, <1>5, <1>6, <1>7, <1>8, <1>9, <1>10, <1>11, <1>12 DEF Next

\* A pool and a stake that remembers: what is locked is part of what is paid.
LEMMA RememberedBonusIsPart ==
  ASSUME FairLaunchAssumption, NEW b \in Nat, NEW end \in Nat, NEW pool, GoodSums(pool, b, end),
         NEW user \in Stake, user.amount > 0, Remembers(user, pool, end)
  PROVE  bonusOf(user, pool) <= pending(user, pool)
PROOF
<1> DEFINE acc == pool.accAlpacaPerShare
           til == pool.accAlpacaPerShareTilBonusEnd
           n == user.amount
<1>1. acc \in Nat /\ til \in Nat /\ til <= acc /\ n \in Nat /\ PRECISION \in Nat \ {0}
  BY DEF GoodSums, Pool, Stake, FairLaunchAssumption
<1>2. PICK A \in Nat, B \in Nat :
        /\ user.rewardDebt = (n * A) \div PRECISION /\ user.bonusDebt = (n * B) \div PRECISION
        /\ A <= acc
        /\ A = B \/ B = til
  BY DEF Remembers, SettledAt
<1>3. /\ bonusOf(user, pool) = (n * til) \div PRECISION - user.bonusDebt
      /\ pending(user, pool) = (n * acc) \div PRECISION - user.rewardDebt
  BY DEF bonusOf, pending, Earned, EarnedTilBonusEnd
<1> HIDE DEF acc, til, n
<1>4. /\ n * A \in Nat /\ n * B \in Nat /\ n * acc \in Nat /\ n * til \in Nat /\ n * til <= n * acc
      /\ A <= acc => n * A <= n * acc
  BY <1>1, <1>2, Products
<1>5. bonusOf(user, pool) = (n * til) \div PRECISION - (n * B) \div PRECISION BY <1>2, <1>3
<1>6. pending(user, pool) = (n * acc) \div PRECISION - (n * A) \div PRECISION BY <1>2, <1>3
<1> DEFINE a == n * A
           c == n * acc
           t == n * til
<1>7. a \in Nat /\ c \in Nat /\ t \in Nat /\ t <= c /\ a <= c BY <1>1, <1>2, <1>4
<1> HIDE DEF a, c, t
<1>8. /\ a \div PRECISION \in Nat /\ c \div PRECISION \in Nat /\ t \div PRECISION \in Nat
      /\ t \div PRECISION <= c \div PRECISION /\ a \div PRECISION <= c \div PRECISION
  BY <1>1, <1>7, Division, QuotientsMonotone
<1>9. CASE A = B
  <2>1. bonusOf(user, pool) = t \div PRECISION - a \div PRECISION BY <1>5, <1>9 DEF a, t
  <2>2. pending(user, pool) = c \div PRECISION - a \div PRECISION BY <1>6 DEF a, c
  <2> QED BY <1>8, <2>1, <2>2
<1>10. CASE B = til
  <2>1. bonusOf(user, pool) = t \div PRECISION - t \div PRECISION BY <1>5, <1>10 DEF t
  <2>2. pending(user, pool) = c \div PRECISION - a \div PRECISION BY <1>6 DEF a, c
  <2> QED BY <1>8, <2>1, <2>2
<1> QED BY <1>2, <1>9, <1>10

\* In a state with good books what every stake locks is part of what it is paid.
LEMMA BonusIsPart == ASSUME FairLaunchAssumption, BonusInv PROVE BonusWithinReward
PROOF
<1> SUFFICES ASSUME NEW p \in Pids, NEW u \in Users, userInfo[p][u].amount > 0
             PROVE  bonusOf(userInfo[p][u], poolInfo[p]) <= pending(userInfo[p][u], poolInfo[p])
  BY DEF BonusWithinReward
<1>1. /\ block \in Nat /\ bonus.endBlock \in Nat /\ GoodSums(poolInfo[p], block, bonus.endBlock)
      /\ userInfo[p][u] \in Stake /\ Remembers(userInfo[p][u], poolInfo[p], bonus.endBlock)
  BY DEF BonusInv, SettingsOK, GoodBooks, Pids
<1> QED BY <1>1, RememberedBonusIsPart

\* When the owner brings every pool up to date before a rate or the bonus changes, and gives a bonus only
\* while nothing has been paid outside of one, no harvest ever locks more than it pays.
THEOREM BonusStaysWithinReward == ASSUME Careful PROVE Spec => []BonusWithinReward
PROOF
<1>1. Init => BonusInv BY BonusInvHolds, FairLaunchAssumption
<1>2. BonusInv /\ [Next]_vars => BonusInv' BY BonusInvIsKept, FairLaunchAssumption
<1>3. BonusInv => BonusWithinReward BY BonusIsPart, FairLaunchAssumption
<1> QED BY <1>1, <1>2, <1>3, PTL DEF Spec

------------------------------------------------------------------------------
(* The stakes of a pool are backed, and what the contract promises is covered. *)

\* What holds under any owner: well-formed books, and nothing staked without a funder or in a pool that
\* is not there.
TypesOK ==
  /\ SettingsOK
  /\ poolInfo \in Seq(Pool) /\ Len(poolInfo) <= MaxPools
  /\ userInfo \in [1 .. MaxPools -> [Users -> Stake]]
  /\ alpaca \in Int /\ supply \in Nat /\ announced \in Nat /\ touched \in Nat /\ paidIn \in [Users -> Int]
  /\ \A p \in Pids : poolInfo[p].lastRewardBlock <= block

\* Bringing a pool up to date: what it is worth per share rises by no more than its reward.
LEMMA UpdateAddsReward ==
  ASSUME FairLaunchAssumption, SettingsOK, NEW pool \in Pool, pool.lastRewardBlock <= block,
         Outdated(pool) => totalAllocPoint # 0
  PROVE  LET new == updatePool(pool)
         IN /\ new \in Pool /\ new.lastRewardBlock = block
            /\ new.lpSupply = pool.lpSupply /\ new.allocPoint = pool.allocPoint
            /\ alpacaReward(pool) \in Nat
            /\ \E delta \in Nat : /\ new.accAlpacaPerShare = pool.accAlpacaPerShare + delta
                                  /\ pool.lpSupply * delta <= PRECISION * alpacaReward(pool)
PROOF
<1> DEFINE new == updatePool(pool)
           r == alpacaReward(pool)
<1>1. /\ pool.lastRewardBlock \in Nat /\ block \in Nat /\ pool.lpSupply \in Nat /\ PRECISION \in Nat \ {0}
      /\ pool.accAlpacaPerShare \in Nat /\ pool.accAlpacaPerShareTilBonusEnd \in Nat /\ bonus.endBlock \in Nat
  BY DEF SettingsOK, Pool, FairLaunchAssumption
<1>2. CASE ~Outdated(pool)
  <2>1. new = [pool EXCEPT !.lastRewardBlock = block] BY <1>1, <1>2 DEF updatePool
  <2>2. /\ new \in Pool /\ new.lastRewardBlock = block /\ new.lpSupply = pool.lpSupply
        /\ new.allocPoint = pool.allocPoint /\ new.accAlpacaPerShare = pool.accAlpacaPerShare
    BY <1>1, <2>1 DEF Pool
  <2>3. r = 0 BY <1>2 DEF alpacaReward
  <2> HIDE DEF new, r
  <2>4. new.accAlpacaPerShare = pool.accAlpacaPerShare + 0 /\ pool.lpSupply * 0 <= PRECISION * r
    BY <1>1, <2>2, <2>3
  <2>5. r \in Nat BY <2>3
  <2> QED BY <2>2, <2>4, <2>5 DEF new, r
<1>3. CASE Outdated(pool)
  <2> DEFINE delta == PerShare(pool, r)
             acc == pool.accAlpacaPerShare + delta
             til == TilBonusEnd(pool, acc)
  <2>1. pool.lpSupply \in Nat \ {0} /\ totalAllocPoint # 0 BY <1>1, <1>3 DEF Outdated
  <2>2. r \in Nat BY <1>3, <2>1, BonusPortion
  <2>3. delta \in Nat /\ pool.lpSupply * delta <= PRECISION * r
    <3> DEFINE n == r * PRECISION
    <3>1. n \in Nat /\ n = PRECISION * r BY <1>1, <2>2, Products
    <3>2. delta = n \div pool.lpSupply BY DEF PerShare
    <3> HIDE DEF n, delta, r
    <3>3. n \div pool.lpSupply \in Nat /\ pool.lpSupply * (n \div pool.lpSupply) <= n BY <2>1, <3>1, Division
    <3> QED BY <3>1, <3>2, <3>3
  <2>4. new = [pool EXCEPT !.lastRewardBlock = block, !.accAlpacaPerShare = acc, !.accAlpacaPerShareTilBonusEnd = til]
    BY <1>3 DEF updatePool
  <2>5. til \in Nat
    <3>1. CASE block <= bonus.endBlock BY <1>1, <2>3, <3>1 DEF TilBonusEnd
    <3>2. CASE block > bonus.endBlock /\ pool.lastRewardBlock < bonus.endBlock
      <4>1. alpacaBonusPortion(pool) \in Nat BY <1>3, <2>1, <3>2, BonusPortion
      <4>2. PerShare(pool, alpacaBonusPortion(pool)) \in Nat BY <2>1, <4>1, MorePerShare
      <4>3. til = pool.accAlpacaPerShareTilBonusEnd + PerShare(pool, alpacaBonusPortion(pool))
        BY <1>1, <3>2 DEF TilBonusEnd
      <4> QED BY <1>1, <4>2, <4>3
    <3>3. CASE block > bonus.endBlock /\ ~(pool.lastRewardBlock < bonus.endBlock) BY <1>1, <3>3 DEF TilBonusEnd
    <3> QED BY <1>1, <3>1, <3>2, <3>3
  <2>6. acc \in Nat BY <1>1, <2>3
  <2> HIDE DEF acc, til
  <2>7. /\ new \in Pool /\ new.lastRewardBlock = block /\ new.lpSupply = pool.lpSupply
        /\ new.allocPoint = pool.allocPoint /\ new.accAlpacaPerShare = acc
    BY <1>1, <2>4, <2>5, <2>6 DEF Pool
  <2> HIDE DEF new, delta, r
  <2> QED BY <2>2, <2>3, <2>7 DEF new, r, acc
<1> QED BY <1>2, <1>3

\* No pool of S is divided by nothing.
CanUpdate(S) == \A p \in S : Outdated(poolInfo[p]) => totalAllocPoint # 0

\* One pool of the list is replaced.
LEMMA OnePoolReplaced ==
  ASSUME NEW pools \in Seq(Pool), NEW pid \in DOMAIN pools, NEW q \in Pool, NEW qools,
         qools = [pools EXCEPT ![pid] = q]
  PROVE  /\ qools \in Seq(Pool) /\ DOMAIN qools = DOMAIN pools /\ Len(qools) = Len(pools)
         /\ \A p \in DOMAIN pools : qools[p] = IF p = pid THEN q ELSE pools[p]
OBVIOUS

\* The pools of S brought up to date.
LEMMA FreshPools ==
  ASSUME FairLaunchAssumption, TypesOK, NEW S \in SUBSET Pids, CanUpdate(S)
  PROVE  /\ Fresh(S) \in Seq(Pool) /\ DOMAIN Fresh(S) = Pids /\ Len(Fresh(S)) = Len(poolInfo)
         /\ \A p \in Pids : /\ Fresh(S)[p].lpSupply = poolInfo[p].lpSupply
                            /\ Fresh(S)[p].allocPoint = poolInfo[p].allocPoint
                            /\ Fresh(S)[p].lastRewardBlock <= block
                            /\ p \in S => Fresh(S)[p].lastRewardBlock = block
         /\ \A p \in S : alpacaReward(poolInfo[p]) \in Nat
PROOF
<1>1. \A p \in Pids : poolInfo[p] \in Pool /\ poolInfo[p].lastRewardBlock <= block
  BY DEF TypesOK, Pids
<1>2. SettingsOK /\ block \in Nat
  BY DEF TypesOK, SettingsOK
<1>3. ASSUME NEW p \in S
      PROVE  /\ updatePool(poolInfo[p]) \in Pool /\ updatePool(poolInfo[p]).lastRewardBlock = block
             /\ updatePool(poolInfo[p]).lpSupply = poolInfo[p].lpSupply
             /\ updatePool(poolInfo[p]).allocPoint = poolInfo[p].allocPoint
             /\ alpacaReward(poolInfo[p]) \in Nat
  <2>1. Outdated(poolInfo[p]) => totalAllocPoint # 0 BY DEF CanUpdate
  <2> QED BY <1>1, <1>2, <2>1, UpdateAddsReward
<1>4. ASSUME NEW p \in Pids PROVE Fresh(S)[p] = IF p \in S THEN updatePool(poolInfo[p]) ELSE poolInfo[p]
  BY DEF Fresh
<1>5. DOMAIN Fresh(S) = Pids /\ Pids = 1 .. Len(poolInfo) /\ Len(poolInfo) \in Nat
  BY DEF Fresh, TypesOK, Pids
<1>6. \A p \in Pids : Fresh(S)[p] \in Pool
  BY <1>1, <1>3, <1>4
<1>7. Fresh(S) \in Seq(Pool) /\ Len(Fresh(S)) = Len(poolInfo)
  <2>1. Fresh(S) = [p \in 1 .. Len(poolInfo) |-> Fresh(S)[p]] BY <1>5 DEF Fresh
  <2> QED BY <1>5, <1>6, <2>1
<1>8. ASSUME NEW p \in Pids
      PROVE  /\ Fresh(S)[p].lpSupply = poolInfo[p].lpSupply
             /\ Fresh(S)[p].allocPoint = poolInfo[p].allocPoint
             /\ Fresh(S)[p].lastRewardBlock <= block
             /\ p \in S => Fresh(S)[p].lastRewardBlock = block
  <2>1. CASE p \in S BY <1>2, <1>3, <1>4, <2>1
  <2>2. CASE p \notin S BY <1>1, <1>4, <2>2
  <2> QED BY <2>1, <2>2
<1> QED BY <1>3, <1>5, <1>7, <1>8

(* What is staked, and in whose name. *)

FundedBy(user, funder) == IF user.fundedBy = funder THEN user.amount ELSE 0
FundedIn(users, p, funder) == SumFunctionOnSet([u \in Users |-> FundedBy(users[p][u], funder)], Users)
StakedIn(users, p) == SumFunctionOnSet([u \in Users |-> users[p][u].amount], Users)
FundedOf(users, P, funder) == SumFunctionOnSet([p \in P |-> FundedIn(users, p, funder)], P)
StakeReplaced(users, pid, u, new) == [users EXCEPT ![pid][u] = new]
AllStakes == [1 .. MaxPools -> [Users -> Stake]]

Backed(users, pools, paid) ==
  /\ \A x \in Users : paid[x] = FundedOf(users, DOMAIN pools, x)
  /\ \A p \in DOMAIN pools : StakedIn(users, p) <= pools[p].lpSupply

\* The property in terms of those sums.
LEMMA BackedBySums ==
  /\ StakesBacked <=> Backed(userInfo, poolInfo, paidIn)
  /\ StakesBacked' <=> Backed(userInfo', poolInfo', paidIn')
BY DEF StakesBacked, Pids, Funded, Staked, SumFunction, Backed, FundedOf, FundedIn, FundedBy, StakedIn

\* Stakes and their sums are integers.
LEMMA StakeSums ==
  ASSUME FairLaunchAssumption, NEW users \in AllStakes, NEW p \in 1 .. MaxPools
  PROVE  /\ \A u \in Users : users[p][u] \in Stake /\ users[p][u].amount \in Nat
         /\ StakedIn(users, p) \in Nat
         /\ \A x : FundedIn(users, p, x) \in Nat
PROOF
<1>1. \A u \in Users : users[p][u] \in Stake /\ users[p][u].amount \in Nat
  BY DEF AllStakes, Stake
<1>2. IsFiniteSet(Users)
  BY DEF FairLaunchAssumption
<1>3. StakedIn(users, p) \in Nat
  <2> DEFINE f == [u \in Users |-> users[p][u].amount]
  <2>1. Natural(f, Users) BY <1>1 DEF Natural
  <2> HIDE DEF f
  <2>2. SumFunctionOnSet(f, Users) \in Nat BY <1>2, <2>1, SumType
  <2> QED BY <2>2 DEF StakedIn, f
<1>4. ASSUME NEW x PROVE FundedIn(users, p, x) \in Nat
  <2> DEFINE f == [u \in Users |-> FundedBy(users[p][u], x)]
  <2>1. Natural(f, Users) BY <1>1 DEF FundedBy, Natural
  <2> HIDE DEF f
  <2>2. SumFunctionOnSet(f, Users) \in Nat BY <1>2, <2>1, SumType
  <2> QED BY <2>2 DEF FundedIn, f
<1> QED BY <1>1, <1>3, <1>4

\* Sums over pools are over finite sets.
LEMMA FinitelyManyPools == ASSUME FairLaunchAssumption, NEW P \in SUBSET (1 .. MaxPools) PROVE IsFiniteSet(P)
PROOF
<1>1. MaxPools \in Int /\ 1 \in Int BY DEF FairLaunchAssumption
<1>2. IsFiniteSet(1 .. MaxPools) BY <1>1, FS_Interval
<1> QED BY <1>2, FS_Subset

\* One stake changes: so do the sums of its pool and of its funders, and no others.
LEMMA OneStakeChanges ==
  ASSUME FairLaunchAssumption, NEW users \in AllStakes, NEW P \in SUBSET (1 .. MaxPools),
         NEW pid \in P, NEW u \in Users, NEW new \in Stake,
         NEW us, us = StakeReplaced(users, pid, u, new)
  PROVE  /\ us \in AllStakes
         /\ StakedIn(us, pid) = StakedIn(users, pid) + new.amount - users[pid][u].amount
         /\ \A p \in P \ {pid} : StakedIn(us, p) = StakedIn(users, p)
         /\ \A x : FundedOf(us, P, x) = FundedOf(users, P, x) + FundedBy(new, x) - FundedBy(users[pid][u], x)
PROOF
<1>1. /\ us \in AllStakes /\ us[pid][u] = new
      /\ \A p \in 1 .. MaxPools, v \in Users : p # pid \/ v # u => us[p][v] = users[p][v]
  BY DEF AllStakes, StakeReplaced
<1>2. IsFiniteSet(Users) /\ IsFiniteSet(P)
  BY FinitelyManyPools DEF FairLaunchAssumption
<1>3. /\ new.amount \in Nat
      /\ \A p \in 1 .. MaxPools, v \in Users : users[p][v].amount \in Nat /\ us[p][v].amount \in Nat
  BY <1>1, StakeSums DEF Stake
<1>4. StakedIn(us, pid) = StakedIn(users, pid) + new.amount - users[pid][u].amount
  <2> DEFINE f == [v \in Users |-> users[pid][v].amount]
             g == [v \in Users |-> us[pid][v].amount]
  <2>1. SameBut(f, g, u, Users) /\ g[u] = new.amount /\ f[u] = users[pid][u].amount
    BY <1>1, <1>3 DEF SameBut
  <2> HIDE DEF f, g
  <2>2. SumFunctionOnSet(g, Users) = SumFunctionOnSet(f, Users) + g[u] - f[u] BY <1>2, <2>1, SumShifts
  <2> QED BY <2>1, <2>2 DEF StakedIn, f, g
<1>5. ASSUME NEW p \in P \ {pid} PROVE StakedIn(us, p) = StakedIn(users, p)
  <2>1. [v \in Users |-> us[p][v].amount] = [v \in Users |-> users[p][v].amount] BY <1>1
  <2> QED BY <2>1 DEF StakedIn
<1>6. ASSUME NEW x PROVE FundedOf(us, P, x) = FundedOf(users, P, x) + FundedBy(new, x) - FundedBy(users[pid][u], x)
  <2>1. FundedIn(us, pid, x) = FundedIn(users, pid, x) + FundedBy(new, x) - FundedBy(users[pid][u], x)
    <3> DEFINE f == [v \in Users |-> FundedBy(users[pid][v], x)]
               g == [v \in Users |-> FundedBy(us[pid][v], x)]
    <3>1. SameBut(f, g, u, Users) /\ g[u] = FundedBy(new, x) /\ f[u] = FundedBy(users[pid][u], x)
      BY <1>1, <1>3 DEF FundedBy, SameBut
    <3> HIDE DEF f, g
    <3>2. SumFunctionOnSet(g, Users) = SumFunctionOnSet(f, Users) + g[u] - f[u] BY <1>2, <3>1, SumShifts
    <3> QED BY <3>1, <3>2 DEF FundedIn, f, g
  <2> DEFINE f == [p \in P |-> FundedIn(users, p, x)]
             g == [p \in P |-> FundedIn(us, p, x)]
  <2>2. ASSUME NEW p \in P \ {pid} PROVE g[p] = f[p]
    <3>1. [v \in Users |-> FundedBy(us[p][v], x)] = [v \in Users |-> FundedBy(users[p][v], x)] BY <1>1
    <3> QED BY <3>1 DEF FundedIn
  <2>3. \A p \in P : f[p] \in Int /\ g[p] \in Int BY <1>1, StakeSums
  <2>4. g[pid] = FundedIn(us, pid, x) /\ f[pid] = FundedIn(users, pid, x) OBVIOUS
  <2> HIDE DEF f, g
  <2>10. SameBut(f, g, pid, P) /\ Integral(f, P) BY <2>2, <2>3 DEF SameBut, Integral
  <2>5. SumFunctionOnSet(g, P) = SumFunctionOnSet(f, P) + g[pid] - f[pid] BY <1>2, <2>10, SumShifts
  <2>6. SumFunctionOnSet(f, P) \in Int BY <1>2, <2>10, SumType
  <2>7. FundedIn(users, pid, x) \in Int BY StakeSums
  <2>8. FundedBy(new, x) \in Int /\ FundedBy(users[pid][u], x) \in Int BY <1>3 DEF FundedBy
  <2>9. FundedOf(us, P, x) = SumFunctionOnSet(g, P) /\ FundedOf(users, P, x) = SumFunctionOnSet(f, P)
    BY DEF FundedOf, f, g
  <2> QED BY <2>1, <2>4, <2>5, <2>6, <2>7, <2>8, <2>9
<1> QED BY <1>1, <1>4, <1>5, <1>6

\* A stake and the size of its pool change by the same amount, in the name of one funder who pays it.
LEMMA StakingKeepsBacking ==
  ASSUME FairLaunchAssumption, NEW users \in AllStakes, NEW pools, NEW paid \in [Users -> Int],
         DOMAIN pools \subseteq 1 .. MaxPools, \A p \in DOMAIN pools : pools[p].lpSupply \in Int,
         Backed(users, pools, paid),
         NEW pid \in DOMAIN pools, NEW u \in Users, NEW new \in Stake, NEW funder \in Users, NEW d \in Int,
         new.amount = users[pid][u].amount + d,
         FundedBy(new, funder) = FundedBy(users[pid][u], funder) + d,
         \A x \in Users \ {funder} : FundedBy(new, x) = FundedBy(users[pid][u], x),
         NEW qools, DOMAIN qools = DOMAIN pools, qools[pid].lpSupply = pools[pid].lpSupply + d,
         \A p \in DOMAIN pools \ {pid} : qools[p].lpSupply = pools[p].lpSupply
  PROVE  Backed(StakeReplaced(users, pid, u, new), qools, [paid EXCEPT ![funder] = @ + d])
PROOF
<1> DEFINE old == users[pid][u]
           us == StakeReplaced(users, pid, u, new)
           P == DOMAIN pools
           pd == [paid EXCEPT ![funder] = @ + d]
<1>1. /\ StakedIn(us, pid) = StakedIn(users, pid) + new.amount - old.amount
      /\ \A p \in P \ {pid} : StakedIn(us, p) = StakedIn(users, p)
      /\ \A x : FundedOf(us, P, x) = FundedOf(users, P, x) + FundedBy(new, x) - FundedBy(old, x)
  <2>1. P \in SUBSET (1 .. MaxPools) /\ pid \in P OBVIOUS
  <2>2. us = StakeReplaced(users, pid, u, new) /\ old = users[pid][u] OBVIOUS
  <2> HIDE DEF P, us, old
  <2> QED BY <2>1, <2>2, OneStakeChanges
<1>2. pd[funder] = paid[funder] + d /\ \A x \in Users \ {funder} : pd[x] = paid[x]
  OBVIOUS
<1>3. old.amount \in Nat /\ \A x : FundedBy(old, x) \in Int
  <2>1. old.amount \in Nat BY StakeSums
  <2> QED BY <2>1 DEF FundedBy
<1>4. \A x \in Users : paid[x] = FundedOf(users, P, x) /\ paid[x] \in Int
  BY DEF Backed
<1>5. /\ \A p \in P : StakedIn(users, p) <= pools[p].lpSupply
      /\ \A p \in P : StakedIn(users, p) \in Int
  BY StakeSums DEF Backed
<1> HIDE DEF us, pd, old
<1>6. ASSUME NEW x \in Users PROVE pd[x] = FundedOf(us, P, x)
  <2>1. CASE x = funder BY <1>1, <1>2, <1>3, <1>4, <2>1 DEF old
  <2>2. CASE x # funder BY <1>1, <1>2, <1>3, <1>4, <2>2 DEF old
  <2> QED BY <2>1, <2>2
<1>7. ASSUME NEW p \in P PROVE StakedIn(us, p) <= qools[p].lpSupply
  <2>1. CASE p = pid BY <1>1, <1>3, <1>5, <2>1 DEF old
  <2>2. CASE p # pid BY <1>1, <1>5, <2>2
  <2> QED BY <2>1, <2>2
<1> QED BY <1>6, <1>7 DEF Backed, us, pd

\* Pools that only grow, and new ones in which nobody has a stake.
LEMMA PoolsKeepBacking ==
  ASSUME FairLaunchAssumption, NEW users \in AllStakes, NEW pools, NEW paid, NEW qools,
         DOMAIN qools \subseteq 1 .. MaxPools, DOMAIN pools \subseteq DOMAIN qools, Backed(users, pools, paid),
         \A p \in DOMAIN qools : qools[p].lpSupply \in Nat,
         \A p \in DOMAIN pools : pools[p].lpSupply \in Nat /\ pools[p].lpSupply <= qools[p].lpSupply,
         \A p \in DOMAIN qools \ DOMAIN pools, u \in Users : users[p][u].amount = 0
  PROVE  Backed(users, qools, paid)
PROOF
<1> DEFINE P == DOMAIN pools
           Q == DOMAIN qools
<1>1. IsFiniteSet(Users) /\ IsFiniteSet(Q)
  BY FinitelyManyPools DEF FairLaunchAssumption
<1>2. ASSUME NEW p \in Q \ P PROVE StakedIn(users, p) = 0 /\ \A x : FundedIn(users, p, x) = 0
  <2>2. \A u \in Users : users[p][u].amount = 0 /\ \A x : FundedBy(users[p][u], x) = 0 BY DEF FundedBy
  <2>3. StakedIn(users, p) = 0
    <3> DEFINE f == [u \in Users |-> users[p][u].amount]
    <3>1. Zero(f, Users) BY <2>2 DEF Zero
    <3> HIDE DEF f
    <3>2. SumFunctionOnSet(f, Users) = 0 BY <1>1, <3>1, SumOfZeros
    <3> QED BY <3>2 DEF StakedIn, f
  <2>4. ASSUME NEW x PROVE FundedIn(users, p, x) = 0
    <3> DEFINE f == [u \in Users |-> FundedBy(users[p][u], x)]
    <3>1. Zero(f, Users) BY <2>2 DEF Zero
    <3> HIDE DEF f
    <3>2. SumFunctionOnSet(f, Users) = 0 BY <1>1, <3>1, SumOfZeros
    <3> QED BY <3>2 DEF FundedIn, f
  <2> QED BY <2>3, <2>4
<1>3. ASSUME NEW x PROVE FundedOf(users, Q, x) = FundedOf(users, P, x)
  <2> DEFINE f == [p \in P |-> FundedIn(users, p, x)]
             g == [p \in Q |-> FundedIn(users, p, x)]
  <2>1. CountsOnly(P, f, g, Q) BY <1>2, StakeSums DEF CountsOnly
  <2>2. P \in SUBSET Q OBVIOUS
  <2> HIDE DEF f, g
  <2>3. SumFunctionOnSet(g, Q) = SumFunctionOnSet(f, P) BY <1>1, <2>1, <2>2, SumOfPart
  <2> QED BY <2>3 DEF FundedOf, f, g
<1>4. ASSUME NEW p \in Q PROVE StakedIn(users, p) <= qools[p].lpSupply
  <2>1. StakedIn(users, p) \in Int BY StakeSums
  <2>2. CASE p \in P
    <3>1. StakedIn(users, p) <= pools[p].lpSupply BY <2>2 DEF Backed
    <3> QED BY <2>1, <2>2, <3>1
  <2>3. CASE p \notin P BY <1>2, <2>3
  <2> QED BY <2>2, <2>3
<1> QED BY <1>3, <1>4 DEF Backed

----------------------------------------------------------------------------
(* What stakers may still harvest, before rounding: in units of one PRECISION-th. *)

OwedBy(user, pool) == user.amount * pool.accAlpacaPerShare - PRECISION * user.rewardDebt
OwedIn(users, p, pool) == SumFunctionOnSet([u \in Users |-> OwedBy(users[p][u], pool)], Users)
OwedOf(users, pools) == SumFunctionOnSet([p \in DOMAIN pools |-> OwedIn(users, p, pools[p])], DOMAIN pools)
PromisesKept(users, pools, held) ==
  /\ \A p \in DOMAIN pools, u \in Users : OwedBy(users[p][u], pools[p]) >= 0
  /\ OwedOf(users, pools) <= PRECISION * held

\* What is owed is an integer.
LEMMA OwedIsInteger ==
  ASSUME FairLaunchAssumption, NEW users \in AllStakes, NEW p \in 1 .. MaxPools, NEW pool \in Pool
  PROVE  /\ \A u \in Users : OwedBy(users[p][u], pool) \in Int
         /\ OwedIn(users, p, pool) \in Int
PROOF
<1>1. PRECISION \in Nat /\ IsFiniteSet(Users) /\ pool.accAlpacaPerShare \in Nat
  BY DEF FairLaunchAssumption, Pool
<1>2. ASSUME NEW u \in Users PROVE OwedBy(users[p][u], pool) \in Int
  <2>1. users[p][u].amount \in Nat /\ users[p][u].rewardDebt \in Nat BY StakeSums DEF Stake
  <2> QED BY <1>1, <2>1 DEF OwedBy
<1> DEFINE f == [u \in Users |-> OwedBy(users[p][u], pool)]
<1>3. Integral(f, Users)
  BY <1>2 DEF Integral
<1> HIDE DEF f
<1>4. SumFunctionOnSet(f, Users) \in Int
  BY <1>1, <1>3, SumType
<1> QED BY <1>2, <1>4 DEF OwedIn, f

\* A pool that is updated owes its stakers no more than its reward on top of what it owed them.
LEMMA UpdateOwesReward ==
  ASSUME FairLaunchAssumption, NEW users \in AllStakes, NEW p \in 1 .. MaxPools,
         NEW pool \in Pool, NEW new \in Pool, NEW delta \in Nat, NEW reward \in Nat,
         new.accAlpacaPerShare = pool.accAlpacaPerShare + delta,
         pool.lpSupply * delta <= PRECISION * reward,
         StakedIn(users, p) <= pool.lpSupply
  PROVE  /\ \A u \in Users : OwedBy(users[p][u], pool) <= OwedBy(users[p][u], new)
         /\ OwedIn(users, p, new) <= OwedIn(users, p, pool) + PRECISION * reward
PROOF
<1> DEFINE f == [u \in Users |-> OwedBy(users[p][u], pool)]
           a == [u \in Users |-> users[p][u].amount]
           b == [u \in Users |-> delta * users[p][u].amount]
           g == [u \in Users |-> OwedBy(users[p][u], new)]
<1>1. PRECISION \in Nat /\ IsFiniteSet(Users) /\ pool.accAlpacaPerShare \in Nat /\ pool.lpSupply \in Nat
  BY DEF FairLaunchAssumption, Pool
<1>2. ASSUME NEW u \in Users
      PROVE  /\ users[p][u].amount \in Nat /\ delta * users[p][u].amount \in Nat
             /\ OwedBy(users[p][u], pool) \in Int
             /\ OwedBy(users[p][u], new) = OwedBy(users[p][u], pool) + delta * users[p][u].amount
  <2> DEFINE n == users[p][u].amount
             d == users[p][u].rewardDebt
             acc == pool.accAlpacaPerShare
  <2>1. n \in Nat /\ d \in Nat BY StakeSums DEF Stake
  <2>2. OwedBy(users[p][u], pool) = n * acc - PRECISION * d /\ OwedBy(users[p][u], new) = n * (acc + delta) - PRECISION * d
    BY DEF OwedBy
  <2> HIDE DEF n, d, acc
  <2>3. n * (acc + delta) = n * acc + delta * n /\ n * acc \in Nat /\ delta * n \in Nat /\ PRECISION * d \in Nat
    BY <1>1, <2>1 DEF acc
  <2> QED BY <2>1, <2>2, <2>3, OwedIsInteger DEF n
<1>3. AddUp(f, b, g, Users) /\ Multiple(delta, a, b, Users) /\ Integral(f, Users) /\ Integral(a, Users)
  BY <1>2 DEF AddUp, Multiple, Integral
<1>4. delta \in Int
  OBVIOUS
<1> HIDE DEF f, a, b, g
<1>5. /\ SumFunctionOnSet(g, Users) = SumFunctionOnSet(f, Users) + SumFunctionOnSet(b, Users)
      /\ SumFunctionOnSet(b, Users) = delta * SumFunctionOnSet(a, Users)
  BY <1>1, <1>3, <1>4, SumsAdd, SumScales
<1>6. /\ OwedIn(users, p, pool) = SumFunctionOnSet(f, Users) /\ OwedIn(users, p, new) = SumFunctionOnSet(g, Users)
      /\ StakedIn(users, p) = SumFunctionOnSet(a, Users)
  BY DEF OwedIn, StakedIn, f, g, a
<1>7. StakedIn(users, p) \in Nat /\ OwedIn(users, p, pool) \in Int
  BY StakeSums, OwedIsInteger
<1>8. delta * StakedIn(users, p) <= PRECISION * reward
  <2>1. StakedIn(users, p) * delta <= pool.lpSupply * delta /\ StakedIn(users, p) * delta \in Nat
    BY <1>1, <1>7, Products
  <2>2. StakedIn(users, p) * delta = delta * StakedIn(users, p) BY <1>7
  <2> DEFINE x == StakedIn(users, p) * delta
             y == pool.lpSupply * delta
             z == PRECISION * reward
  <2>3. x \in Int /\ y \in Int /\ z \in Int BY <1>1, <1>7
  <2>4. x <= y /\ y <= z /\ x = delta * StakedIn(users, p) BY <2>1, <2>2
  <2> HIDE DEF x, y, z
  <2>5. x <= z BY <2>3, <2>4
  <2> QED BY <2>4, <2>5 DEF z
<1>9. OwedIn(users, p, new) = OwedIn(users, p, pool) + delta * StakedIn(users, p)
  BY <1>5, <1>6
<1>10. delta * StakedIn(users, p) \in Int /\ PRECISION * reward \in Int
  BY <1>1, <1>7
<1> DEFINE x == delta * StakedIn(users, p)
           z == PRECISION * reward
<1>11. OwedIn(users, p, new) <= OwedIn(users, p, pool) + z
  <2>1. x \in Int /\ z \in Int /\ x <= z /\ OwedIn(users, p, new) = OwedIn(users, p, pool) + x
    BY <1>8, <1>9, <1>10
  <2> HIDE DEF x, z
  <2> QED BY <1>7, <2>1
<1>12. ASSUME NEW u \in Users PROVE OwedBy(users[p][u], pool) <= OwedBy(users[p][u], new)
  <2> DEFINE y == delta * users[p][u].amount
  <2>1. y \in Nat /\ OwedBy(users[p][u], new) = OwedBy(users[p][u], pool) + y BY <1>2
  <2> HIDE DEF y
  <2> QED BY <1>2, <2>1
<1> QED BY <1>11, <1>12

\* Bringing pools up to date: what is minted covers what is owed on top.
LEMMA UpdateKeepsPromises ==
  ASSUME FairLaunchAssumption, SettingsOK, NEW users \in AllStakes,
         poolInfo \in Seq(Pool), Pids \subseteq 1 .. MaxPools, \A p \in Pids : poolInfo[p].lastRewardBlock <= block,
         NEW S \in SUBSET Pids, CanUpdate(S),
         \A p \in Pids : StakedIn(users, p) <= poolInfo[p].lpSupply,
         NEW held \in Int, PromisesKept(users, poolInfo, held)
  PROVE  Minted(S) \in Nat /\ PromisesKept(users, Fresh(S), held + Minted(S))
PROOF
<1> DEFINE r(p) == alpacaReward(poolInfo[p])
           f == [p \in Pids |-> OwedIn(users, p, poolInfo[p])]
           g == [p \in Pids |-> OwedIn(users, p, Fresh(S)[p])]
           n == [p \in S |-> r(p)]
           m == [p \in Pids |-> IF p \in S THEN n[p] ELSE 0]
           k == [p \in Pids |-> PRECISION * m[p]]
           h == [p \in Pids |-> f[p] + k[p]]
<1>1. IsFiniteSet(Pids) /\ IsFiniteSet(S) /\ PRECISION \in Nat
  BY FinitelyManyPools, FS_Subset DEF FairLaunchAssumption
<1>2. \A p \in Pids : poolInfo[p] \in Pool
  BY DEF Pids
<1>3. ASSUME NEW p \in Pids
      PROVE  /\ Fresh(S)[p] \in Pool
             /\ p \in S => r(p) \in Nat
             /\ \A u \in Users : OwedBy(users[p][u], poolInfo[p]) <= OwedBy(users[p][u], Fresh(S)[p])
             /\ OwedIn(users, p, poolInfo[p]) \in Int /\ OwedIn(users, p, Fresh(S)[p]) \in Int
             /\ OwedIn(users, p, Fresh(S)[p]) <= OwedIn(users, p, poolInfo[p]) + PRECISION * (IF p \in S THEN r(p) ELSE 0)
  <2> DEFINE pool == poolInfo[p]
             new == Fresh(S)[p]
  <2>1. pool \in Pool /\ OwedIn(users, p, pool) \in Int /\ \A u \in Users : OwedBy(users[p][u], pool) \in Int
    BY <1>2, OwedIsInteger
  <2>2. CASE p \in S
    <3>1. new = updatePool(pool) BY <2>2 DEF Fresh
    <3>2. pool.lastRewardBlock <= block /\ (Outdated(pool) => totalAllocPoint # 0) BY <2>2 DEF CanUpdate
    <3>3. /\ new \in Pool /\ r(p) \in Nat
          /\ \E delta \in Nat : /\ new.accAlpacaPerShare = pool.accAlpacaPerShare + delta
                                /\ pool.lpSupply * delta <= PRECISION * r(p)
      <4> HIDE DEF pool
      <4>1. /\ updatePool(pool) \in Pool /\ alpacaReward(pool) \in Nat
            /\ \E delta \in Nat : /\ updatePool(pool).accAlpacaPerShare = pool.accAlpacaPerShare + delta
                                  /\ pool.lpSupply * delta <= PRECISION * alpacaReward(pool)
        BY <2>1, <3>2, UpdateAddsReward
      <4> QED BY <3>1, <4>1 DEF pool
    <3>4. PICK delta \in Nat : /\ new.accAlpacaPerShare = pool.accAlpacaPerShare + delta
                               /\ pool.lpSupply * delta <= PRECISION * r(p)
      BY <3>3
    <3>5. StakedIn(users, p) <= pool.lpSupply OBVIOUS
    <3> DEFINE reward == r(p)
    <3>6. reward \in Nat /\ pool.lpSupply * delta <= PRECISION * reward BY <3>3, <3>4
    <3> HIDE DEF pool, new, reward
    <3>7. /\ \A u \in Users : OwedBy(users[p][u], pool) <= OwedBy(users[p][u], new)
          /\ OwedIn(users, p, new) <= OwedIn(users, p, pool) + PRECISION * reward
      BY <2>1, <3>3, <3>4, <3>5, <3>6, UpdateOwesReward
    <3>8. OwedIn(users, p, new) \in Int BY <3>3, OwedIsInteger
    <3> QED BY <2>1, <2>2, <3>3, <3>6, <3>7, <3>8 DEF pool, new, reward
  <2>3. CASE p \notin S
    <3>1. new = pool BY <2>3 DEF Fresh
    <3> HIDE DEF pool, new
    <3>2. OwedIn(users, p, new) = OwedIn(users, p, pool) /\ PRECISION * 0 = 0 BY <1>1, <3>1
    <3>3. \A u \in Users : OwedBy(users[p][u], pool) <= OwedBy(users[p][u], new) BY <2>1, <3>1
    <3> QED BY <2>1, <2>3, <3>1, <3>2, <3>3 DEF pool, new
  <2> QED BY <2>2, <2>3
<1>4. /\ Natural(n, S) /\ CountsOnly(S, n, m, Pids) /\ Multiple(PRECISION, m, k, Pids)
      /\ AddUp(f, k, h, Pids) /\ Ordered(g, h, Pids) /\ Integral(f, Pids) /\ Integral(m, Pids) /\ Integral(g, Pids)
  <2>1. Natural(n, S) BY <1>3 DEF Natural
  <2>2. ASSUME NEW p \in Pids
        PROVE  /\ m[p] \in Nat /\ m[p] = IF p \in S THEN r(p) ELSE 0
               /\ f[p] = OwedIn(users, p, poolInfo[p]) /\ g[p] = OwedIn(users, p, Fresh(S)[p])
               /\ f[p] \in Int /\ g[p] \in Int
    BY <1>3
  <2> HIDE DEF r
  <2>3. \A p \in S : n[p] \in Int BY <2>1 DEF Natural
  <2>4. CountsOnly(S, n, m, Pids) BY <2>3 DEF CountsOnly
  <2>5. ASSUME NEW p \in Pids PROVE k[p] = PRECISION * m[p] /\ k[p] \in Int /\ h[p] = f[p] + k[p] /\ h[p] \in Int
    <3>1. k[p] = PRECISION * m[p] OBVIOUS
    <3>2. PRECISION * m[p] \in Int BY <1>1, <2>2
    <3>3. h[p] = f[p] + k[p] OBVIOUS
    <3> HIDE DEF k, m, h, f
    <3> QED BY <2>2, <3>1, <3>2, <3>3
  <2>6. ASSUME NEW p \in Pids PROVE g[p] <= h[p]
    <3>1. OwedIn(users, p, Fresh(S)[p]) <= OwedIn(users, p, poolInfo[p]) + PRECISION * (IF p \in S THEN r(p) ELSE 0)
      BY <1>3
    <3>2. m[p] = IF p \in S THEN r(p) ELSE 0 BY <2>2
    <3>3. g[p] = OwedIn(users, p, Fresh(S)[p]) /\ f[p] = OwedIn(users, p, poolInfo[p]) BY <2>2
    <3> HIDE DEF f, g, h, k, m
    <3>4. g[p] <= f[p] + PRECISION * m[p] BY <3>1, <3>2, <3>3
    <3> QED BY <2>5, <3>4
  <2> HIDE DEF f, g, h, k, m, n
  <2> QED BY <2>1, <2>2, <2>4, <2>5, <2>6 DEF Multiple, AddUp, Ordered, Integral
<1>5. Minted(S) = SumFunctionOnSet(n, S)
  BY DEF Minted, SumFunction
<1>6. /\ OwedOf(users, poolInfo) = SumFunctionOnSet(f, Pids)
      /\ OwedOf(users, Fresh(S)) = SumFunctionOnSet(g, Pids) /\ DOMAIN Fresh(S) = Pids
  BY DEF OwedOf, Pids, Fresh
<1>7. \A p \in Pids, u \in Users : OwedBy(users[p][u], poolInfo[p]) \in Int /\ OwedBy(users[p][u], Fresh(S)[p]) \in Int
  BY <1>2, <1>3, OwedIsInteger
<1>8. \A p \in Pids, u \in Users : OwedBy(users[p][u], Fresh(S)[p]) >= 0
  BY <1>3, <1>7 DEF PromisesKept, Pids
<1> HIDE DEF f, g, h, k, m, n
<1>9. SumFunctionOnSet(g, Pids) <= SumFunctionOnSet(h, Pids)
  BY <1>1, <1>4, SumsOrdered
<1>10. SumFunctionOnSet(h, Pids) = SumFunctionOnSet(f, Pids) + SumFunctionOnSet(k, Pids)
  BY <1>1, <1>4, SumsAdd
<1>11. SumFunctionOnSet(k, Pids) = PRECISION * SumFunctionOnSet(m, Pids)
  BY <1>1, <1>4, SumScales
<1>12. SumFunctionOnSet(m, Pids) = SumFunctionOnSet(n, S)
  <2>1. S \in SUBSET Pids /\ IsFiniteSet(Pids) /\ CountsOnly(S, n, m, Pids) BY <1>1, <1>4
  <2> HIDE DEF Pids
  <2> QED BY <2>1, SumOfPart, ZenonT(30)
<1>13. SumFunctionOnSet(n, S) \in Nat /\ SumFunctionOnSet(f, Pids) \in Int /\ SumFunctionOnSet(g, Pids) \in Int
  BY <1>1, <1>4, SumType
<1>14. OwedOf(users, Fresh(S)) <= PRECISION * (held + Minted(S))
  <2>1. OwedOf(users, poolInfo) <= PRECISION * held BY DEF PromisesKept
  <2>2. OwedOf(users, Fresh(S)) <= OwedOf(users, poolInfo) + PRECISION * Minted(S)
    BY <1>5, <1>6, <1>9, <1>10, <1>11, <1>12
  <2>3. PRECISION * (held + Minted(S)) = PRECISION * held + PRECISION * Minted(S) BY <1>1, <1>5, <1>13
  <2> DEFINE a == PRECISION * held
             b == PRECISION * Minted(S)
  <2>4. a \in Int /\ b \in Int BY <1>1, <1>5, <1>13
  <2>5. OwedOf(users, Fresh(S)) \in Int /\ OwedOf(users, poolInfo) \in Int BY <1>6, <1>13
  <2>6. OwedOf(users, poolInfo) <= a /\ OwedOf(users, Fresh(S)) <= OwedOf(users, poolInfo) + b BY <2>1, <2>2
  <2> HIDE DEF a, b
  <2>7. OwedOf(users, Fresh(S)) <= a + b BY <2>4, <2>5, <2>6
  <2> QED BY <2>3, <2>7 DEF a, b
<1> QED BY <1>5, <1>6, <1>8, <1>13, <1>14 DEF PromisesKept

\* One stake is settled: what it is owed changes by what it is paid.
LEMMA SettlingKeepsPromises ==
  ASSUME FairLaunchAssumption, NEW users \in AllStakes, NEW pools,
         DOMAIN pools \subseteq 1 .. MaxPools, \A p \in DOMAIN pools : pools[p] \in Pool,
         NEW pid \in DOMAIN pools, NEW u \in Users, NEW new \in Stake,
         NEW held \in Int, NEW later \in Int, PromisesKept(users, pools, held),
         OwedBy(new, pools[pid]) >= 0,
         OwedBy(new, pools[pid]) - OwedBy(users[pid][u], pools[pid]) <= PRECISION * (later - held)
  PROVE  PromisesKept(StakeReplaced(users, pid, u, new), pools, later)
PROOF
<1> DEFINE us == StakeReplaced(users, pid, u, new)
           P == DOMAIN pools
           pool == pools[pid]
           c == OwedBy(new, pool) - OwedBy(users[pid][u], pool)
<1>1. /\ us \in AllStakes /\ us[pid][u] = new
      /\ \A p \in 1 .. MaxPools, v \in Users : p # pid \/ v # u => us[p][v] = users[p][v]
  BY DEF AllStakes, StakeReplaced
<1>2. IsFiniteSet(Users) /\ IsFiniteSet(P) /\ pool \in Pool /\ PRECISION \in Nat
  BY FinitelyManyPools DEF FairLaunchAssumption
<1> HIDE DEF us
<1>3. \A p \in P : /\ OwedIn(users, p, pools[p]) \in Int /\ OwedIn(us, p, pools[p]) \in Int
                   /\ \A v \in Users : OwedBy(users[p][v], pools[p]) \in Int /\ OwedBy(us[p][v], pools[p]) \in Int
  BY <1>1, OwedIsInteger
<1>4. c \in Int
  <2>1. OwedBy(users[pid][u], pool) \in Int /\ OwedBy(us[pid][u], pool) \in Int BY <1>3
  <2> QED BY <1>1, <2>1
<1>5. OwedIn(us, pid, pool) = OwedIn(users, pid, pool) + c
  <2> DEFINE f == [v \in Users |-> OwedBy(users[pid][v], pool)]
             g == [v \in Users |-> OwedBy(us[pid][v], pool)]
  <2>1. SameBut(f, g, u, Users) /\ g[u] - f[u] = c /\ g[u] \in Int /\ f[u] \in Int /\ Integral(f, Users)
    BY <1>1, <1>3 DEF SameBut, Integral
  <2> HIDE DEF f, g
  <2>2. SumFunctionOnSet(g, Users) = SumFunctionOnSet(f, Users) + g[u] - f[u] BY <1>2, <2>1, SumShifts
  <2>3. SumFunctionOnSet(f, Users) \in Int BY <1>2, <2>1, SumType
  <2> HIDE DEF c
  <2>4. SumFunctionOnSet(g, Users) = SumFunctionOnSet(f, Users) + c BY <2>1, <2>2, <2>3
  <2> QED BY <2>4 DEF OwedIn, f, g
<1>6. OwedOf(us, pools) = OwedOf(users, pools) + c /\ OwedOf(users, pools) \in Int
  <2> DEFINE f == [p \in P |-> OwedIn(users, p, pools[p])]
             g == [p \in P |-> OwedIn(us, p, pools[p])]
  <2>1. ASSUME NEW p \in P \ {pid} PROVE g[p] = f[p]
    <3>1. [v \in Users |-> OwedBy(us[p][v], pools[p])] = [v \in Users |-> OwedBy(users[p][v], pools[p])] BY <1>1
    <3> QED BY <3>1 DEF OwedIn
  <2>2. \A p \in P : f[p] \in Int /\ g[p] \in Int BY <1>3
  <2>3. g[pid] = OwedIn(us, pid, pool) /\ f[pid] = OwedIn(users, pid, pool) OBVIOUS
  <2> HIDE DEF f, g
  <2>4. SameBut(f, g, pid, P) /\ Integral(f, P) BY <2>1, <2>2 DEF SameBut, Integral
  <2>5. SumFunctionOnSet(g, P) = SumFunctionOnSet(f, P) + g[pid] - f[pid] BY <1>2, <2>4, SumShifts
  <2>6. SumFunctionOnSet(f, P) \in Int BY <1>2, <2>4, SumType
  <2>7. f[pid] \in Int /\ g[pid] = f[pid] + c BY <1>5, <2>2, <2>3
  <2> HIDE DEF c
  <2>8. SumFunctionOnSet(g, P) = SumFunctionOnSet(f, P) + c BY <1>4, <2>5, <2>6, <2>7
  <2> QED BY <2>6, <2>8 DEF OwedOf, f, g
<1>7. OwedOf(us, pools) <= PRECISION * later
  <2> DEFINE a == PRECISION * held
             b == PRECISION * later
             d == PRECISION * (later - held)
  <2>1. a \in Int /\ b \in Int /\ d = b - a BY <1>2
  <2>2. OwedOf(users, pools) <= a BY DEF PromisesKept
  <2>3. c <= d OBVIOUS
  <2> HIDE DEF a, b, c, d
  <2>4. OwedOf(users, pools) + c <= b BY <1>4, <1>6, <2>1, <2>2, <2>3
  <2> QED BY <1>6, <2>4 DEF b
<1>8. ASSUME NEW p \in P, NEW v \in Users PROVE OwedBy(us[p][v], pools[p]) >= 0
  <2>1. CASE p = pid /\ v = u BY <1>1, <2>1
  <2>2. CASE p # pid \/ v # u
    <3>1. us[p][v] = users[p][v] BY <1>1, <2>2
    <3> QED BY <3>1 DEF PromisesKept
  <2> QED BY <2>1, <2>2
<1> QED BY <1>7, <1>8 DEF PromisesKept, us

\* Pools that are worth the same per share, and new ones in which nobody has a stake.
LEMMA PoolsKeepPromises ==
  ASSUME FairLaunchAssumption, NEW users \in AllStakes, NEW pools, NEW qools, NEW held \in Int,
         PromisesKept(users, pools, held),
         DOMAIN pools \subseteq DOMAIN qools, DOMAIN qools \subseteq 1 .. MaxPools,
         \A p \in DOMAIN qools : qools[p] \in Pool,
         \A p \in DOMAIN pools : pools[p].accAlpacaPerShare = qools[p].accAlpacaPerShare,
         \A p \in DOMAIN qools \ DOMAIN pools, u \in Users : users[p][u].amount = 0 /\ users[p][u].rewardDebt = 0
  PROVE  PromisesKept(users, qools, held)
PROOF
<1> DEFINE P == DOMAIN pools
           Q == DOMAIN qools
           f == [p \in P |-> OwedIn(users, p, pools[p])]
           g == [p \in Q |-> OwedIn(users, p, qools[p])]
<1>1. IsFiniteSet(Users) /\ IsFiniteSet(Q) /\ P \in SUBSET Q /\ PRECISION \in Nat
  BY FinitelyManyPools DEF FairLaunchAssumption
<1>2. ASSUME NEW p \in P
      PROVE  /\ \A u \in Users : OwedBy(users[p][u], qools[p]) = OwedBy(users[p][u], pools[p])
             /\ OwedIn(users, p, qools[p]) = OwedIn(users, p, pools[p])
  <2>1. ASSUME NEW u \in Users PROVE OwedBy(users[p][u], qools[p]) = OwedBy(users[p][u], pools[p]) BY DEF OwedBy
  <2>2. [u \in Users |-> OwedBy(users[p][u], qools[p])] = [u \in Users |-> OwedBy(users[p][u], pools[p])] BY <2>1
  <2> QED BY <2>1, <2>2 DEF OwedIn
<1>3. ASSUME NEW p \in Q \ P PROVE OwedIn(users, p, qools[p]) = 0 /\ \A u \in Users : OwedBy(users[p][u], qools[p]) = 0
  <2> DEFINE z == [u \in Users |-> OwedBy(users[p][u], qools[p])]
  <2>1. ASSUME NEW u \in Users PROVE OwedBy(users[p][u], qools[p]) = 0
    <3>1. users[p][u].amount = 0 /\ users[p][u].rewardDebt = 0 OBVIOUS
    <3>2. qools[p].accAlpacaPerShare \in Nat BY DEF Pool
    <3> DEFINE acc == qools[p].accAlpacaPerShare
    <3>3. OwedBy(users[p][u], qools[p]) = 0 * acc - PRECISION * 0 BY <3>1 DEF OwedBy
    <3> HIDE DEF acc
    <3>4. 0 * acc = 0 /\ PRECISION * 0 = 0 BY <1>1, <3>2 DEF acc
    <3> QED BY <3>3, <3>4
  <2>2. Zero(z, Users) BY <2>1 DEF Zero
  <2> HIDE DEF z
  <2>3. SumFunctionOnSet(z, Users) = 0 BY <1>1, <2>2, SumOfZeros
  <2> QED BY <2>1, <2>3 DEF OwedIn, z
<1>4. CountsOnly(P, f, g, Q)
  <2>1. \A p \in P : f[p] \in Int BY <1>2, OwedIsInteger
  <2>2. ASSUME NEW p \in Q PROVE g[p] = IF p \in P THEN f[p] ELSE 0 BY <1>2, <1>3
  <2> HIDE DEF f, g
  <2> QED BY <2>1, <2>2 DEF CountsOnly
<1> HIDE DEF f, g
<1>5. SumFunctionOnSet(g, Q) = SumFunctionOnSet(f, P)
  BY <1>1, <1>4, SumOfPart
<1>6. OwedOf(users, qools) = OwedOf(users, pools)
  BY <1>5 DEF OwedOf, f, g
<1>7. ASSUME NEW p \in Q, NEW u \in Users PROVE OwedBy(users[p][u], qools[p]) >= 0
  <2>1. CASE p \in P BY <1>2, <2>1 DEF PromisesKept
  <2>2. CASE p \notin P BY <1>3, <2>2
  <2> QED BY <2>1, <2>2
<1> QED BY <1>6, <1>7 DEF PromisesKept

\* What can be harvested is what is owed, rounded down stake by stake.
LEMMA PromisesCoverRewards ==
  ASSUME FairLaunchAssumption, userInfo \in AllStakes, Pids \subseteq 1 .. MaxPools,
         \A p \in Pids : poolInfo[p] \in Pool,
         alpaca + touched \in Int, PromisesKept(userInfo, poolInfo, alpaca + touched)
  PROVE  RewardsCovered
PROOF
<1>1. IsFiniteSet(Users) /\ IsFiniteSet(Pids) /\ PRECISION \in Nat \ {0}
  BY FinitelyManyPools DEF FairLaunchAssumption
<1>2. ASSUME NEW p \in Pids, NEW u \in Users
      PROVE  /\ pending(userInfo[p][u], poolInfo[p]) \in Int
             /\ OwedBy(userInfo[p][u], poolInfo[p]) \in Int
             /\ PRECISION * pending(userInfo[p][u], poolInfo[p]) \in Int
             /\ PRECISION * pending(userInfo[p][u], poolInfo[p]) <= OwedBy(userInfo[p][u], poolInfo[p])
  <2> DEFINE n == userInfo[p][u].amount * poolInfo[p].accAlpacaPerShare
             d == userInfo[p][u].rewardDebt
             q == n \div PRECISION
  <2>1. n \in Nat /\ d \in Nat
    <3>1. userInfo[p][u].amount \in Nat /\ d \in Nat BY StakeSums DEF Stake
    <3>2. poolInfo[p].accAlpacaPerShare \in Nat BY DEF Pool
    <3> QED BY <3>1, <3>2
  <2>2. /\ pending(userInfo[p][u], poolInfo[p]) = q - d
        /\ OwedBy(userInfo[p][u], poolInfo[p]) = n - PRECISION * d
    BY DEF pending, Earned, OwedBy
  <2> HIDE DEF n, d
  <2>3. q \in Nat /\ PRECISION * q <= n BY <1>1, <2>1, Division
  <2> HIDE DEF q
  <2>4. PRECISION * (q - d) = PRECISION * q - PRECISION * d /\ PRECISION * q \in Int /\ PRECISION * d \in Int
    BY <1>1, <2>1, <2>3
  <2> QED BY <2>1, <2>2, <2>3, <2>4
<1> DEFINE e(p) == [u \in Users |-> pending(userInfo[p][u], poolInfo[p])]
           e1(p) == [u \in Users |-> PRECISION * pending(userInfo[p][u], poolInfo[p])]
           o(p) == [u \in Users |-> OwedBy(userInfo[p][u], poolInfo[p])]
<1>3. ASSUME NEW p \in Pids
      PROVE  Harvestable(p) \in Int /\ OwedIn(userInfo, p, poolInfo[p]) \in Int
             /\ PRECISION * Harvestable(p) \in Int
             /\ PRECISION * Harvestable(p) <= OwedIn(userInfo, p, poolInfo[p])
  <2>1. /\ Integral(e(p), Users) /\ Multiple(PRECISION, e(p), e1(p), Users)
        /\ Ordered(e1(p), o(p), Users) /\ Integral(o(p), Users)
    BY <1>2 DEF Integral, Multiple, Ordered
  <2>2. Harvestable(p) = SumFunctionOnSet(e(p), Users) /\ OwedIn(userInfo, p, poolInfo[p]) = SumFunctionOnSet(o(p), Users)
    BY DEF Harvestable, SumFunction, OwedIn
  <2> HIDE DEF e, e1, o
  <2>3. SumFunctionOnSet(e(p), Users) \in Int /\ SumFunctionOnSet(o(p), Users) \in Int BY <1>1, <2>1, SumType
  <2>4. SumFunctionOnSet(e1(p), Users) = PRECISION * SumFunctionOnSet(e(p), Users) BY <1>1, <2>1, SumScales
  <2>5. SumFunctionOnSet(e1(p), Users) <= SumFunctionOnSet(o(p), Users) BY <1>1, <2>1, SumsOrdered
  <2>6. PRECISION * SumFunctionOnSet(e(p), Users) \in Int BY <1>1, <2>3
  <2> QED BY <2>2, <2>3, <2>4, <2>5, <2>6
<1> DEFINE f == [p \in Pids |-> Harvestable(p)]
           g == [p \in Pids |-> PRECISION * f[p]]
           h == [p \in Pids |-> OwedIn(userInfo, p, poolInfo[p])]
<1>4. Integral(f, Pids) /\ Multiple(PRECISION, f, g, Pids) /\ Ordered(g, h, Pids)
  BY <1>3 DEF Integral, Multiple, Ordered
<1>5. SumFunction(f) = SumFunctionOnSet(f, Pids) /\ OwedOf(userInfo, poolInfo) = SumFunctionOnSet(h, Pids)
  BY DEF SumFunction, OwedOf, Pids
<1>6. RewardsCovered <=> SumFunction(f) <= alpaca + touched
  BY DEF RewardsCovered
<1> DEFINE held == alpaca + touched
<1>7. held \in Int /\ OwedOf(userInfo, poolInfo) <= PRECISION * held
  BY DEF PromisesKept
<1> HIDE DEF f, g, h, held
<1>8. SumFunctionOnSet(f, Pids) \in Int
  BY <1>1, <1>4, SumType
<1>9. SumFunctionOnSet(g, Pids) = PRECISION * SumFunctionOnSet(f, Pids)
  BY <1>1, <1>4, SumScales
<1>10. SumFunctionOnSet(g, Pids) <= SumFunctionOnSet(h, Pids)
  BY <1>1, <1>4, SumsOrdered
<1>11. PRECISION * SumFunctionOnSet(f, Pids) <= PRECISION * held
  <2> DEFINE x == PRECISION * SumFunctionOnSet(f, Pids)
             y == PRECISION * held
             z == OwedOf(userInfo, poolInfo)
  <2>1. x \in Int /\ y \in Int BY <1>1, <1>7, <1>8
  <2>2. x <= z /\ z <= y BY <1>5, <1>7, <1>9, <1>10
  <2>3. z \in Int
    <3>1. Integral(h, Pids) BY <1>3 DEF Integral, h
    <3>2. SumFunctionOnSet(h, Pids) \in Int BY <1>1, <3>1, SumType
    <3> QED BY <1>5, <3>2
  <2> HIDE DEF x, y, z
  <2>4. x <= y BY <2>1, <2>2, <2>3
  <2> QED BY <2>4 DEF x, y
<1>12. SumFunctionOnSet(f, Pids) <= held
  <2> DEFINE s == SumFunctionOnSet(f, Pids)
  <2>1. s \in Int /\ PRECISION * s <= PRECISION * held BY <1>8, <1>11
  <2> HIDE DEF s
  <2>2. s <= held BY <1>1, <1>7, <2>1
  <2> QED BY <2>2 DEF s
<1> QED BY <1>5, <1>6, <1>12 DEF held

----------------------------------------------------------------------------
(* The steps. *)

EmptyStakes ==
  \A p \in 1 .. MaxPools, u \in Users :
    /\ p \notin Pids \/ userInfo[p][u].fundedBy = NoOne => userInfo[p][u].amount = 0
    /\ userInfo[p][u].amount = 0 => userInfo[p][u].rewardDebt = 0
StakesInv ==
  /\ TypesOK /\ EmptyStakes
  /\ Backed(userInfo, poolInfo, paidIn)
  /\ PromisesKept(userInfo, poolInfo, alpaca + touched)

Resized(pools, pid, size) == [pools EXCEPT ![pid].lpSupply = size]
Paid(funder, d) == [paidIn EXCEPT ![funder] = @ + d]

\* What the invariant says of pools and stakes, for the lemmas above.
LEMMA InvFacts ==
  ASSUME FairLaunchAssumption, StakesInv
  PROVE  /\ SettingsOK /\ userInfo \in AllStakes /\ poolInfo \in Seq(Pool) /\ Pids \subseteq 1 .. MaxPools
         /\ \A p \in Pids : poolInfo[p] \in Pool /\ poolInfo[p].lpSupply \in Nat /\ poolInfo[p].lastRewardBlock <= block
         /\ \A p \in Pids : StakedIn(userInfo, p) <= poolInfo[p].lpSupply
         /\ alpaca + touched \in Int /\ touched \in Nat /\ alpaca \in Int
PROOF
<1>1. Pids = 1 .. Len(poolInfo) /\ Len(poolInfo) \in Nat /\ Len(poolInfo) <= MaxPools /\ MaxPools \in Nat
  BY DEF StakesInv, TypesOK, Pids, FairLaunchAssumption
<1>2. \A p \in Pids : poolInfo[p] \in Pool /\ poolInfo[p].lpSupply \in Nat
  <2>1. \A p \in Pids : poolInfo[p] \in Pool BY DEF StakesInv, TypesOK, Pids
  <2> QED BY <2>1 DEF Pool
<1>3. \A p \in Pids : StakedIn(userInfo, p) <= poolInfo[p].lpSupply
  BY DEF StakesInv, Backed, Pids
<1> QED BY <1>1, <1>2, <1>3 DEF StakesInv, TypesOK, AllStakes

\* Only pools change: they are brought up to date, and may then grow or be joined by new ones.
LEMMA PoolsKeepInv ==
  ASSUME FairLaunchAssumption, StakesInv, NEW S \in SUBSET Pids, CanUpdate(S),
         NEW qools \in Seq(Pool), Len(qools) <= MaxPools, Pids \subseteq DOMAIN qools,
         \A p \in DOMAIN qools : qools[p].lastRewardBlock <= block,
         \A p \in Pids : /\ qools[p].accAlpacaPerShare = Fresh(S)[p].accAlpacaPerShare
                         /\ poolInfo[p].lpSupply <= qools[p].lpSupply,
         poolInfo' = qools, userInfo' = userInfo, paidIn' = paidIn, touched' = touched,
         alpaca' = alpaca + Minted(S), supply' \in Nat, announced' = announced,
         block' = block, bonus' = bonus, alpacaPerBlock' = alpacaPerBlock, totalAllocPoint' \in Nat
  PROVE  StakesInv'
PROOF
<1>1. /\ SettingsOK /\ userInfo \in AllStakes /\ poolInfo \in Seq(Pool) /\ Pids \subseteq 1 .. MaxPools
      /\ \A p \in Pids : poolInfo[p] \in Pool /\ poolInfo[p].lpSupply \in Nat /\ poolInfo[p].lastRewardBlock <= block
      /\ \A p \in Pids : StakedIn(userInfo, p) <= poolInfo[p].lpSupply
      /\ alpaca + touched \in Int /\ touched \in Nat /\ alpaca \in Int
  BY InvFacts
<1> DEFINE held == alpaca + touched
<1>2. Minted(S) \in Nat /\ PromisesKept(userInfo, Fresh(S), held + Minted(S))
  <2>1. held \in Int /\ PromisesKept(userInfo, poolInfo, held) BY <1>1 DEF StakesInv
  <2> HIDE DEF held
  <2> QED BY <1>1, <2>1, UpdateKeepsPromises
<1>3. DOMAIN qools \subseteq 1 .. MaxPools /\ \A p \in DOMAIN qools : qools[p] \in Pool /\ qools[p].lpSupply \in Nat
  <2>1. DOMAIN qools = 1 .. Len(qools) /\ Len(qools) \in Nat /\ MaxPools \in Nat BY DEF FairLaunchAssumption
  <2>2. \A p \in DOMAIN qools : qools[p] \in Pool OBVIOUS
  <2>3. \A p \in DOMAIN qools : qools[p].lpSupply \in Nat BY <2>2 DEF Pool
  <2> QED BY <2>1, <2>2, <2>3
<1>4. \A p \in DOMAIN qools \ Pids, u \in Users : userInfo[p][u].amount = 0 /\ userInfo[p][u].rewardDebt = 0
  BY <1>3 DEF StakesInv, EmptyStakes
<1>5. Backed(userInfo, qools, paidIn)
  <2>1. Backed(userInfo, poolInfo, paidIn) /\ DOMAIN poolInfo = Pids BY DEF StakesInv, Pids
  <2> QED BY <1>1, <1>3, <1>4, <2>1, PoolsKeepBacking
<1>6. PromisesKept(userInfo, qools, held + Minted(S))
  <2> DEFINE later == held + Minted(S)
             pools == Fresh(S)
  <2>1. later \in Int /\ PromisesKept(userInfo, pools, later) /\ DOMAIN pools = Pids BY <1>1, <1>2 DEF Fresh
  <2>2. \A p \in DOMAIN pools : pools[p].accAlpacaPerShare = qools[p].accAlpacaPerShare BY <2>1
  <2> HIDE DEF later, pools
  <2>3. PromisesKept(userInfo, qools, later) BY <1>1, <1>3, <1>4, <2>1, <2>2, PoolsKeepPromises
  <2> QED BY <2>3 DEF later
<1>7. alpaca' + touched' = held + Minted(S)
  BY <1>1, <1>2
<1>8. PromisesKept(userInfo', poolInfo', alpaca' + touched')
  <2> HIDE DEF held
  <2> QED BY <1>6, <1>7
<1>9. Backed(userInfo', poolInfo', paidIn')
  BY <1>5
<1>10. TypesOK'
  <2>1. alpaca' \in Int BY <1>1, <1>2
  <2>2. Pids' = DOMAIN qools BY DEF Pids
  <2> QED BY <1>1, <2>1, <2>2 DEF StakesInv, TypesOK, SettingsOK
<1>11. EmptyStakes'
  <2>1. Pids \subseteq Pids' BY DEF Pids
  <2> QED BY <2>1 DEF StakesInv, EmptyStakes
<1> QED BY <1>8, <1>9, <1>10, <1>11 DEF StakesInv

\* A stake changes by d in its funder's name, and by gain in what it is owed.
StakeMoves(old, new, funder, d) ==
  /\ new \in Stake /\ funder \in Users /\ d \in Int
  /\ new.amount = old.amount + d /\ FundedBy(new, funder) = FundedBy(old, funder) + d
  /\ \A x \in Users \ {funder} : FundedBy(new, x) = FundedBy(old, x)
  /\ new.fundedBy = NoOne => new.amount = 0
  /\ new.amount = 0 => new.rewardDebt = 0
Settles(old, new, pool, gain) ==
  OwedBy(new, pool) >= 0 /\ OwedBy(new, pool) - OwedBy(old, pool) <= PRECISION * gain

\* The stake of u in pool pid changes, after the pools of S have been brought up to date.
StakeStep(S, pid, u, new, funder, d) ==
  /\ S \in SUBSET Pids /\ CanUpdate(S) /\ pid \in Pids /\ u \in Users
  /\ StakeMoves(userInfo[pid][u], new, funder, d)
  /\ Settles(userInfo[pid][u], new, Fresh(S)[pid], (alpaca' + touched') - (alpaca + touched + Minted(S)))
  /\ poolInfo[pid].lpSupply + d \in Nat
  /\ poolInfo' = Resized(Fresh(S), pid, poolInfo[pid].lpSupply + d)
  /\ userInfo' = StakeReplaced(userInfo, pid, u, new) /\ paidIn' = Paid(funder, d)
  /\ touched' \in Nat /\ alpaca' \in Int /\ supply' \in Nat
  /\ UNCHANGED <<block, settings, totalAllocPoint, announced>>

\* A stake is settled at an updated pool: it changes by what its funder pays, and its harvest is paid.
LEMMA SettlingKeepsStakesInv ==
  ASSUME FairLaunchAssumption, StakesInv, NEW S, NEW pid, NEW u, NEW new, NEW funder, NEW d,
         StakeStep(S, pid, u, new, funder, d)
  PROVE  StakesInv'
PROOF
<1> DEFINE size == poolInfo[pid].lpSupply + d
<1>0. /\ S \in SUBSET Pids /\ CanUpdate(S) /\ pid \in Pids /\ u \in Users /\ new \in Stake /\ funder \in Users
      /\ d \in Int /\ new.amount = userInfo[pid][u].amount + d
      /\ FundedBy(new, funder) = FundedBy(userInfo[pid][u], funder) + d
      /\ \A x \in Users \ {funder} : FundedBy(new, x) = FundedBy(userInfo[pid][u], x)
      /\ new.fundedBy = NoOne => new.amount = 0
      /\ new.amount = 0 => new.rewardDebt = 0
      /\ OwedBy(new, Fresh(S)[pid]) >= 0
      /\ OwedBy(new, Fresh(S)[pid]) - OwedBy(userInfo[pid][u], Fresh(S)[pid])
           <= PRECISION * ((alpaca' + touched') - (alpaca + touched + Minted(S)))
      /\ size \in Nat /\ size = poolInfo[pid].lpSupply + d /\ poolInfo' = Resized(Fresh(S), pid, size)
      /\ userInfo' = StakeReplaced(userInfo, pid, u, new) /\ paidIn' = Paid(funder, d)
      /\ touched' \in Nat /\ alpaca' \in Int /\ supply' \in Nat /\ announced' = announced
      /\ block' = block /\ bonus' = bonus /\ alpacaPerBlock' = alpacaPerBlock /\ totalAllocPoint' = totalAllocPoint
  BY DEF StakeStep, StakeMoves, Settles, settings
<1> HIDE DEF size
<1> USE <1>0
<1>1. /\ SettingsOK /\ userInfo \in AllStakes /\ poolInfo \in Seq(Pool) /\ Pids \subseteq 1 .. MaxPools
      /\ \A p \in Pids : poolInfo[p] \in Pool /\ poolInfo[p].lpSupply \in Nat /\ poolInfo[p].lastRewardBlock <= block
      /\ \A p \in Pids : StakedIn(userInfo, p) <= poolInfo[p].lpSupply
      /\ alpaca + touched \in Int /\ touched \in Nat /\ alpaca \in Int
  BY InvFacts
<1> DEFINE held == alpaca + touched
           between == held + Minted(S)
           later == alpaca' + touched'
           pools == Fresh(S)
           us == StakeReplaced(userInfo, pid, u, new)
           qools == Resized(pools, pid, size)
<1>2. /\ pools \in Seq(Pool) /\ DOMAIN pools = Pids /\ Len(pools) = Len(poolInfo)
      /\ \A p \in Pids : pools[p].lpSupply = poolInfo[p].lpSupply /\ pools[p].lastRewardBlock <= block
  BY FreshPools DEF StakesInv
<1>3. \A p \in Pids : pools[p] \in Pool
  BY <1>2
<1>4. between \in Int /\ PromisesKept(userInfo, pools, between)
  <2>1. held \in Int /\ PromisesKept(userInfo, poolInfo, held) BY <1>1 DEF StakesInv
  <2> HIDE DEF held
  <2>2. Minted(S) \in Nat /\ PromisesKept(userInfo, Fresh(S), held + Minted(S))
    BY <1>1, <2>1, UpdateKeepsPromises
  <2> QED BY <2>1, <2>2
<1>5. PromisesKept(us, pools, later)
  <2>1. later \in Int OBVIOUS
  <2>2. OwedBy(new, pools[pid]) - OwedBy(userInfo[pid][u], pools[pid]) <= PRECISION * (later - between) OBVIOUS
  <2>3. OwedBy(new, pools[pid]) >= 0 OBVIOUS
  <2> HIDE DEF held, between, later, pools
  <2> QED BY <1>1, <1>2, <1>3, <1>4, <2>1, <2>2, <2>3, SettlingKeepsPromises
<1>6. /\ us \in AllStakes /\ us[pid][u] = new
      /\ \A p \in 1 .. MaxPools, v \in Users : p # pid \/ v # u => us[p][v] = userInfo[p][v]
  BY <1>1 DEF AllStakes, StakeReplaced
<1> HIDE DEF pools
<1>7. /\ qools \in Seq(Pool) /\ DOMAIN qools = Pids /\ Len(qools) = Len(poolInfo)
      /\ qools[pid].lpSupply = size
      /\ \A p \in Pids : /\ qools[p] \in Pool /\ qools[p].accAlpacaPerShare = pools[p].accAlpacaPerShare
                         /\ qools[p].lastRewardBlock <= block
      /\ \A p \in Pids \ {pid} : qools[p].lpSupply = poolInfo[p].lpSupply
  <2> DEFINE q == [pools[pid] EXCEPT !.lpSupply = size]
  <2>1. q \in Pool /\ q.accAlpacaPerShare = pools[pid].accAlpacaPerShare /\ q.lpSupply = size
        /\ q.lastRewardBlock = pools[pid].lastRewardBlock
    <3>1. pools[pid] \in Pool /\ size \in Nat BY <1>1, <1>2, <1>3
    <3> QED BY <3>1 DEF Pool
  <2>2. qools = [pools EXCEPT ![pid] = q] BY DEF Resized
  <2> HIDE DEF q
  <2>3. /\ qools \in Seq(Pool) /\ DOMAIN qools = Pids /\ Len(qools) = Len(poolInfo)
        /\ \A p \in Pids : qools[p] = IF p = pid THEN q ELSE pools[p]
    <3>1. pools \in Seq(Pool) /\ pid \in DOMAIN pools /\ q \in Pool BY <1>2, <2>1
    <3> HIDE DEF qools, pools
    <3>2. /\ qools \in Seq(Pool) /\ DOMAIN qools = DOMAIN pools /\ Len(qools) = Len(pools)
          /\ \A p \in DOMAIN pools : qools[p] = IF p = pid THEN q ELSE pools[p]
      BY <2>2, <3>1, OnePoolReplaced, SMTT(30)
    <3> QED BY <1>2, <3>2
  <2> HIDE DEF qools
  <2> QED BY <1>2, <1>3, <2>1, <2>3
<1> HIDE DEF qools, us
<1>8. PromisesKept(us, qools, later)
  <2>1. later \in Int OBVIOUS
  <2>2. DOMAIN pools = Pids /\ DOMAIN qools = Pids /\ Pids \ Pids = {} BY <1>2, <1>7
  <2>3. /\ \A p \in DOMAIN qools : qools[p] \in Pool
        /\ \A p \in DOMAIN pools : pools[p].accAlpacaPerShare = qools[p].accAlpacaPerShare
        /\ \A p \in DOMAIN qools \ DOMAIN pools, v \in Users : us[p][v].amount = 0 /\ us[p][v].rewardDebt = 0
        /\ DOMAIN pools \subseteq DOMAIN qools /\ DOMAIN qools \subseteq 1 .. MaxPools
    BY <1>1, <1>7, <2>2
  <2> HIDE DEF later
  <2> QED BY <1>5, <1>6, <2>1, <2>3, PoolsKeepPromises
<1>9. Backed(us, qools, Paid(funder, d))
  <2> DEFINE paid == paidIn
  <2>1. paid \in [Users -> Int] /\ Backed(userInfo, poolInfo, paid) BY DEF StakesInv, TypesOK
  <2>2. DOMAIN poolInfo = Pids BY DEF Pids
  <2>3. qools[pid].lpSupply = poolInfo[pid].lpSupply + d BY <1>7
  <2>4. \A p \in DOMAIN poolInfo : poolInfo[p].lpSupply \in Int
    <3>1. ASSUME NEW p \in Pids PROVE poolInfo[p].lpSupply \in Int
      <4>1. poolInfo[p].lpSupply \in Nat BY <1>1
      <4> QED BY <4>1
    <3> QED BY <2>2, <3>1
  <2> HIDE DEF paid
  <2>5. Backed(us, qools, [paid EXCEPT ![funder] = @ + d])
    BY <1>1, <1>7, <2>1, <2>2, <2>3, <2>4, StakingKeepsBacking DEF us
  <2> QED BY <2>5 DEF Paid, paid
<1>10. TypesOK'
  <2>1. Pids' = Pids BY <1>7 DEF Pids, qools, pools
  <2>2. paidIn' \in [Users -> Int]
    <3>1. paidIn \in [Users -> Int] BY DEF StakesInv, TypesOK
    <3>2. paidIn' = [paidIn EXCEPT ![funder] = @ + d] /\ paidIn[funder] + d \in Int BY <3>1 DEF Paid
    <3> QED BY <3>1, <3>2
  <2>3. poolInfo' = qools /\ userInfo' = us BY DEF qools, us, pools
  <2> QED BY <1>1, <1>6, <1>7, <2>1, <2>2, <2>3 DEF StakesInv, TypesOK, SettingsOK, AllStakes
<1>11. EmptyStakes'
  <2>1. Pids' = Pids BY <1>7 DEF Pids, qools, pools
  <2>2. userInfo' = us BY DEF us
  <2>3. ASSUME NEW p \in 1 .. MaxPools, NEW v \in Users
        PROVE  /\ p \notin Pids \/ us[p][v].fundedBy = NoOne => us[p][v].amount = 0
               /\ us[p][v].amount = 0 => us[p][v].rewardDebt = 0
    <3>1. CASE p = pid /\ v = u BY <1>6, <3>1
    <3>2. CASE p # pid \/ v # u
      <4>1. us[p][v] = userInfo[p][v] BY <1>6, <3>2
      <4> QED BY <4>1 DEF StakesInv, EmptyStakes
    <3> QED BY <3>1, <3>2
  <2> QED BY <2>1, <2>2, <2>3 DEF EmptyStakes
<1>12. PromisesKept(userInfo', poolInfo', alpaca' + touched') /\ Backed(userInfo', poolInfo', paidIn')
  BY <1>8, <1>9 DEF us, qools, pools
<1> QED BY <1>10, <1>11, <1>12 DEF StakesInv

\* What an update mints: a natural number, and at most a tenth of it again for dev.
LEMMA UpdateMints ==
  ASSUME FairLaunchAssumption, StakesInv, NEW S \in SUBSET Pids, Update(S)
  PROVE  /\ CanUpdate(S) /\ supply' \in Nat
         /\ Minted(S) \in Nat /\ ForDev(S) \in Nat /\ 10 * ForDev(S) <= Minted(S)
         /\ \A p \in S : alpacaReward(poolInfo[p]) \in Nat
PROOF
<1>1. CanUpdate(S)
  BY DEF Update, CanUpdate
<1>2. IsFiniteSet(S)
  BY InvFacts, FinitelyManyPools, FS_Subset
<1>3. \A p \in S : alpacaReward(poolInfo[p]) \in Nat
  BY <1>1, FreshPools DEF StakesInv
<1> DEFINE f == [p \in S |-> alpacaReward(poolInfo[p])]
           g == [p \in S |-> alpacaReward(poolInfo[p]) \div 10]
           h == [p \in S |-> 10 * g[p]]
<1>4. ASSUME NEW p \in S PROVE g[p] \in Nat /\ h[p] \in Nat /\ h[p] = 10 * g[p] /\ h[p] <= f[p] /\ f[p] \in Nat
  <2> DEFINE r == alpacaReward(poolInfo[p])
  <2>1. r \in Nat BY <1>3
  <2>2. g[p] = r \div 10 /\ h[p] = 10 * (r \div 10) /\ f[p] = r OBVIOUS
  <2> HIDE DEF r, f, g, h
  <2>3. r \div 10 \in Nat /\ 10 * (r \div 10) <= r BY <2>1, Division
  <2> QED BY <2>1, <2>2, <2>3
<1>5. Natural(f, S) /\ Natural(g, S) /\ Multiple(10, g, h, S) /\ Ordered(h, f, S)
  <2> HIDE DEF f, g, h
  <2> QED BY <1>4 DEF Natural, Multiple, Ordered
<1>6. Minted(S) = SumFunctionOnSet(f, S) /\ ForDev(S) = SumFunctionOnSet(g, S)
  BY DEF Minted, ForDev, SumFunction
<1> HIDE DEF f, g, h
<1>7. SumFunctionOnSet(f, S) \in Nat /\ SumFunctionOnSet(g, S) \in Nat
  BY <1>2, <1>5, SumType
<1>8. SumFunctionOnSet(h, S) <= SumFunctionOnSet(f, S) /\ SumFunctionOnSet(h, S) = 10 * SumFunctionOnSet(g, S)
  <2>1. 10 \in Int OBVIOUS
  <2> QED BY <1>2, <1>5, <2>1, SumsOrdered, SumScales
<1>9. Minted(S) \in Nat /\ ForDev(S) \in Nat /\ 10 * ForDev(S) <= Minted(S)
  BY <1>6, <1>7, <1>8
<1>10. supply' \in Nat
  BY <1>9 DEF Update, StakesInv, TypesOK
<1> QED BY <1>1, <1>3, <1>9, <1>10

OwesLittle(new, user, pool, amount) ==
  /\ new \in Stake /\ new.amount = amount /\ new.fundedBy = user.fundedBy
  /\ OwedBy(new, pool) \in Int /\ OwedBy(new, pool) >= 0 /\ OwedBy(new, pool) < PRECISION
  /\ amount = 0 => new.rewardDebt = 0

\* A settled stake is owed less than one unit.
LEMMA SettledOwesLittle ==
  ASSUME FairLaunchAssumption, NEW pool \in Pool, NEW user \in Stake, NEW amount \in Nat
  PROVE  OwesLittle(Settled(user, pool, amount), user, pool, amount)
PROOF
<1> DEFINE new == Settled(user, pool, amount)
           A == pool.accAlpacaPerShare
           B == pool.accAlpacaPerShareTilBonusEnd
           a == amount * A
           b == amount * B
<1>1. A \in Nat /\ B \in Nat /\ PRECISION \in Nat \ {0}
  BY DEF Pool, FairLaunchAssumption
<1>2. a \in Nat /\ b \in Nat
  BY <1>1
<1>3. new = [user EXCEPT !.amount = amount, !.rewardDebt = a \div PRECISION, !.bonusDebt = b \div PRECISION]
  <2> DEFINE n == [user EXCEPT !.amount = amount]
  <2>1. n.amount = amount BY DEF Stake
  <2>2. new = [n EXCEPT !.rewardDebt = a \div PRECISION, !.bonusDebt = b \div PRECISION]
    BY <2>1 DEF Settled, Earned, EarnedTilBonusEnd
  <2> QED BY <2>2
<1>4. amount = 0 => a = 0
  BY <1>1
<1> HIDE DEF a, b
<1> DEFINE q == a \div PRECISION
<1>5. q \in Nat /\ PRECISION * q <= a /\ a < PRECISION * q + PRECISION /\ b \div PRECISION \in Nat
  BY <1>1, <1>2, Division
<1>6. amount = 0 => q = 0
  <2> SUFFICES ASSUME amount = 0 PROVE q = 0 OBVIOUS
  <2>1. a = 0 BY <1>4
  <2> HIDE DEF q
  <2>2. PRECISION * q <= PRECISION * 0 BY <1>1, <1>5, <2>1
  <2> QED BY <1>1, <1>5, <2>2, Cancel
<1> HIDE DEF q
<1>7. new \in Stake /\ new.amount = amount /\ new.fundedBy = user.fundedBy /\ new.rewardDebt = q
  BY <1>3, <1>5 DEF Stake, q
<1> HIDE DEF new
<1>8. OwedBy(new, pool) = a - PRECISION * q
  BY <1>7 DEF OwedBy, a
<1>9. PRECISION * q \in Int
  BY <1>1, <1>5
<1> QED BY <1>1, <1>2, <1>5, <1>6, <1>7, <1>8, <1>9 DEF OwesLittle, new

\* A harvest pays no more than is owed; what is left is what settling leaves.
LEMMA HarvestPaysOwed ==
  ASSUME FairLaunchAssumption, NEW pool \in Pool, NEW user \in Stake
  PROVE  /\ pending(user, pool) \in Int
         /\ PRECISION * pending(user, pool) <= OwedBy(user, pool)
         /\ OwedBy(user, pool) \in Int
         /\ OwedBy(Settled(user, pool, user.amount), pool) - OwedBy(user, pool) = PRECISION * (0 - pending(user, pool))
PROOF
<1> DEFINE n == user.amount * pool.accAlpacaPerShare
           d == user.rewardDebt
           q == n \div PRECISION
<1>1. user.amount \in Nat /\ d \in Nat /\ pool.accAlpacaPerShare \in Nat /\ PRECISION \in Nat \ {0}
  BY DEF Stake, Pool, FairLaunchAssumption
<1>2. n \in Nat
  BY <1>1
<1>3. pending(user, pool) = q - d /\ OwedBy(user, pool) = n - PRECISION * d
  BY DEF pending, Earned, OwedBy
<1>4. OwedBy(Settled(user, pool, user.amount), pool) = n - PRECISION * q
  <2>1. /\ Settled(user, pool, user.amount).amount = user.amount
        /\ Settled(user, pool, user.amount).rewardDebt = q
    BY DEF Settled, Earned, Stake
  <2> QED BY <2>1 DEF OwedBy
<1> HIDE DEF n, d
<1>5. q \in Nat /\ PRECISION * q <= n
  BY <1>1, <1>2, Division
<1> HIDE DEF q
<1>6. /\ PRECISION * (q - d) = PRECISION * q - PRECISION * d /\ PRECISION * (0 - (q - d)) = PRECISION * d - PRECISION * q
      /\ PRECISION * q \in Int /\ PRECISION * d \in Int
  BY <1>1, <1>5
<1> QED BY <1>1, <1>2, <1>3, <1>4, <1>5, <1>6

\* One updated pool, for the steps of a staker.
LEMMA UpdatedPool ==
  ASSUME FairLaunchAssumption, StakesInv, NEW pid \in Pids, Update({pid})
  PROVE  LET pool == updatePool(poolInfo[pid])
         IN /\ {pid} \in SUBSET Pids /\ CanUpdate({pid}) /\ supply' \in Nat
            /\ Minted({pid}) \in Nat
            /\ Fresh({pid})[pid] = pool /\ pool \in Pool /\ pool.lpSupply = poolInfo[pid].lpSupply
            /\ poolInfo[pid].lpSupply \in Nat
PROOF
<1> DEFINE S == {pid}
<1>1. S \in SUBSET Pids /\ Update(S) /\ pid \in S
  OBVIOUS
<1>2. Fresh(S)[pid] = updatePool(poolInfo[pid])
  BY DEF Fresh
<1> HIDE DEF S
<1>3. CanUpdate(S) /\ supply' \in Nat /\ Minted(S) \in Nat
  BY <1>1, UpdateMints
<1>4. Fresh(S) \in Seq(Pool) /\ DOMAIN Fresh(S) = Pids /\ Fresh(S)[pid].lpSupply = poolInfo[pid].lpSupply
  BY <1>1, <1>3, FreshPools DEF StakesInv
<1>5. Fresh(S)[pid] \in Pool
  BY <1>4
<1>6. poolInfo[pid].lpSupply \in Nat
  BY InvFacts
<1> QED BY <1>1, <1>2, <1>3, <1>4, <1>5, <1>6 DEF S

\* The books are empty at first.
LEMMA StakesInvHolds == ASSUME FairLaunchAssumption, Init PROVE StakesInv
PROOF
<1>1. BonusInv BY BonusInvHolds
<1>2. poolInfo = <<>> /\ DOMAIN poolInfo = {} /\ Pids = {} BY DEF Init, Pids
<1>3. \A p \in 1 .. MaxPools, u \in Users : userInfo[p][u] = NoStake BY DEF Init
<1>4. TypesOK
  <2>1. SettingsOK /\ poolInfo \in Seq(Pool) /\ Len(poolInfo) <= MaxPools /\ userInfo \in [1 .. MaxPools -> [Users -> Stake]]
    BY <1>1 DEF BonusInv, GoodBooks
  <2>2. alpaca = 0 /\ supply = 0 /\ announced = 0 /\ touched = 0 /\ paidIn \in [Users -> Int] BY DEF Init
  <2> QED BY <1>2, <2>1, <2>2 DEF TypesOK
<1>5. EmptyStakes BY <1>3 DEF EmptyStakes, NoStake
<1>6. \A x : FundedOf(userInfo, DOMAIN poolInfo, x) = 0
  <2> SUFFICES ASSUME NEW x PROVE FundedOf(userInfo, DOMAIN poolInfo, x) = 0 OBVIOUS
  <2> DEFINE f == [p \in DOMAIN poolInfo |-> FundedIn(userInfo, p, x)]
  <2>1. SumFunctionOnSet(f, {}) = 0 BY SumOfNone
  <2> QED BY <1>2, <2>1 DEF FundedOf
<1>7. Backed(userInfo, poolInfo, paidIn)
  <2>1. \A x \in Users : paidIn[x] = 0 BY DEF Init
  <2> QED BY <1>2, <1>6, <2>1 DEF Backed
<1>8. PromisesKept(userInfo, poolInfo, alpaca + touched)
  <2> DEFINE f == [p \in DOMAIN poolInfo |-> OwedIn(userInfo, p, poolInfo[p])]
  <2>1. SumFunctionOnSet(f, {}) = 0 BY SumOfNone
  <2>2. OwedOf(userInfo, poolInfo) = 0 BY <1>2, <2>1 DEF OwedOf
  <2>3. alpaca + touched = 0 BY DEF Init
  <2>4. PRECISION * 0 = 0 BY DEF FairLaunchAssumption
  <2> QED BY <1>2, <2>2, <2>3, <2>4 DEF PromisesKept
<1> QED BY <1>4, <1>5, <1>7, <1>8 DEF StakesInv

------------------------------------------------------------------------------
\* What a harvest leaves in the contract.
LEMMA HarvestLeaves ==
  ASSUME FairLaunchAssumption, StakesInv, NEW pid \in Pids, NEW u \in Users, Update({pid}), harvestPays(pid, u)
  PROVE  /\ userInfo[pid][u] \in Stake
         /\ pending(userInfo[pid][u], updatePool(poolInfo[pid])) \in Int
         /\ alpaca' \in Int
         /\ alpaca' = (alpaca + Minted({pid})) - pending(userInfo[pid][u], updatePool(poolInfo[pid]))
PROOF
<1>1. alpaca' = (alpaca + Minted({pid})) - pending(userInfo[pid][u], updatePool(poolInfo[pid]))
  BY Zenon DEF harvestPays
<1>2. userInfo[pid][u] \in Stake BY InvFacts, StakeSums
<1>3. updatePool(poolInfo[pid]) \in Pool /\ Minted({pid}) \in Nat BY UpdatedPool
<1>4. alpaca \in Int BY InvFacts
<1>5. pending(userInfo[pid][u], updatePool(poolInfo[pid])) \in Int BY <1>2, <1>3, HarvestPaysOwed
<1> QED BY <1>1, <1>2, <1>3, <1>4, <1>5

\* A stake that is settled after it was paid what it could harvest gains at most one unit on that.
LEMMA SettledGains ==
  ASSUME FairLaunchAssumption, NEW pool \in Pool, NEW old \in Stake, NEW new,
         OwedBy(new, pool) \in Int, OwedBy(new, pool) >= 0, OwedBy(new, pool) < PRECISION
  PROVE  Settles(old, new, pool, 1 - pending(old, pool))
PROOF
<1> DEFINE pays == pending(old, pool)
           x == OwedBy(old, pool)
           y == OwedBy(new, pool)
<1>1. pays \in Int /\ PRECISION * pays <= x /\ x \in Int
  BY HarvestPaysOwed
<1>2. y \in Int /\ y >= 0 /\ y < PRECISION /\ PRECISION \in Nat
  BY DEF FairLaunchAssumption
<1> HIDE DEF pays, x, y
<1>3. PRECISION * (1 - pays) = PRECISION - PRECISION * pays /\ PRECISION * pays \in Int
  BY <1>1, <1>2
<1>4. y - x <= PRECISION * (1 - pays)
  BY <1>1, <1>2, <1>3
<1> QED BY <1>2, <1>4 DEF Settles, pays, x, y

\* No pool is updated.
LEMMA NothingUpdated ==
  ASSUME FairLaunchAssumption, StakesInv
  PROVE  {} \in SUBSET Pids /\ CanUpdate({}) /\ Fresh({}) = poolInfo /\ Minted({}) = 0
PROOF
<1>1. Fresh({}) = poolInfo
  <2>1. poolInfo \in Seq(Pool) BY InvFacts
  <2> QED BY <2>1 DEF Fresh, Pids
<1> DEFINE f == [p \in {} |-> alpacaReward(poolInfo[p])]
<1>2. SumFunctionOnSet(f, {}) = 0 BY SumOfNone
<1>3. Minted({}) = 0 BY <1>2 DEF Minted, SumFunction
<1> QED BY <1>1, <1>3 DEF CanUpdate

\* What the actions of a staker find.
LEMMA OldStake ==
  ASSUME FairLaunchAssumption, StakesInv, NEW pid \in Pids, NEW u \in Users
  PROVE  /\ userInfo[pid][u] \in Stake /\ userInfo[pid][u].amount \in Nat
         /\ userInfo[pid][u].fundedBy \in Users \cup {NoOne}
         /\ userInfo[pid][u].fundedBy = NoOne => userInfo[pid][u].amount = 0
         /\ userInfo[pid][u].amount = 0 => userInfo[pid][u].rewardDebt = 0
         /\ alpaca \in Int /\ touched \in Nat /\ supply \in Nat /\ PRECISION \in Nat \ {0} /\ paidIn \in [Users -> Int]
         /\ NoOne \notin Users /\ MaxStake \in Nat
         /\ poolInfo[pid] \in Pool /\ poolInfo[pid].lpSupply \in Nat
PROOF
<1>1. /\ pid \in 1 .. MaxPools /\ userInfo \in AllStakes /\ alpaca \in Int /\ touched \in Nat
      /\ poolInfo[pid] \in Pool /\ poolInfo[pid].lpSupply \in Nat
  BY InvFacts
<1>2. userInfo[pid][u] \in Stake BY <1>1 DEF AllStakes
<1> QED BY <1>1, <1>2 DEF Stake, StakesInv, TypesOK, EmptyStakes, FairLaunchAssumption

\* Harvesting keeps the books.
LEMMA HarvestKeepsStakesInv ==
  ASSUME FairLaunchAssumption, StakesInv, NEW pid \in Pids, NEW u \in Users, harvest(u, pid)
  PROVE  StakesInv'
PROOF
<1> DEFINE old == userInfo[pid][u]
           S == {pid}
           pool == updatePool(poolInfo[pid])
           new == Settled(old, pool, old.amount)
           size == poolInfo[pid].lpSupply
           funder == old.fundedBy
           m == Minted(S)
           pays == pending(old, pool)
           d == 0
           gain == (alpaca' + touched') - (alpaca + touched + m)
<1>1. /\ Update(S) /\ harvestPays(pid, u) /\ old.amount > 0
      /\ userInfo' = [userInfo EXCEPT ![pid][u] = new] /\ poolInfo' = Fresh(S)
      /\ UNCHANGED <<block, settings, totalAllocPoint, announced>> /\ paidIn' = paidIn /\ touched' = touched
  BY DEF harvest
<1>2. /\ S \in SUBSET Pids /\ CanUpdate(S) /\ supply' \in Nat /\ m \in Nat
      /\ Fresh(S)[pid] = pool /\ pool \in Pool /\ size \in Nat /\ pool.lpSupply = size
  BY <1>1, UpdatedPool
<1>3. /\ old \in Stake /\ pays \in Int /\ alpaca' \in Int /\ alpaca' = (alpaca + m) - pays
  BY <1>1, HarvestLeaves
<1>4. /\ old.amount \in Nat /\ funder \in Users /\ alpaca \in Int /\ touched \in Nat
      /\ PRECISION \in Nat \ {0} /\ paidIn \in [Users -> Int] /\ NoOne \notin Users
  BY <1>1, OldStake
<1>5. poolInfo' = Resized(Fresh(S), pid, size)
  <2> DEFINE pools == Fresh(S)
             q == [pools[pid] EXCEPT !.lpSupply = size]
  <2>1. q = pools[pid] BY <1>2 DEF Pool
  <2>2. pools = [p \in DOMAIN pools |-> pools[p]] BY DEF Fresh
  <2>3. Resized(pools, pid, size) = [pools EXCEPT ![pid] = q] BY DEF Resized
  <2> HIDE DEF pools, q
  <2>4. Resized(pools, pid, size) = pools BY <2>1, <2>2, <2>3
  <2> QED BY <1>1, <2>4 DEF pools
<1>6. userInfo' = StakeReplaced(userInfo, pid, u, new) /\ paidIn' = Paid(funder, d)
  <2>1. paidIn[funder] + 0 = paidIn[funder] BY <1>4
  <2>2. paidIn = [paidIn EXCEPT ![funder] = @ + 0] BY <1>4, <2>1
  <2> QED BY <1>1, <2>2 DEF StakeReplaced, Paid
<1> HIDE DEF old, S, pool, funder, size, m, pays
<1>7. OwesLittle(new, old, pool, old.amount)
  BY <1>2, <1>3, <1>4, SettledOwesLittle
<1>8. OwedBy(new, pool) - OwedBy(old, pool) = PRECISION * (0 - pays)
  BY <1>2, <1>3, HarvestPaysOwed DEF pays
<1> HIDE DEF new
<1>9. StakeMoves(old, new, funder, d)
  BY <1>4, <1>7 DEF OwesLittle, StakeMoves, FundedBy, funder
<1>10. 0 - pays = gain
  BY <1>1, <1>2, <1>3, <1>4
<1> HIDE DEF gain
<1>11. Settles(old, new, pool, gain)
  <2>1. OwedBy(new, pool) - OwedBy(old, pool) = PRECISION * gain /\ gain \in Int BY <1>3, <1>8, <1>10
  <2>2. PRECISION * gain \in Int BY <1>4, <2>1
  <2> QED BY <1>7, <2>1, <2>2 DEF OwesLittle, Settles
<1>12. poolInfo[pid].lpSupply + d = size /\ size \in Nat /\ touched' \in Nat
  BY <1>1, <1>2, <1>4 DEF size
<1> HIDE DEF d
<1>13. StakeStep(S, pid, u, new, funder, d)
  BY <1>1, <1>2, <1>3, <1>5, <1>6, <1>9, <1>11, <1>12 DEF StakeStep, old, gain, m
<1> QED BY <1>13, SettlingKeepsStakesInv

\* Taking a stake out in emergency keeps the books.
LEMMA EmergencyKeepsStakesInv ==
  ASSUME FairLaunchAssumption, StakesInv, NEW pid \in Pids, NEW u \in Users, emergencyWithdraw(u, pid)
  PROVE  StakesInv'
PROOF
<1> DEFINE old == userInfo[pid][u]
           S == {}
           pool == poolInfo[pid]
           new == [NoStake EXCEPT !.bonusDebt = old.bonusDebt]
           d == 0 - old.amount
           gain == (alpaca' + touched') - (alpaca + touched + Minted(S))
<1>1. /\ old.fundedBy = u /\ pool.lpSupply >= old.amount
      /\ userInfo' = [userInfo EXCEPT ![pid][u] = new]
      /\ poolInfo' = [poolInfo EXCEPT ![pid].lpSupply = @ - old.amount]
      /\ paidIn' = [paidIn EXCEPT ![u] = @ - old.amount]
      /\ UNCHANGED <<block, settings, totalAllocPoint, announced, alpaca, supply, touched>>
  BY DEF emergencyWithdraw, settings
<1>2. S \in SUBSET Pids /\ CanUpdate(S) /\ Fresh(S) = poolInfo /\ Minted(S) = 0
  BY NothingUpdated
<1>3. /\ old \in Stake /\ old.amount \in Nat /\ alpaca \in Int /\ touched \in Nat /\ supply \in Nat
      /\ PRECISION \in Nat \ {0} /\ paidIn \in [Users -> Int] /\ NoOne \notin Users
      /\ pool \in Pool /\ pool.lpSupply \in Nat
  BY OldStake
<1>4. d \in Int /\ pool.lpSupply + d = pool.lpSupply - old.amount /\ pool.lpSupply + d \in Nat
      /\ paidIn[u] + d = paidIn[u] - old.amount
  BY <1>1, <1>3
<1>5. /\ poolInfo' = Resized(Fresh(S), pid, pool.lpSupply + d)
      /\ userInfo' = StakeReplaced(userInfo, pid, u, new) /\ paidIn' = Paid(u, d)
  BY <1>1, <1>2, <1>4 DEF Resized, StakeReplaced, Paid
<1>6. new \in Stake /\ new.amount = 0 /\ new.rewardDebt = 0 /\ new.fundedBy = NoOne
  BY <1>3 DEF Stake, NoStake
<1> HIDE DEF new
<1>7. StakeMoves(old, new, u, d)
  BY <1>1, <1>3, <1>4, <1>6 DEF StakeMoves, FundedBy
<1>8. OwedBy(new, pool) = 0
  <2>1. pool.accAlpacaPerShare \in Nat BY <1>3 DEF Pool
  <2> DEFINE acc == pool.accAlpacaPerShare
  <2>2. OwedBy(new, pool) = 0 * acc - PRECISION * 0 BY <1>6 DEF OwedBy
  <2>3. 0 * acc = 0 /\ PRECISION * 0 = 0 BY <1>3, <2>1
  <2> QED BY <2>2, <2>3
<1>9. OwedBy(old, pool) \in Int /\ OwedBy(old, pool) >= 0
  <2>1. OwedBy(old, pool) \in Int BY <1>3, HarvestPaysOwed
  <2> QED BY <2>1 DEF StakesInv, PromisesKept, Pids
<1>10. gain = 0
  BY <1>1, <1>2, <1>3
<1> HIDE DEF gain, old, pool, d
<1>11. Settles(old, new, pool, gain)
  <2>1. PRECISION * 0 = 0 BY <1>3
  <2> QED BY <1>8, <1>9, <1>10, <2>1 DEF Settles
<1>12. StakeStep(S, pid, u, new, u, d)
  <2>1. pool = Fresh(S)[pid] BY <1>2 DEF pool
  <2>2. Settles(old, new, Fresh(S)[pid], gain) BY <1>11, <2>1
  <2> HIDE DEF S
  <2> QED BY <1>1, <1>2, <1>3, <1>4, <1>5, <1>7, <2>2 DEF StakeStep, old, gain, pool
<1> QED BY <1>12, SettlingKeepsStakesInv

\* Depositing keeps the books.
LEMMA DepositKeepsStakesInv ==
  ASSUME FairLaunchAssumption, StakesInv, NEW pid \in Pids, NEW sender \in Users, NEW _for \in Users,
         NEW amount \in Nat, deposit(sender, _for, pid, amount)
  PROVE  StakesInv'
PROOF
<1> DEFINE old == userInfo[pid][_for]
           funded == [old EXCEPT !.fundedBy = IF @ = NoOne THEN sender ELSE @]
           S == {pid}
           pool == updatePool(poolInfo[pid])
           total == old.amount + amount
           new == Settled(funded, pool, total)
           size == poolInfo[pid].lpSupply
           m == Minted(S)
           pays == pending(old, pool)
           gain == (alpaca' + touched') - (alpaca + touched + m)
<1>1. /\ Update(S) /\ ~badSof(old, sender)
      /\ IF old.amount > 0 THEN harvestPays(pid, _for) ELSE alpaca' = alpaca + m
      /\ userInfo' = [userInfo EXCEPT ![pid][_for] = new]
      /\ poolInfo' = [Fresh(S) EXCEPT ![pid].lpSupply = @ + amount]
      /\ paidIn' = [paidIn EXCEPT ![sender] = @ + amount] /\ touched' = touched + 1
      /\ UNCHANGED <<block, settings, totalAllocPoint, announced>>
  BY DEF deposit
<1>2. /\ S \in SUBSET Pids /\ CanUpdate(S) /\ supply' \in Nat /\ m \in Nat
      /\ Fresh(S)[pid] = pool /\ pool \in Pool /\ size \in Nat /\ pool.lpSupply = size
  BY <1>1, UpdatedPool
<1>3. /\ old \in Stake /\ old.amount \in Nat /\ old.fundedBy \in Users \cup {NoOne}
      /\ old.fundedBy = NoOne => old.amount = 0
      /\ old.amount = 0 => old.rewardDebt = 0
      /\ alpaca \in Int /\ touched \in Nat /\ PRECISION \in Nat \ {0} /\ NoOne \notin Users
  BY OldStake
<1>4. funded \in Stake /\ funded.fundedBy = sender /\ total \in Nat
  BY <1>1, <1>3 DEF Stake, badSof
<1>5. /\ poolInfo' = Resized(Fresh(S), pid, size + amount)
      /\ userInfo' = StakeReplaced(userInfo, pid, _for, new) /\ paidIn' = Paid(sender, amount)
  BY <1>1, <1>2 DEF Resized, StakeReplaced, Paid
<1>6. old.fundedBy = NoOne \/ old.fundedBy = sender
  BY <1>1 DEF badSof
<1>7. old.amount > 0 => pays \in Int /\ alpaca' \in Int /\ alpaca' = (alpaca + m) - pays
  BY <1>1, HarvestLeaves
<1>8. old.amount = 0 => alpaca' \in Int /\ alpaca' = alpaca + m
  BY <1>1, <1>2, <1>3
<1> HIDE DEF funded, pool
<1>9. OwesLittle(new, funded, pool, total)
  BY <1>2, <1>4, SettledOwesLittle
<1> HIDE DEF new
<1>10. StakeMoves(old, new, sender, amount)
  BY <1>3, <1>4, <1>6, <1>9 DEF OwesLittle, StakeMoves, FundedBy
<1>11. Settles(old, new, pool, gain)
  <2>1. new \in Stake /\ OwedBy(new, pool) \in Int /\ OwedBy(new, pool) >= 0 /\ OwedBy(new, pool) < PRECISION
    BY <1>9 DEF OwesLittle
  <2>2. CASE old.amount > 0
    <3>1. Settles(old, new, pool, 1 - pending(old, pool)) BY <1>2, <1>3, <2>1, SettledGains
    <3>2. pays \in Int /\ alpaca' = (alpaca + m) - pays /\ touched' = touched + 1 BY <1>1, <1>7, <2>2
    <3> HIDE DEF pays, m
    <3>3. 1 - pays = gain BY <1>2, <1>3, <3>2
    <3> QED BY <3>1, <3>3 DEF pays
  <2>3. CASE old.amount = 0
    <3>1. OwedBy(old, pool) = 0
      <4> DEFINE acc == pool.accAlpacaPerShare
      <4>1. acc \in Nat BY <1>2 DEF Pool
      <4>2. OwedBy(old, pool) = 0 * acc - PRECISION * 0 BY <1>3, <2>3 DEF OwedBy
      <4> HIDE DEF acc
      <4>3. 0 * acc = 0 /\ PRECISION * 0 = 0 BY <1>3, <4>1
      <4> QED BY <4>2, <4>3
    <3>2. gain = 1
      <4>1. alpaca' = alpaca + m /\ touched' = touched + 1 /\ m \in Nat BY <1>1, <1>2, <1>8, <2>3
      <4> HIDE DEF m
      <4> QED BY <1>3, <4>1
    <3>3. PRECISION * 1 = PRECISION BY <1>3
    <3> HIDE DEF gain
    <3> QED BY <1>3, <2>1, <3>1, <3>2, <3>3 DEF Settles
  <2> QED BY <1>3, <2>2, <2>3
<1> HIDE DEF gain, total
<1>12. size + amount \in Nat /\ touched' \in Nat /\ alpaca' \in Int
  BY <1>1, <1>2, <1>3, <1>7, <1>8
<1> HIDE DEF old, pays
<1>13. StakeStep(S, pid, _for, new, sender, amount)
  <2>1. Settles(old, new, Fresh(S)[pid], gain) BY <1>2, <1>11
  <2> HIDE DEF S
  <2> QED BY <1>1, <1>2, <1>5, <1>10, <1>12, <2>1 DEF StakeStep, old, gain
<1> QED BY <1>13, SettlingKeepsStakesInv

\* Withdrawing keeps the books.
LEMMA WithdrawKeepsStakesInv ==
  ASSUME FairLaunchAssumption, StakesInv, NEW pid \in Pids, NEW sender \in Users, NEW _for \in Users,
         NEW amount \in Nat, withdraw(sender, _for, pid, amount)
  PROVE  StakesInv'
PROOF
<1> DEFINE old == userInfo[pid][_for]
           S == {pid}
           pool == updatePool(poolInfo[pid])
           total == old.amount - amount
           left == Settled(old, pool, total)
           new == [left EXCEPT !.fundedBy = IF left.amount = 0 THEN NoOne ELSE @]
           size == poolInfo[pid].lpSupply
           m == Minted(S)
           pays == pending(old, pool)
           d == 0 - amount
           gain == (alpaca' + touched') - (alpaca + touched + m)
<1>1. /\ Update(S) /\ harvestPays(pid, _for)
      /\ old.fundedBy = sender /\ old.amount >= amount /\ size >= amount
      /\ userInfo' = [userInfo EXCEPT ![pid][_for] = new]
      /\ poolInfo' = [Fresh(S) EXCEPT ![pid].lpSupply = @ - amount]
      /\ paidIn' = [paidIn EXCEPT ![sender] = @ - amount] /\ touched' = touched + 1
      /\ UNCHANGED <<block, settings, totalAllocPoint, announced>>
  BY DEF withdraw
<1>2. /\ S \in SUBSET Pids /\ CanUpdate(S) /\ supply' \in Nat /\ m \in Nat
      /\ Fresh(S)[pid] = pool /\ pool \in Pool /\ size \in Nat /\ pool.lpSupply = size
  BY <1>1, UpdatedPool
<1>3. /\ old \in Stake /\ old.amount \in Nat /\ paidIn \in [Users -> Int]
      /\ alpaca \in Int /\ touched \in Nat /\ PRECISION \in Nat \ {0} /\ NoOne \notin Users
  BY OldStake
<1>4. total \in Nat /\ d \in Int /\ size + d = size - amount /\ size + d \in Nat /\ paidIn[sender] + d = paidIn[sender] - amount
  BY <1>1, <1>2, <1>3
<1>5. /\ poolInfo' = Resized(Fresh(S), pid, size + d)
      /\ userInfo' = StakeReplaced(userInfo, pid, _for, new) /\ paidIn' = Paid(sender, d)
  <2>1. poolInfo' = [Fresh(S) EXCEPT ![pid].lpSupply = size - amount] BY <1>1, <1>2
  <2> QED BY <1>1, <1>4, <2>1 DEF Resized, StakeReplaced, Paid
<1>6. pays \in Int /\ alpaca' \in Int /\ alpaca' = (alpaca + m) - pays
  BY <1>1, HarvestLeaves
<1> HIDE DEF pool, total
<1>7. OwesLittle(left, old, pool, total)
  BY <1>2, <1>3, <1>4, SettledOwesLittle
<1> HIDE DEF left
<1>8. /\ new \in Stake /\ new.amount = total /\ new.fundedBy = IF total = 0 THEN NoOne ELSE sender
      /\ total = 0 => new.rewardDebt = 0
      /\ OwedBy(new, pool) = OwedBy(left, pool)
  BY <1>1, <1>7 DEF OwesLittle, Stake, OwedBy
<1> HIDE DEF new
<1>9. StakeMoves(old, new, sender, d)
  <2>1. new.amount = old.amount + d BY <1>3, <1>8 DEF total
  <2>2. FundedBy(new, sender) = new.amount /\ FundedBy(old, sender) = old.amount BY <1>1, <1>3, <1>8 DEF FundedBy
  <2>3. \A x \in Users \ {sender} : FundedBy(new, x) = 0 /\ FundedBy(old, x) = 0 BY <1>1, <1>3, <1>8 DEF FundedBy
  <2> QED BY <1>4, <1>8, <2>1, <2>2, <2>3 DEF StakeMoves
<1>10. Settles(old, new, pool, gain)
  <2>1. OwedBy(new, pool) \in Int /\ OwedBy(new, pool) >= 0 /\ OwedBy(new, pool) < PRECISION
    BY <1>7, <1>8 DEF OwesLittle
  <2>2. Settles(old, new, pool, 1 - pending(old, pool)) BY <1>2, <1>3, <2>1, SettledGains
  <2>3. touched' = touched + 1 BY <1>1
  <2> HIDE DEF pays, m
  <2>4. 1 - pays = gain BY <1>2, <1>3, <1>6, <2>3
  <2> QED BY <2>2, <2>4 DEF pays
<1> HIDE DEF gain
<1>11. touched' \in Nat
  BY <1>1, <1>3
<1> HIDE DEF old, pays, d
<1>12. StakeStep(S, pid, _for, new, sender, d)
  <2>1. Settles(old, new, Fresh(S)[pid], gain) BY <1>2, <1>10
  <2> HIDE DEF S
  <2> QED BY <1>1, <1>2, <1>4, <1>5, <1>6, <1>9, <1>11, <2>1 DEF StakeStep, old, gain
<1> QED BY <1>12, SettlingKeepsStakesInv
\* Every step of FairLaunch keeps stakes backed and rewards covered.
LEMMA StakesInvIsKept == ASSUME FairLaunchAssumption, StakesInv, [Next]_vars PROVE StakesInv'
PROOF
<1>0. /\ SettingsOK /\ TypesOK /\ EmptyStakes /\ userInfo \in AllStakes /\ poolInfo \in Seq(Pool)
      /\ Pids = DOMAIN poolInfo /\ Pids \subseteq 1 .. MaxPools /\ Len(poolInfo) <= MaxPools
      /\ \A p \in Pids : poolInfo[p] \in Pool /\ poolInfo[p].lpSupply \in Nat /\ poolInfo[p].lastRewardBlock <= block
      /\ alpaca \in Int /\ touched \in Nat /\ supply \in Nat /\ MaxStake \in Nat
      /\ block \in Nat /\ totalAllocPoint \in Nat /\ NoOne \notin Users
  BY InvFacts DEF StakesInv, TypesOK, SettingsOK, Pids, FairLaunchAssumption
<1>1. ASSUME NextBlock PROVE StakesInv'
  <2>1. announced' \in Nat
    <3>1. alpacaPerBlock \in Nat /\ MultiplierAt(block + 1) \in Nat BY <1>0 DEF MultiplierAt, SettingsOK
    <3>2. alpacaPerBlock * MultiplierAt(block + 1) \in Nat BY <3>1, Products
    <3> QED BY <1>1, <3>2 DEF NextBlock, StakesInv, TypesOK
  <2>2. block' = block + 1 /\ block' \in Nat BY <1>0, <1>1 DEF NextBlock
  <2>3. \A p \in Pids : poolInfo[p].lastRewardBlock <= block'
    <3>1. ASSUME NEW p \in Pids PROVE poolInfo[p].lastRewardBlock <= block'
      <4>1. poolInfo[p] \in Pool /\ poolInfo[p].lastRewardBlock <= block BY <1>0
      <4>2. poolInfo[p].lastRewardBlock \in Nat BY <4>1 DEF Pool
      <4> QED BY <1>0, <2>2, <4>1, <4>2
    <3> QED BY <3>1
  <2>4. TypesOK' BY <1>0, <1>1, <2>1, <2>2, <2>3 DEF NextBlock, settings, stakes, TypesOK, SettingsOK, Pids
  <2> QED BY <1>1, <2>4 DEF NextBlock, stakes, StakesInv, EmptyStakes, Pids
<1>2. ASSUME setAlpacaPerBlock PROVE StakesInv'
  <2>1. TypesOK' BY <1>0, <1>2 DEF setAlpacaPerBlock, stakes, TypesOK, SettingsOK, Pids, FairLaunchAssumption
  <2> QED BY <1>2, <2>1 DEF setAlpacaPerBlock, stakes, StakesInv, EmptyStakes, Pids
<1>3. ASSUME setBonus PROVE StakesInv'
  <2>1. bonus' \in [multiplier : Nat, endBlock : Nat] BY <1>3 DEF setBonus, FairLaunchAssumption
  <2>2. TypesOK' BY <1>0, <1>3, <2>1 DEF setBonus, stakes, TypesOK, SettingsOK, Pids
  <2> QED BY <1>3, <2>2 DEF setBonus, stakes, StakesInv, EmptyStakes, Pids
<1>4. ASSUME addPool PROVE StakesInv'
  <2>1. PICK allocPoint \in AllocPoints, withUpdate \in BOOLEAN :
          LET S == IF withUpdate THEN Pids ELSE {}
              pool == [allocPoint |-> allocPoint, lastRewardBlock |-> block, lpSupply |-> 0,
                       accAlpacaPerShare |-> 0, accAlpacaPerShareTilBonusEnd |-> 0]
          IN /\ Update(S) /\ alpaca' = alpaca + Minted(S)
             /\ totalAllocPoint' = totalAllocPoint + allocPoint
             /\ poolInfo' = Append(Fresh(S), pool)
    BY <1>4 DEF addPool
  <2> DEFINE S == IF withUpdate THEN Pids ELSE {}
             pool == [allocPoint |-> allocPoint, lastRewardBlock |-> block, lpSupply |-> 0,
                      accAlpacaPerShare |-> 0, accAlpacaPerShareTilBonusEnd |-> 0]
             pools == Fresh(S)
             qools == Append(pools, pool)
  <2>2. allocPoint \in Nat BY DEF FairLaunchAssumption
  <2>3. pool \in Pool /\ pool.lastRewardBlock = block BY <1>0, <2>2 DEF Pool
  <2>4. /\ S \in SUBSET Pids /\ Update(S) /\ alpaca' = alpaca + Minted(S) /\ poolInfo' = qools
        /\ totalAllocPoint' = totalAllocPoint + allocPoint
    BY <2>1
  <2> HIDE DEF S, pool
  <2>5. CanUpdate(S) /\ supply' \in Nat BY <2>4, UpdateMints
  <2>6. /\ pools \in Seq(Pool) /\ DOMAIN pools = Pids /\ Len(pools) = Len(poolInfo)
        /\ \A p \in Pids : pools[p].lpSupply = poolInfo[p].lpSupply /\ pools[p].lastRewardBlock <= block
    BY <1>0, <2>4, <2>5, FreshPools
  <2> HIDE DEF pools
  <2>7. /\ qools \in Seq(Pool) /\ Len(qools) <= MaxPools /\ Pids \subseteq DOMAIN qools
        /\ \A p \in Pids : qools[p] = pools[p]
        /\ \A p \in DOMAIN qools : p \in Pids \/ qools[p] = pool
    <3>1. Len(poolInfo) < MaxPools /\ Len(poolInfo) \in Nat /\ MaxPools \in Nat BY <1>0, <1>4 DEF addPool, FairLaunchAssumption
    <3>2. qools \in Seq(Pool) /\ Len(qools) = Len(pools) + 1 BY <2>3, <2>6
    <3>3. Pids = 1 .. Len(pools) /\ DOMAIN qools = 1 .. Len(pools) + 1 BY <2>6, <3>2
    <3>4. \A p \in 1 .. Len(pools) + 1 : qools[p] = IF p <= Len(pools) THEN pools[p] ELSE pool BY <2>3, <2>6
    <3> QED BY <2>6, <3>1, <3>2, <3>3, <3>4
  <2> HIDE DEF qools
  <2>8. \A p \in DOMAIN qools : qools[p].lastRewardBlock <= block BY <1>0, <2>3, <2>6, <2>7
  <2>9. \A p \in Pids : /\ qools[p].accAlpacaPerShare = Fresh(S)[p].accAlpacaPerShare
                        /\ poolInfo[p].lpSupply <= qools[p].lpSupply
    BY <1>0, <2>6, <2>7 DEF pools
  <2>10. /\ userInfo' = userInfo /\ paidIn' = paidIn /\ touched' = touched /\ announced' = announced
         /\ block' = block /\ bonus' = bonus /\ alpacaPerBlock' = alpacaPerBlock /\ totalAllocPoint' \in Nat
    BY <1>0, <1>4, <2>2, <2>4 DEF addPool, settings, stakes
  <2> QED BY <2>4, <2>5, <2>7, <2>8, <2>9, <2>10, PoolsKeepInv
<1>5. ASSUME NEW pid \in Pids, setPool(pid) PROVE StakesInv'
  <2>1. PICK allocPoint \in AllocPoints :
          /\ totalAllocPoint' = totalAllocPoint - poolInfo[pid].allocPoint + allocPoint
          /\ poolInfo' = [Fresh(Pids) EXCEPT ![pid].allocPoint = allocPoint]
    BY <1>5 DEF setPool
  <2> DEFINE pools == Fresh(Pids)
             q == [pools[pid] EXCEPT !.allocPoint = allocPoint]
             qools == [pools EXCEPT ![pid] = q]
  <2>2. allocPoint \in Nat /\ totalAllocPoint' \in Nat
    <3>1. allocPoint \in Nat BY DEF FairLaunchAssumption
    <3>2. poolInfo[pid].allocPoint \in Nat /\ totalAllocPoint >= poolInfo[pid].allocPoint
      <4>1. poolInfo[pid] \in Pool BY <1>0
      <4> QED BY <1>5, <4>1 DEF Pool, setPool
    <3> DEFINE points == poolInfo[pid].allocPoint
    <3>3. points \in Nat /\ totalAllocPoint >= points /\ totalAllocPoint' = totalAllocPoint - points + allocPoint
      BY <2>1, <3>2
    <3> HIDE DEF points
    <3> QED BY <1>0, <3>1, <3>3
  <2>3. Pids \in SUBSET Pids /\ Update(Pids) /\ alpaca' = alpaca + Minted(Pids) BY <1>5 DEF setPool
  <2>4. CanUpdate(Pids) /\ supply' \in Nat BY <2>3, UpdateMints
  <2>5. /\ pools \in Seq(Pool) /\ DOMAIN pools = Pids /\ Len(pools) = Len(poolInfo)
        /\ \A p \in Pids : pools[p].lpSupply = poolInfo[p].lpSupply /\ pools[p].lastRewardBlock <= block
    BY <1>0, <2>3, <2>4, FreshPools
  <2>6. poolInfo' = qools BY <2>1
  <2> HIDE DEF pools
  <2>7. /\ q \in Pool /\ q.lpSupply = pools[pid].lpSupply /\ q.lastRewardBlock = pools[pid].lastRewardBlock
        /\ q.accAlpacaPerShare = pools[pid].accAlpacaPerShare
    <3>1. pools[pid] \in Pool BY <2>5
    <3> QED BY <2>2, <3>1 DEF Pool
  <2> HIDE DEF q
  <2>8. /\ qools \in Seq(Pool) /\ Len(qools) <= MaxPools /\ DOMAIN qools = Pids
        /\ \A p \in Pids : /\ qools[p].lpSupply = pools[p].lpSupply
                           /\ qools[p].lastRewardBlock = pools[p].lastRewardBlock
                           /\ qools[p].accAlpacaPerShare = pools[p].accAlpacaPerShare
    BY <1>0, <2>5, <2>7
  <2> HIDE DEF qools
  <2>9. /\ Pids \subseteq DOMAIN qools /\ \A p \in DOMAIN qools : qools[p].lastRewardBlock <= block
        /\ \A p \in Pids : /\ qools[p].accAlpacaPerShare = Fresh(Pids)[p].accAlpacaPerShare
                           /\ poolInfo[p].lpSupply <= qools[p].lpSupply
    BY <1>0, <2>5, <2>8 DEF pools
  <2>10. /\ userInfo' = userInfo /\ paidIn' = paidIn /\ touched' = touched /\ announced' = announced
         /\ block' = block /\ bonus' = bonus /\ alpacaPerBlock' = alpacaPerBlock
    BY <1>5 DEF setPool, settings, stakes
  <2> QED BY <2>2, <2>3, <2>4, <2>6, <2>8, <2>9, <2>10, PoolsKeepInv
<1>6. ASSUME NEW pid \in Pids, touchPool(pid) PROVE StakesInv'
  <2> DEFINE S == {pid}
             qools == Fresh(S)
  <2>1. S \in SUBSET Pids /\ Update(S) /\ alpaca' = alpaca + Minted(S) /\ poolInfo' = qools BY <1>6 DEF touchPool
  <2> HIDE DEF S
  <2>2. CanUpdate(S) /\ supply' \in Nat BY <2>1, UpdateMints
  <2>3. /\ qools \in Seq(Pool) /\ DOMAIN qools = Pids /\ Len(qools) = Len(poolInfo)
        /\ \A p \in Pids : qools[p].lpSupply = poolInfo[p].lpSupply /\ qools[p].lastRewardBlock <= block
    BY <1>0, <2>1, <2>2, FreshPools
  <2>4. \A p \in Pids : /\ qools[p].accAlpacaPerShare = Fresh(S)[p].accAlpacaPerShare
                        /\ poolInfo[p].lpSupply <= qools[p].lpSupply
    BY <1>0, <2>3
  <2> HIDE DEF qools
  <2>5. Len(qools) <= MaxPools /\ Pids \subseteq DOMAIN qools /\ \A p \in DOMAIN qools : qools[p].lastRewardBlock <= block
    BY <1>0, <2>3
  <2>6. /\ userInfo' = userInfo /\ paidIn' = paidIn /\ touched' = touched /\ announced' = announced
        /\ block' = block /\ bonus' = bonus /\ alpacaPerBlock' = alpacaPerBlock /\ totalAllocPoint' \in Nat
    BY <1>0, <1>6 DEF touchPool, settings, stakes
  <2> QED BY <2>1, <2>2, <2>3, <2>4, <2>5, <2>6, PoolsKeepInv
<1>7. ASSUME NEW pid \in Pids, donate(pid) PROVE StakesInv'
  <2> DEFINE S == {}
             q == [poolInfo[pid] EXCEPT !.lpSupply = @ + 1]
             qools == [poolInfo EXCEPT ![pid] = q]
  <2>1. poolInfo' = qools BY <1>7 DEF donate
  <2>2. /\ q \in Pool /\ q.lpSupply = poolInfo[pid].lpSupply + 1 /\ q.lastRewardBlock = poolInfo[pid].lastRewardBlock
        /\ q.accAlpacaPerShare = poolInfo[pid].accAlpacaPerShare
    <3>1. poolInfo[pid] \in Pool /\ poolInfo[pid].lpSupply + 1 \in Nat BY <1>0
    <3> QED BY <3>1 DEF Pool
  <2> HIDE DEF q
  <2>3. /\ qools \in Seq(Pool) /\ Len(qools) <= MaxPools /\ DOMAIN qools = Pids
        /\ \A p \in Pids : /\ qools[p].accAlpacaPerShare = poolInfo[p].accAlpacaPerShare
                           /\ poolInfo[p].lpSupply <= qools[p].lpSupply
                           /\ qools[p].lastRewardBlock = poolInfo[p].lastRewardBlock
    <3>1. /\ poolInfo \in Seq(Pool) /\ Len(poolInfo) <= MaxPools /\ pid \in Pids /\ Pids = DOMAIN poolInfo
          /\ \A p \in Pids : poolInfo[p].lpSupply \in Nat
      BY <1>0, <1>7 DEF Pids
    <3>2. qools = [poolInfo EXCEPT ![pid] = q] OBVIOUS
    <3> HIDE DEF qools
    <3>3. /\ qools \in Seq(Pool) /\ Len(qools) = Len(poolInfo) /\ DOMAIN qools = Pids
          /\ \A p \in Pids : qools[p] = IF p = pid THEN q ELSE poolInfo[p]
      BY <2>2, <3>1, <3>2, OnePoolReplaced
    <3>4. q.lpSupply >= poolInfo[pid].lpSupply BY <2>2, <3>1
    <3>5. \A p \in Pids : poolInfo[p].lpSupply <= qools[p].lpSupply
      <4>1. TAKE p \in Pids
      <4>2. CASE p = pid BY <3>3, <3>4, <4>2
      <4>3. CASE p # pid BY <3>1, <3>3, <4>3
      <4> QED BY <4>2, <4>3
    <3>6. \A p \in Pids : /\ qools[p].accAlpacaPerShare = poolInfo[p].accAlpacaPerShare
                          /\ qools[p].lastRewardBlock = poolInfo[p].lastRewardBlock
      BY <2>2, <3>3
    <3> QED BY <3>1, <3>3, <3>5, <3>6
  <2> HIDE DEF qools
  <2>4. S \in SUBSET Pids /\ CanUpdate(S) /\ Fresh(S) = poolInfo /\ alpaca' = alpaca + Minted(S)
    <3>1. alpaca' = alpaca BY <1>7 DEF donate
    <3> QED BY <1>0, <3>1, NothingUpdated
  <2> HIDE DEF S
  <2>5. /\ Pids \subseteq DOMAIN qools /\ \A p \in DOMAIN qools : qools[p].lastRewardBlock <= block
        /\ \A p \in Pids : /\ qools[p].accAlpacaPerShare = Fresh(S)[p].accAlpacaPerShare
                           /\ poolInfo[p].lpSupply <= qools[p].lpSupply
    BY <1>0, <2>3, <2>4
  <2>6. /\ userInfo' = userInfo /\ paidIn' = paidIn /\ touched' = touched /\ announced' = announced
        /\ block' = block /\ bonus' = bonus /\ alpacaPerBlock' = alpacaPerBlock /\ totalAllocPoint' \in Nat /\ supply' \in Nat
    BY <1>0, <1>7 DEF donate, settings, stakes
  <2> QED BY <2>1, <2>3, <2>4, <2>5, <2>6, PoolsKeepInv
<1>8. ASSUME NEW pid \in Pids, NEW u \in Users, harvest(u, pid) PROVE StakesInv'
  BY <1>8, HarvestKeepsStakesInv
<1>9. ASSUME NEW pid \in Pids, NEW u \in Users, emergencyWithdraw(u, pid) PROVE StakesInv'
  BY <1>9, EmergencyKeepsStakesInv
<1>10. ASSUME NEW pid \in Pids, NEW u \in Users, NEW _for \in Users, NEW amount \in 0 .. MaxStake,
              deposit(u, _for, pid, amount)
       PROVE  StakesInv'
  <2>1. amount \in Nat BY <1>0
  <2> QED BY <1>10, <2>1, DepositKeepsStakesInv
<1>11. ASSUME NEW pid \in Pids, NEW u \in Users, NEW _for \in Users, NEW amount \in 0 .. MaxStake,
              withdraw(u, _for, pid, amount)
       PROVE  StakesInv'
  <2>1. amount \in Nat BY <1>0
  <2> QED BY <1>11, <2>1, WithdrawKeepsStakesInv
<1>12. CASE UNCHANGED vars
  BY <1>12 DEF vars, StakesInv, TypesOK, SettingsOK, EmptyStakes, Pids
<1> QED BY <1>1, <1>2, <1>3, <1>4, <1>5, <1>6, <1>7, <1>8, <1>9, <1>10, <1>11, <1>12 DEF Next

\* Whatever the owner does and in whatever order stakers come and go, what each funder has put in and not
\* taken out is staked in their name, and all that is staked is in the contract.
THEOREM StakesStayBacked == Spec => []StakesBacked
PROOF
<1> USE FairLaunchAssumption
<1>1. Init => StakesInv BY StakesInvHolds
<1>2. StakesInv /\ [Next]_vars => StakesInv' BY StakesInvIsKept
<1>3. StakesInv => StakesBacked BY BackedBySums DEF StakesInv
<1> QED BY <1>1, <1>2, <1>3, PTL DEF Spec

\* All that stakers can harvest at once is in the contract, but for less than one unit of rounding for each
\* change of a stake: under any owner, any rates and any order of deposits, withdrawals and updates.
THEOREM RewardsStayCovered == Spec => []RewardsCovered
PROOF
<1> USE FairLaunchAssumption
<1>1. Init => StakesInv BY StakesInvHolds
<1>2. StakesInv /\ [Next]_vars => StakesInv' BY StakesInvIsKept
<1>3. StakesInv => RewardsCovered
  <2> SUFFICES ASSUME StakesInv PROVE RewardsCovered OBVIOUS
  <2>1. PromisesKept(userInfo, poolInfo, alpaca + touched) BY DEF StakesInv
  <2> QED BY <2>1, InvFacts, PromisesCoverRewards
<1> QED BY <1>1, <1>2, <1>3, PTL DEF Spec

------------------------------------------------------------------------------
(* What a careful owner's pools may still mint. *)

MultiplierOf(b, bon) == IF b <= bon.endBlock THEN bon.multiplier ELSE 1
Multiplied(from, to, bon) ==
  IF to <= bon.endBlock THEN (to - from) * bon.multiplier
  ELSE IF from >= bon.endBlock THEN to - from
  ELSE (bon.endBlock - from) * bon.multiplier + (to - bon.endBlock)
Due(pool, b, bon, rate) == (Multiplied(pool.lastRewardBlock, b, bon) * rate) * pool.allocPoint
DueIn(pools, b, bon, rate) == SumFunctionOnSet([p \in DOMAIN pools |-> Due(pools[p], b, bon, rate)], DOMAIN pools)
PointsIn(pools) == SumFunctionOnSet([p \in DOMAIN pools |-> pools[p].allocPoint], DOMAIN pools)

\* The points add up, and what all pools may still mint has been announced and not been minted.
Sparing(pools, b, bon, rate, total, slack) ==
  /\ total = PointsIn(pools)
  /\ slack >= 0 /\ 11 * DueIn(pools, b, bon, rate) <= total * slack
Slack == 11 * announced - 10 * supply
MintInv == StakesInv /\ Sparing(poolInfo, block, bonus, alpacaPerBlock, totalAllocPoint, Slack)

\* The pools of a state.
PoolsAt(pools, b) ==
  /\ DOMAIN pools \in SUBSET (1 .. MaxPools)
  /\ \A p \in DOMAIN pools : pools[p] \in Pool /\ pools[p].lastRewardBlock <= b
Bonuses == [multiplier : Nat, endBlock : Nat]

\* Each block adds its multiplier, and no block none.
LEMMA MultipliersAdd ==
  ASSUME NEW b \in Nat, NEW from \in Nat, from <= b, NEW bon \in Bonuses
  PROVE  /\ Multiplied(from, b, bon) \in Nat /\ MultiplierOf(b + 1, bon) \in Nat
         /\ Multiplied(from, b + 1, bon) = Multiplied(from, b, bon) + MultiplierOf(b + 1, bon)
         /\ from = b => Multiplied(from, b, bon) = 0
PROOF
<1> DEFINE e == bon.endBlock
           m == bon.multiplier
<1>1. e \in Nat /\ m \in Nat BY DEF Bonuses
<1>2. /\ Multiplied(from, b, bon) = IF b <= e THEN (b - from) * m ELSE IF from >= e THEN b - from ELSE (e - from) * m + (b - e)
      /\ Multiplied(from, b + 1, bon) =
           IF b + 1 <= e THEN ((b + 1) - from) * m
           ELSE IF from >= e THEN (b + 1) - from ELSE (e - from) * m + ((b + 1) - e)
  BY Zenon DEF Multiplied
<1>3. MultiplierOf(b + 1, bon) = IF b + 1 <= e THEN m ELSE 1
  BY DEF MultiplierOf
<1> HIDE DEF e, m
<1> DEFINE x == (b - from) * m
           y == (e - from) * m
<1>4. b - from \in Nat /\ x \in Nat /\ ((b + 1) - from) * m = x + m
  <2>1. b - from \in Nat OBVIOUS
  <2> DEFINE k == b - from
  <2>2. (b + 1) - from = k + 1 OBVIOUS
  <2>3. k \in Nat BY <2>1
  <2> HIDE DEF k
  <2>4. k * m \in Nat /\ (k + 1) * m = k * m + m BY <1>1, <2>3
  <2> QED BY <2>1, <2>2, <2>4 DEF k
<1>5. from < e => y \in Nat
  <2> SUFFICES ASSUME from < e PROVE y \in Nat OBVIOUS
  <2>1. e - from \in Nat BY <1>1
  <2> QED BY <1>1, <2>1
<1>6. e = b => y = x
  OBVIOUS
<1>7. from = b => x = 0
  <2> SUFFICES ASSUME from = b PROVE x = 0 OBVIOUS
  <2>1. b - from = 0 OBVIOUS
  <2>2. 0 * m = 0 BY <1>1
  <2> QED BY <2>1, <2>2
<1>8. /\ Multiplied(from, b, bon) = IF b <= e THEN x ELSE IF from >= e THEN b - from ELSE y + (b - e)
      /\ Multiplied(from, b + 1, bon) = IF b + 1 <= e THEN x + m ELSE IF from >= e THEN (b + 1) - from ELSE y + ((b + 1) - e)
  BY <1>2, <1>4
<1> HIDE DEF x, y
<1>9. CASE b + 1 <= e BY <1>1, <1>3, <1>4, <1>7, <1>8, <1>9
<1>10. CASE e = b BY <1>1, <1>3, <1>4, <1>5, <1>6, <1>7, <1>8, <1>10
<1>11. CASE e < b BY <1>1, <1>3, <1>5, <1>8, <1>11
<1> QED BY <1>1, <1>9, <1>10, <1>11

\* What a pool may mint is a natural number, none if it is up to date, and more with every block.
LEMMA DueOfPool ==
  ASSUME NEW pool \in Pool, NEW b \in Nat, pool.lastRewardBlock <= b, NEW bon \in Bonuses, NEW rate \in Nat
  PROVE  /\ Due(pool, b, bon, rate) \in Nat
         /\ pool.lastRewardBlock = b => Due(pool, b, bon, rate) = 0
         /\ Due(pool, b + 1, bon, rate) = Due(pool, b, bon, rate) + (rate * MultiplierOf(b + 1, bon)) * pool.allocPoint
PROOF
<1> DEFINE x == Multiplied(pool.lastRewardBlock, b, bon)
           y == Multiplied(pool.lastRewardBlock, b + 1, bon)
           m == MultiplierOf(b + 1, bon)
           a == pool.allocPoint
<1>1. pool.lastRewardBlock \in Nat /\ a \in Nat BY DEF Pool
<1>2. x \in Nat /\ m \in Nat /\ y = x + m /\ (pool.lastRewardBlock = b => x = 0) BY <1>1, MultipliersAdd
<1>3. Due(pool, b, bon, rate) = (x * rate) * a /\ Due(pool, b + 1, bon, rate) = (y * rate) * a BY DEF Due
<1> HIDE DEF x, y, m, a
<1>4. x * rate \in Nat /\ (x * rate) * a \in Nat
  <2>1. x * rate \in Nat BY <1>2
  <2> DEFINE z == x * rate
  <2> HIDE DEF z
  <2>2. z \in Nat => z * a \in Nat BY <1>1
  <2> QED BY <2>1, <2>2 DEF z
<1>5. x = 0 => (x * rate) * a = 0
  <2>1. 0 * rate = 0 /\ 0 * a = 0 BY <1>1
  <2> QED BY <2>1
<1>6. (y * rate) * a = (x * rate) * a + (rate * m) * a
  BY <1>1, <1>2
<1> QED BY <1>2, <1>3, <1>4, <1>5, <1>6 DEF m, a

\* Sums over pools of what they may mint and of their points.
LEMMA DueSums ==
  ASSUME FairLaunchAssumption, NEW pools, NEW b \in Nat, PoolsAt(pools, b), NEW bon \in Bonuses, NEW rate \in Nat
  PROVE  DueIn(pools, b, bon, rate) \in Nat /\ PointsIn(pools) \in Nat
PROOF
<1> DEFINE P == DOMAIN pools
           f == [p \in P |-> Due(pools[p], b, bon, rate)]
           g == [p \in P |-> pools[p].allocPoint]
<1>1. IsFiniteSet(P) BY FinitelyManyPools DEF PoolsAt
<1>2. Natural(f, P)
  <2>1. \A p \in P : Due(pools[p], b, bon, rate) \in Nat BY DueOfPool DEF PoolsAt
  <2> QED BY <2>1 DEF Natural
<1>3. Natural(g, P)
  <2>1. \A p \in P : pools[p].allocPoint \in Nat BY DEF PoolsAt, Pool
  <2> QED BY <2>1 DEF Natural
<1> HIDE DEF f, g
<1>4. SumFunctionOnSet(f, P) \in Nat /\ SumFunctionOnSet(g, P) \in Nat BY <1>1, <1>2, <1>3, SumType
<1> QED BY <1>4 DEF DueIn, PointsIn, f, g

\* Pools that are all up to date may mint nothing.
LEMMA NothingDue ==
  ASSUME FairLaunchAssumption, NEW pools, NEW b \in Nat, PoolsAt(pools, b), NEW bon \in Bonuses, NEW rate \in Nat,
         \A p \in DOMAIN pools : pools[p].lastRewardBlock = b
  PROVE  DueIn(pools, b, bon, rate) = 0
PROOF
<1> DEFINE P == DOMAIN pools
           f == [p \in P |-> Due(pools[p], b, bon, rate)]
<1>1. IsFiniteSet(P) BY FinitelyManyPools DEF PoolsAt
<1>2. Zero(f, P)
  <2>1. \A p \in P : Due(pools[p], b, bon, rate) = 0 BY DueOfPool DEF PoolsAt
  <2> QED BY <2>1 DEF Zero
<1> HIDE DEF f
<1>3. SumFunctionOnSet(f, P) = 0 BY <1>1, <1>2, SumOfZeros
<1> QED BY <1>3 DEF DueIn, f

\* Neither sum depends on the size of a pool or on what it is worth per share.
SamePoints(pools, qools) ==
  /\ DOMAIN qools = DOMAIN pools
  /\ \A p \in DOMAIN pools : /\ qools[p].allocPoint = pools[p].allocPoint
                             /\ qools[p].lastRewardBlock = pools[p].lastRewardBlock
\* Two such settings of the pools owe the same.
LEMMA SameDue ==
  ASSUME NEW pools, NEW qools, SamePoints(pools, qools), NEW b, NEW bon, NEW rate
  PROVE  DueIn(qools, b, bon, rate) = DueIn(pools, b, bon, rate) /\ PointsIn(qools) = PointsIn(pools)
PROOF
<1> DEFINE P == DOMAIN pools
<1>1. [p \in P |-> Due(qools[p], b, bon, rate)] = [p \in P |-> Due(pools[p], b, bon, rate)]
  <2>1. \A p \in P : Due(qools[p], b, bon, rate) = Due(pools[p], b, bon, rate) BY DEF SamePoints, Due
  <2> QED BY <2>1
<1>2. [p \in P |-> qools[p].allocPoint] = [p \in P |-> pools[p].allocPoint]
  BY DEF SamePoints
<1>3. DOMAIN qools = P BY DEF SamePoints
<1> QED BY <1>1, <1>2, <1>3 DEF DueIn, PointsIn

\* A block announces what all pools together may mint in it.
LEMMA BlockAddsDue ==
  ASSUME FairLaunchAssumption, NEW pools, NEW b \in Nat, PoolsAt(pools, b), NEW bon \in Bonuses, NEW rate \in Nat
  PROVE  DueIn(pools, b + 1, bon, rate) = DueIn(pools, b, bon, rate) + (rate * MultiplierOf(b + 1, bon)) * PointsIn(pools)
PROOF
<1> DEFINE P == DOMAIN pools
           k == rate * MultiplierOf(b + 1, bon)
           f == [p \in P |-> Due(pools[p], b, bon, rate)]
           a == [p \in P |-> pools[p].allocPoint]
           g == [p \in P |-> k * pools[p].allocPoint]
           h == [p \in P |-> Due(pools[p], b + 1, bon, rate)]
<1>1. IsFiniteSet(P) BY FinitelyManyPools DEF PoolsAt
<1>2. k \in Int
  <2>1. MultiplierOf(b + 1, bon) \in Nat BY DEF MultiplierOf, Bonuses
  <2> QED BY <2>1
<1>3. ASSUME NEW p \in P
      PROVE  /\ f[p] \in Int /\ a[p] \in Int /\ g[p] = k * a[p] /\ h[p] = f[p] + g[p]
  <2> DEFINE pool == pools[p]
  <2>1. pool \in Pool /\ pool.lastRewardBlock <= b BY DEF PoolsAt
  <2>2. pool.allocPoint \in Nat BY <2>1 DEF Pool
  <2> HIDE DEF pool
  <2>3. /\ Due(pool, b, bon, rate) \in Nat
        /\ Due(pool, b + 1, bon, rate) = Due(pool, b, bon, rate) + k * pool.allocPoint
    BY <2>1, DueOfPool
  <2> QED BY <2>2, <2>3 DEF pool
<1>4. ASSUME NEW p \in P PROVE g[p] \in Int
  <2>1. a[p] \in Int /\ g[p] = k * a[p] BY <1>3
  <2> HIDE DEF a, g, k
  <2> QED BY <1>2, <2>1
<1> HIDE DEF f, a, g, h, k
<1>5. AddUp(f, g, h, P) /\ Multiple(k, a, g, P) BY <1>3, <1>4 DEF AddUp, Multiple
<1>6. SumFunctionOnSet(h, P) = SumFunctionOnSet(f, P) + SumFunctionOnSet(g, P) BY <1>1, <1>5, SumsAdd
<1>7. SumFunctionOnSet(g, P) = k * SumFunctionOnSet(a, P) BY <1>1, <1>2, <1>5, SumScales
<1> QED BY <1>6, <1>7 DEF DueIn, PointsIn, f, a, h, k

\* The multiplier of the contract.
LEMMA ContractMultiplier ==
  /\ \A from, to : getMultiplier(from, to) = Multiplied(from, to, bonus)
  /\ \A b : MultiplierAt(b) = MultiplierOf(b, bonus)
BY DEF getMultiplier, Multiplied, MultiplierAt, MultiplierOf

\* What a pool mints is its share of what it may.
LEMMA RewardIsDue ==
  ASSUME FairLaunchAssumption, SettingsOK, NEW pool \in Pool, pool.lastRewardBlock <= block,
         Outdated(pool) => totalAllocPoint # 0
  PROVE  /\ alpacaReward(pool) \in Nat
         /\ totalAllocPoint * alpacaReward(pool) <= Due(pool, block, bonus, alpacaPerBlock)
         /\ totalAllocPoint = 0 => alpacaReward(pool) = 0
PROOF
<1> DEFINE due == Due(pool, block, bonus, alpacaPerBlock)
           r == alpacaReward(pool)
           T == totalAllocPoint
<1>1. block \in Nat /\ bonus \in Bonuses /\ alpacaPerBlock \in Nat /\ T \in Nat BY DEF SettingsOK, Bonuses
<1>2. due \in Nat BY <1>1, DueOfPool
<1>3. CASE ~Outdated(pool)
  <2>1. r = 0 BY <1>3 DEF alpacaReward
  <2> HIDE DEF r, T, due
  <2>2. r \in Nat /\ T * r <= due BY <1>1, <1>2, <2>1
  <2> QED BY <2>1, <2>2 DEF r, T, due
<1>4. CASE Outdated(pool)
  <2>1. r = due \div T
    <3>1. getMultiplier(pool.lastRewardBlock, block) = Multiplied(pool.lastRewardBlock, block, bonus) BY ContractMultiplier
    <3> QED BY <1>4, <3>1 DEF alpacaReward, Due
  <2>2. T # 0 BY <1>4
  <2> HIDE DEF r, T, due
  <2>3. due \div T \in Nat /\ T * (due \div T) <= due BY <1>1, <1>2, <2>2, Division
  <2> QED BY <2>1, <2>2, <2>3 DEF r, T, due
<1> QED BY <1>3, <1>4

\* Bringing pools up to date mints no more than they may, with a tenth for dev.
LEMMA UpdateSpares ==
  ASSUME FairLaunchAssumption, StakesInv, NEW S \in SUBSET Pids, Update(S), NEW slack \in Int,
         Sparing(poolInfo, block, bonus, alpacaPerBlock, totalAllocPoint, slack)
  PROVE  Sparing(Fresh(S), block, bonus, alpacaPerBlock, totalAllocPoint, slack - 10 * (Minted(S) + ForDev(S)))
PROOF
<1> DEFINE T == totalAllocPoint
           M == Minted(S)
           D == ForDev(S)
           pools == Fresh(S)
           r(p) == alpacaReward(poolInfo[p])
           before(p) == Due(poolInfo[p], block, bonus, alpacaPerBlock)
           after(p) == Due(pools[p], block, bonus, alpacaPerBlock)
           n == [p \in S |-> r(p)]
           m == [p \in Pids |-> IF p \in S THEN n[p] ELSE 0]
           k == [p \in Pids |-> T * m[p]]
           f == [p \in Pids |-> after(p)]
           g == [p \in Pids |-> before(p)]
           h == [p \in Pids |-> f[p] + k[p]]
<1>1. /\ SettingsOK /\ block \in Nat /\ bonus \in Bonuses /\ alpacaPerBlock \in Nat /\ T \in Nat
      /\ Pids \subseteq 1 .. MaxPools /\ Pids = DOMAIN poolInfo
      /\ \A p \in Pids : poolInfo[p] \in Pool /\ poolInfo[p].lastRewardBlock <= block
  BY InvFacts DEF SettingsOK, Bonuses, Pids
<1>2. IsFiniteSet(Pids) /\ IsFiniteSet(S) BY <1>1, FinitelyManyPools, FS_Subset
<1>3. CanUpdate(S) /\ M \in Nat /\ D \in Nat /\ 10 * D <= M BY UpdateMints
<1>4. /\ pools \in Seq(Pool) /\ DOMAIN pools = Pids
      /\ \A p \in Pids : /\ pools[p].allocPoint = poolInfo[p].allocPoint /\ pools[p].lastRewardBlock <= block
                         /\ p \in S => pools[p].lastRewardBlock = block
                         /\ p \notin S => pools[p] = poolInfo[p]
  <2>1. \A p \in Pids : p \notin S => pools[p] = poolInfo[p] BY DEF Fresh
  <2> QED BY <1>3, <2>1, FreshPools DEF StakesInv
<1> HIDE DEF pools
<1>5. ASSUME NEW p \in Pids
      PROVE  /\ after(p) \in Nat /\ before(p) \in Nat
             /\ p \in S => r(p) \in Nat /\ after(p) = 0 /\ T * r(p) <= before(p) /\ (T = 0 => r(p) = 0)
             /\ p \notin S => after(p) = before(p)
  <2>1. pools[p] \in Pool /\ pools[p].lastRewardBlock <= block BY <1>4
  <2>2. after(p) \in Nat /\ before(p) \in Nat BY <1>1, <2>1, DueOfPool
  <2>3. p \in S => after(p) = 0 BY <1>1, <1>4, <2>1, DueOfPool
  <2>4. p \in S => r(p) \in Nat /\ T * r(p) <= before(p) /\ (T = 0 => r(p) = 0)
    <3> SUFFICES ASSUME p \in S PROVE r(p) \in Nat /\ T * r(p) <= before(p) /\ (T = 0 => r(p) = 0) OBVIOUS
    <3>1. Outdated(poolInfo[p]) => totalAllocPoint # 0 BY <1>3 DEF CanUpdate
    <3> QED BY <1>1, <3>1, RewardIsDue
  <2>5. p \notin S => after(p) = before(p) BY <1>4
  <2> QED BY <2>2, <2>3, <2>4, <2>5
<1> HIDE DEF T, r, before, after, M, D
<1>6. ASSUME NEW p \in Pids
      PROVE  /\ m[p] \in Nat /\ k[p] = T * m[p] /\ k[p] \in Int /\ f[p] \in Int /\ h[p] = f[p] + k[p]
             /\ h[p] \in Int /\ g[p] \in Int /\ h[p] <= g[p]
  <2>1. m[p] = (IF p \in S THEN r(p) ELSE 0) /\ k[p] = T * m[p] /\ f[p] = after(p) /\ g[p] = before(p) /\ h[p] = f[p] + k[p]
    OBVIOUS
  <2> HIDE DEF m, k, f, g, h
  <2>2. m[p] \in Nat /\ f[p] \in Int /\ g[p] \in Int BY <1>5, <2>1
  <2>3. k[p] \in Int /\ h[p] \in Int
    <3>1. T * m[p] \in Nat BY <1>1, <2>2
    <3> QED BY <2>1, <2>2, <3>1
  <2>4. h[p] <= g[p]
    <3>1. CASE p \in S
      <4>1. k[p] = T * r(p) /\ f[p] = 0 /\ T * r(p) <= g[p] BY <1>5, <2>1, <3>1
      <4> QED BY <2>1, <2>2, <2>3, <4>1
    <3>2. CASE p \notin S
      <4>1. m[p] = 0 /\ f[p] = g[p] /\ T * 0 = 0 BY <1>1, <1>5, <2>1, <3>2
      <4>2. k[p] = 0 BY <2>1, <4>1
      <4> QED BY <2>1, <2>2, <4>1, <4>2
    <3> QED BY <3>1, <3>2
  <2> QED BY <2>1, <2>2, <2>3, <2>4
<1>7. Natural(n, S) /\ CountsOnly(S, n, m, Pids) /\ (T = 0 => Zero(n, S))
  <2>1. \A p \in S : n[p] \in Nat /\ (T = 0 => n[p] = 0) BY <1>5
  <2>2. \A p \in Pids : m[p] = IF p \in S THEN n[p] ELSE 0 OBVIOUS
  <2> HIDE DEF n, m
  <2> QED BY <2>1, <2>2 DEF Natural, CountsOnly, Zero
<1>8. M = SumFunctionOnSet(n, S) BY DEF M, Minted, SumFunction, r
<1>9. DueIn(pools, block, bonus, alpacaPerBlock) = SumFunctionOnSet(f, Pids)
  BY <1>4 DEF DueIn, after
<1>10. DueIn(poolInfo, block, bonus, alpacaPerBlock) = SumFunctionOnSet(g, Pids)
  BY <1>1 DEF DueIn, before
<1> HIDE DEF n, m, k, f, g, h
<1>11. Multiple(T, m, k, Pids) /\ AddUp(f, k, h, Pids) /\ Ordered(h, g, Pids) /\ Integral(f, Pids) /\ Integral(g, Pids)
  BY <1>6 DEF Multiple, AddUp, Ordered, Integral
<1>12. /\ SumFunctionOnSet(m, Pids) = M
       /\ SumFunctionOnSet(k, Pids) = T * SumFunctionOnSet(m, Pids)
       /\ SumFunctionOnSet(h, Pids) = SumFunctionOnSet(f, Pids) + SumFunctionOnSet(k, Pids)
       /\ SumFunctionOnSet(h, Pids) <= SumFunctionOnSet(g, Pids)
       /\ SumFunctionOnSet(f, Pids) \in Int /\ SumFunctionOnSet(g, Pids) \in Int
  <2>1. T \in Int BY <1>1
  <2> QED BY <1>2, <1>7, <1>8, <1>11, <2>1, SumOfPart, SumScales, SumsAdd, SumsOrdered, SumType
<1> DEFINE x == DueIn(pools, block, bonus, alpacaPerBlock)
           y == DueIn(poolInfo, block, bonus, alpacaPerBlock)
           rest == slack - 10 * (M + D)
<1>13. T = PointsIn(poolInfo) /\ slack >= 0 /\ 11 * y <= T * slack
  BY DEF Sparing, T
<1>14. x \in Int /\ y \in Int /\ x + T * M <= y
  BY <1>9, <1>10, <1>12
<1>15. x \in Nat /\ PointsIn(pools) = T
  <2>1. PoolsAt(pools, block) BY <1>1, <1>4 DEF PoolsAt
  <2>2. x \in Nat BY <1>1, <2>1, DueSums
  <2>3. [p \in DOMAIN pools |-> pools[p].allocPoint] = [p \in DOMAIN poolInfo |-> poolInfo[p].allocPoint]
    BY <1>1, <1>4
  <2>4. PointsIn(pools) = PointsIn(poolInfo) BY <1>1, <1>4, <2>3 DEF PointsIn
  <2> QED BY <1>13, <2>2, <2>4
<1>16. rest \in Int BY <1>3
<1> HIDE DEF x, y
<1>17. 11 * x <= T * rest
  <2> DEFINE a == T * M
             c == T * D
             s == T * slack
  <2>1. a \in Nat /\ c \in Nat /\ s \in Int BY <1>1, <1>3
  <2>2. 10 * c <= a
    <3>1. T * (10 * D) <= T * M
      <4> DEFINE q == 10 * D
      <4>1. q \in Nat /\ q <= M BY <1>3
      <4> HIDE DEF q
      <4>2. q * T <= M * T BY <1>1, <1>3, <4>1, Products
      <4>3. q * T = T * q /\ M * T = T * M BY <1>1, <1>3, <4>1
      <4>4. T * q <= T * M BY <4>2, <4>3
      <4> QED BY <4>4 DEF q
    <3>2. T * (10 * D) = 10 * (T * D) BY <1>1, <1>3
    <3> QED BY <3>1, <3>2
  <2>3. T * rest = s - 10 * a - 10 * c
    BY <1>1, <1>3
  <2>4. 11 * y <= s /\ x + a <= y BY <1>13, <1>14
  <2> HIDE DEF a, c, s, rest
  <2> QED BY <1>14, <2>1, <2>2, <2>3, <2>4
<1>18. rest >= 0
  <2>1. CASE T = 0
    <3>1. SumFunctionOnSet(n, S) = 0 BY <1>2, <1>7, <2>1, SumOfZeros
    <3>2. M = 0 /\ D = 0 BY <1>3, <1>8, <3>1
    <3> QED BY <1>13, <3>2
  <2>2. CASE T > 0
    <3> HIDE DEF rest
    <3> SUFFICES ASSUME rest < 0 PROVE FALSE BY <1>16
    <3> DEFINE u == 0 - rest
    <3>1. u \in Nat /\ u > 0 /\ rest = 0 - u BY <1>16
    <3> HIDE DEF u
    <3>2. 1 * u <= T * u BY <1>1, <2>2, <3>1, Products
    <3>3. T * rest = 0 - T * u /\ T * u \in Int BY <1>1, <3>1
    <3>4. T * rest < 0 BY <3>1, <3>2, <3>3
    <3> QED BY <1>1, <1>15, <1>16, <1>17, <3>3, <3>4
  <2> QED BY <1>1, <2>1, <2>2
<1> QED BY <1>15, <1>17, <1>18 DEF Sparing, rest, x, T, M, D, pools

------------------------------------------------------------------------------
\* At first there is nothing to mint.
LEMMA MintInvHolds == ASSUME FairLaunchAssumption, Init PROVE MintInv
PROOF
<1>1. poolInfo = <<>> /\ DOMAIN poolInfo = {} /\ totalAllocPoint = 0 /\ Slack = 0 BY DEF Init, Slack
<1> DEFINE f == [p \in DOMAIN poolInfo |-> Due(poolInfo[p], block, bonus, alpacaPerBlock)]
           g == [p \in DOMAIN poolInfo |-> poolInfo[p].allocPoint]
<1>2. SumFunctionOnSet(f, {}) = 0 /\ SumFunctionOnSet(g, {}) = 0 BY SumOfNone
<1>3. DueIn(poolInfo, block, bonus, alpacaPerBlock) = 0 /\ PointsIn(poolInfo) = 0 BY <1>1, <1>2 DEF DueIn, PointsIn
<1> QED BY <1>1, <1>3, StakesInvHolds DEF MintInv, Sparing

\* The numbers of a state.
LEMMA MintFacts ==
  ASSUME FairLaunchAssumption, MintInv
  PROVE  /\ block \in Nat /\ bonus \in Bonuses /\ alpacaPerBlock \in Nat /\ totalAllocPoint \in Nat
         /\ supply \in Nat /\ announced \in Nat /\ Slack \in Int /\ Slack >= 0
         /\ PoolsAt(poolInfo, block) /\ Pids = DOMAIN poolInfo
PROOF
<1>1. /\ SettingsOK /\ Pids \subseteq 1 .. MaxPools
      /\ \A p \in Pids : poolInfo[p] \in Pool /\ poolInfo[p].lastRewardBlock <= block
  BY InvFacts DEF MintInv
<1>2. supply \in Nat /\ announced \in Nat BY DEF MintInv, StakesInv, TypesOK
<1> QED BY <1>1, <1>2 DEF SettingsOK, Bonuses, PoolsAt, Pids, Slack, MintInv, Sparing

\* What an update takes from the slack.
LEMMA UpdateTakes ==
  ASSUME FairLaunchAssumption, MintInv, NEW S \in SUBSET Pids, Update(S), announced' = announced
  PROVE  /\ Minted(S) \in Nat /\ ForDev(S) \in Nat
         /\ Slack' = Slack - 10 * (Minted(S) + ForDev(S)) /\ Slack' \in Int
         /\ Sparing(Fresh(S), block, bonus, alpacaPerBlock, totalAllocPoint, Slack')
PROOF
<1>1. Minted(S) \in Nat /\ ForDev(S) \in Nat BY UpdateMints DEF MintInv
<1>2. supply' = supply + Minted(S) + ForDev(S) BY DEF Update
<1>3. supply \in Nat /\ announced \in Nat /\ Slack \in Int BY MintFacts
<1>4. Slack' = Slack - 10 * (Minted(S) + ForDev(S)) /\ Slack' \in Int BY <1>1, <1>2, <1>3 DEF Slack
<1>5. Sparing(Fresh(S), block, bonus, alpacaPerBlock, totalAllocPoint, Slack - 10 * (Minted(S) + ForDev(S)))
  BY <1>3, UpdateSpares DEF MintInv
<1> QED BY <1>1, <1>4, <1>5

\* Steps that bring pools up to date and change no points.
LEMMA UpdateKeepsMintInv ==
  ASSUME FairLaunchAssumption, MintInv, StakesInv', NEW S \in SUBSET Pids, Update(S),
         SamePoints(Fresh(S), poolInfo'), UNCHANGED <<block, settings, totalAllocPoint, announced>>
  PROVE  MintInv'
PROOF
<1>1. Sparing(Fresh(S), block, bonus, alpacaPerBlock, totalAllocPoint, Slack') BY UpdateTakes
<1>2. /\ DueIn(poolInfo', block, bonus, alpacaPerBlock) = DueIn(Fresh(S), block, bonus, alpacaPerBlock)
      /\ PointsIn(poolInfo') = PointsIn(Fresh(S))
  BY SameDue
<1>3. Sparing(poolInfo', block, bonus, alpacaPerBlock, totalAllocPoint, Slack') BY <1>1, <1>2 DEF Sparing
<1>4. block' = block /\ bonus' = bonus /\ alpacaPerBlock' = alpacaPerBlock /\ totalAllocPoint' = totalAllocPoint
  BY DEF settings
<1> QED BY <1>3, <1>4 DEF MintInv

\* Steps that mint nothing and change neither points nor settings.
LEMMA OthersKeepMintInv ==
  ASSUME FairLaunchAssumption, MintInv, StakesInv', SamePoints(poolInfo, poolInfo'),
         UNCHANGED <<block, settings, totalAllocPoint, announced, supply>>
  PROVE  MintInv'
PROOF
<1>1. /\ DueIn(poolInfo', block, bonus, alpacaPerBlock) = DueIn(poolInfo, block, bonus, alpacaPerBlock)
      /\ PointsIn(poolInfo') = PointsIn(poolInfo)
  BY SameDue
<1>2. Slack' = Slack BY DEF Slack
<1>3. Sparing(poolInfo', block, bonus, alpacaPerBlock, totalAllocPoint, Slack') BY <1>1, <1>2 DEF MintInv, Sparing
<1>4. block' = block /\ bonus' = bonus /\ alpacaPerBlock' = alpacaPerBlock /\ totalAllocPoint' = totalAllocPoint
  BY DEF settings
<1> QED BY <1>3, <1>4 DEF MintInv

\* A block is announced before it is minted.
LEMMA NextBlockKeepsMintInv ==
  ASSUME FairLaunchAssumption, MintInv, StakesInv', NextBlock
  PROVE  MintInv'
PROOF
<1> DEFINE T == totalAllocPoint
           k == alpacaPerBlock * MultiplierOf(block + 1, bonus)
           x == DueIn(poolInfo, block, bonus, alpacaPerBlock)
           y == DueIn(poolInfo, block + 1, bonus, alpacaPerBlock)
<1>1. /\ block' = block + 1 /\ announced' = announced + alpacaPerBlock * MultiplierAt(block + 1)
      /\ bonus' = bonus /\ alpacaPerBlock' = alpacaPerBlock /\ T' = T /\ poolInfo' = poolInfo /\ supply' = supply
  BY DEF NextBlock, settings
<1>2. /\ block \in Nat /\ bonus \in Bonuses /\ alpacaPerBlock \in Nat /\ T \in Nat
      /\ supply \in Nat /\ announced \in Nat /\ Slack \in Int /\ PoolsAt(poolInfo, block)
  BY MintFacts
<1>3. T = PointsIn(poolInfo) /\ Slack >= 0 /\ 11 * x <= T * Slack BY DEF MintInv, Sparing
<1>4. k \in Nat /\ MultiplierAt(block + 1) = MultiplierOf(block + 1, bonus)
  <2>1. MultiplierOf(block + 1, bonus) \in Nat BY <1>2 DEF MultiplierOf, Bonuses
  <2> QED BY <1>2, <2>1, ContractMultiplier
<1>5. y = x + k * T BY <1>2, <1>3, BlockAddsDue
<1>6. x \in Nat BY <1>2, DueSums
<1>7. Slack' = Slack + 11 * k
  <2>1. announced' = announced + k BY <1>1, <1>4
  <2> HIDE DEF k
  <2> QED BY <1>1, <1>2, <1>4, <2>1 DEF Slack
<1> HIDE DEF T, k, x, y
<1>8. Slack' >= 0 BY <1>2, <1>3, <1>4, <1>7
<1>9. 11 * y <= T * Slack'
  <2> DEFINE s == T * Slack
             a == k * T
  <2>1. s \in Int /\ a \in Nat BY <1>2, <1>4
  <2>2. T * Slack' = s + 11 * a BY <1>2, <1>4, <1>7
  <2>3. 11 * x <= s /\ y = x + a BY <1>3, <1>5
  <2> HIDE DEF s, a
  <2> QED BY <1>6, <2>1, <2>2, <2>3
<1>10. Sparing(poolInfo, block + 1, bonus, alpacaPerBlock, totalAllocPoint, Slack')
  BY <1>3, <1>8, <1>9 DEF Sparing, T, y
<1> QED BY <1>1, <1>10 DEF MintInv, T

\* Another rate or bonus, when every pool is up to date.
LEMMA SettingsKeepMintInv ==
  ASSUME FairLaunchAssumption, MintInv, StakesInv', UpToDate,
         UNCHANGED <<block, totalAllocPoint, poolInfo, announced, supply>>
  PROVE  MintInv'
PROOF
<1>1. /\ block \in Nat /\ totalAllocPoint \in Nat /\ Slack \in Int /\ Slack >= 0
      /\ PoolsAt(poolInfo, block) /\ Pids = DOMAIN poolInfo
  BY MintFacts
<1>2. bonus' \in Bonuses /\ alpacaPerBlock' \in Nat
  BY DEF StakesInv, TypesOK, SettingsOK, Bonuses
<1> DEFINE bon == bonus'
           rate == alpacaPerBlock'
<1>3. \A p \in DOMAIN poolInfo : poolInfo[p].lastRewardBlock = block BY <1>1 DEF UpToDate
<1>4. DueIn(poolInfo, block, bon, rate) = 0
  <2>1. bon \in Bonuses /\ rate \in Nat BY <1>2
  <2> HIDE DEF bon, rate
  <2> QED BY <1>1, <1>3, <2>1, NothingDue
<1>5. Slack' = Slack BY DEF Slack
<1>6. 11 * 0 <= totalAllocPoint * Slack
  <2>1. totalAllocPoint * Slack \in Nat BY <1>1
  <2> QED BY <2>1
<1>7. Sparing(poolInfo, block, bon, rate, totalAllocPoint, Slack') BY <1>1, <1>4, <1>5, <1>6 DEF MintInv, Sparing
<1> QED BY <1>7 DEF MintInv

\* A new pool has points, and may mint nothing yet.
LEMMA AddPoolKeepsMintInv ==
  ASSUME FairLaunchAssumption, MintInv, StakesInv', addPool
  PROVE  MintInv'
PROOF
<1>1. PICK allocPoint \in AllocPoints, withUpdate \in BOOLEAN :
        LET S == IF withUpdate THEN Pids ELSE {}
            pool == [allocPoint |-> allocPoint, lastRewardBlock |-> block, lpSupply |-> 0,
                     accAlpacaPerShare |-> 0, accAlpacaPerShareTilBonusEnd |-> 0]
        IN /\ Update(S) /\ alpaca' = alpaca + Minted(S)
           /\ totalAllocPoint' = totalAllocPoint + allocPoint
           /\ poolInfo' = Append(Fresh(S), pool)
  BY DEF addPool
<1> DEFINE S == IF withUpdate THEN Pids ELSE {}
           pool == [allocPoint |-> allocPoint, lastRewardBlock |-> block, lpSupply |-> 0,
                    accAlpacaPerShare |-> 0, accAlpacaPerShareTilBonusEnd |-> 0]
           pools == Fresh(S)
           qools == Append(pools, pool)
           b == block
           bon == bonus
           rate == alpacaPerBlock
           T == totalAllocPoint
<1>2. /\ S \in SUBSET Pids /\ Update(S) /\ totalAllocPoint' = T + allocPoint /\ poolInfo' = qools
      /\ block' = b /\ bonus' = bon /\ alpacaPerBlock' = rate /\ announced' = announced
  BY <1>1 DEF addPool, settings
<1>3. b \in Nat /\ bon \in Bonuses /\ rate \in Nat /\ T \in Nat /\ allocPoint \in Nat
  BY MintFacts DEF FairLaunchAssumption
<1>4. pool \in Pool /\ pool.lastRewardBlock = b /\ pool.allocPoint = allocPoint BY <1>3 DEF Pool
<1> HIDE DEF S, pool
<1>5. Sparing(pools, b, bon, rate, T, Slack') /\ Slack' \in Int BY <1>2, UpdateTakes
<1>6. /\ pools \in Seq(Pool) /\ DOMAIN pools = Pids /\ Len(pools) = Len(poolInfo)
      /\ \A p \in Pids : pools[p].lastRewardBlock <= b
  BY <1>2, UpdateMints, FreshPools DEF MintInv, StakesInv
<1>7. Pids \subseteq 1 .. MaxPools /\ Len(poolInfo) \in Nat /\ MaxPools \in Nat /\ Len(poolInfo) < MaxPools
  BY InvFacts DEF MintInv, FairLaunchAssumption, addPool
<1> HIDE DEF pools, b, bon, rate, T
<1> DEFINE a == Len(pools) + 1
<1>8. /\ qools \in Seq(Pool) /\ DOMAIN qools = Pids \cup {a} /\ a \notin Pids /\ a \in 1 .. MaxPools
      /\ qools[a] = pool /\ \A p \in Pids : qools[p] = pools[p]
  <2>1. Pids = 1 .. Len(pools) BY <1>6
  <2>2. qools \in Seq(Pool) /\ Len(qools) = Len(pools) + 1 BY <1>4, <1>6
  <2>3. \A p \in 1 .. Len(pools) + 1 : qools[p] = IF p <= Len(pools) THEN pools[p] ELSE pool BY <1>4, <1>6
  <2> QED BY <1>6, <1>7, <2>1, <2>2, <2>3
<1> HIDE DEF qools, a
<1> DEFINE Q == DOMAIN qools
           f == [p \in Pids |-> Due(pools[p], b, bon, rate)]
           g == [p \in Q |-> Due(qools[p], b, bon, rate)]
           fp == [p \in Pids |-> pools[p].allocPoint]
           gp == [p \in Q |-> qools[p].allocPoint]
<1>9. PoolsAt(pools, b) /\ PoolsAt(qools, b) /\ IsFiniteSet(Q) /\ Q \ {a} = Pids
  <2>1. \A p \in Pids : pools[p] \in Pool BY <1>6
  <2>2. b <= b BY <1>3
  <2>3. \A p \in Q : qools[p] \in Pool /\ qools[p].lastRewardBlock <= b BY <1>4, <1>6, <1>8, <2>1, <2>2
  <2>4. Q \in SUBSET (1 .. MaxPools) BY <1>7, <1>8
  <2> QED BY <1>6, <1>7, <1>8, <2>1, <2>3, <2>4, FinitelyManyPools DEF PoolsAt
<1>10. SumFunctionOnSet(g, Q) = SumFunctionOnSet(f, Pids)
  <2>1. \A p \in Q : qools[p] \in Pool /\ qools[p].lastRewardBlock <= b BY <1>9 DEF PoolsAt
  <2>2. \A p \in Q : Due(qools[p], b, bon, rate) \in Nat BY <1>3, <2>1, DueOfPool
  <2>3. Due(pool, b, bon, rate) = 0 BY <1>3, <1>4, <2>1, <1>8, DueOfPool
  <2>4. \A p \in Q : g[p] = IF p \in Pids THEN f[p] ELSE 0 BY <1>8, <2>3
  <2>5. \A p \in Pids : f[p] \in Int
    <3>1. \A p \in Pids : Due(qools[p], b, bon, rate) \in Nat BY <1>8, <2>2
    <3> QED BY <1>8, <3>1
  <2> HIDE DEF f, g
  <2>6. CountsOnly(Pids, f, g, Q) /\ Pids \in SUBSET Q BY <1>8, <2>4, <2>5 DEF CountsOnly
  <2> QED BY <1>9, <2>6, SumOfPart
<1>11. SumFunctionOnSet(gp, Q) = SumFunctionOnSet(fp, Pids) + allocPoint
  <2>1. \A p \in Q : gp[p] \in Nat
    <3>1. \A p \in Q : qools[p] \in Pool BY <1>9 DEF PoolsAt
    <3> QED BY <3>1 DEF Pool
  <2>2. gp[a] = allocPoint /\ a \in Q BY <1>4, <1>8
  <2>3. \A p \in Pids : fp[p] = gp[p] /\ fp[p] \in Int
    <3>1. \A p \in Pids : p \in Q /\ fp[p] = gp[p] BY <1>8
    <3> HIDE DEF fp, gp, Q
    <3> QED BY <2>1, <3>1
  <2> HIDE DEF fp, gp, Q
  <2>4. Integral(gp, Q) /\ Same(gp, fp, Pids) BY <1>9, <2>1, <2>3 DEF Integral, Same
  <2>5. SumFunctionOnSet(gp, Q) = gp[a] + SumFunctionOnSet(gp, Pids)
    <3>1. SumFunctionOnSet(gp, Q) = gp[a] + SumFunctionOnSet(gp, Q \ {a}) BY <1>9, <2>2, <2>4, SumSplits
    <3> QED BY <1>9, <3>1
  <2>6. IsFiniteSet(Pids) BY <1>7, FinitelyManyPools
  <2>7. SumFunctionOnSet(gp, Pids) = SumFunctionOnSet(fp, Pids) BY <2>4, <2>6, SumsEqual
  <2>8. Integral(fp, Pids) BY <2>3 DEF Integral
  <2>9. SumFunctionOnSet(fp, Pids) \in Int BY <2>6, <2>8, SumType
  <2> QED BY <1>3, <2>2, <2>5, <2>7, <2>9
<1>12. DueIn(qools, b, bon, rate) = DueIn(pools, b, bon, rate) /\ PointsIn(qools) = PointsIn(pools) + allocPoint
  BY <1>6, <1>10, <1>11 DEF DueIn, PointsIn
<1>13. Sparing(qools, b, bon, rate, T + allocPoint, Slack')
  <2> DEFINE x == DueIn(pools, b, bon, rate)
             w == Slack'
  <2>1. T = PointsIn(pools) /\ w >= 0 /\ w \in Int /\ 11 * x <= T * w BY <1>5 DEF Sparing
  <2>2. x \in Nat BY <1>3, <1>9, DueSums
  <2> HIDE DEF x, w
  <2>3. (T + allocPoint) * w = T * w + allocPoint * w /\ T * w \in Int /\ allocPoint * w \in Nat BY <1>3, <2>1
  <2>4. 11 * x <= (T + allocPoint) * w
    <3> DEFINE c == T * w
               d == allocPoint * w
               z == (T + allocPoint) * w
    <3>1. c \in Int /\ d \in Nat /\ z = c + d /\ 11 * x <= c BY <2>1, <2>3
    <3> HIDE DEF c, d, z
    <3> QED BY <2>2, <3>1 DEF z
  <2> QED BY <1>12, <2>1, <2>4 DEF Sparing, x, w
<1> QED BY <1>2, <1>13 DEF MintInv, T, b, bon, rate

\* A pool gets other points when nothing is left to mint.
LEMMA SetPoolKeepsMintInv ==
  ASSUME FairLaunchAssumption, MintInv, StakesInv', NEW pid \in Pids, setPool(pid)
  PROVE  MintInv'
PROOF
<1>1. PICK allocPoint \in AllocPoints :
        /\ totalAllocPoint' = totalAllocPoint - poolInfo[pid].allocPoint + allocPoint
        /\ poolInfo' = [Fresh(Pids) EXCEPT ![pid].allocPoint = allocPoint]
  BY DEF setPool
<1> DEFINE pools == Fresh(Pids)
           q == [pools[pid] EXCEPT !.allocPoint = allocPoint]
           qools == [pools EXCEPT ![pid] = q]
           old == poolInfo[pid].allocPoint
           b == block
           bon == bonus
           rate == alpacaPerBlock
           T == totalAllocPoint
           fp == [p \in Pids |-> pools[p].allocPoint]
           gp == [p \in Pids |-> qools[p].allocPoint]
<1>2. /\ Pids \in SUBSET Pids /\ Update(Pids) /\ totalAllocPoint' = T - old + allocPoint /\ poolInfo' = qools
      /\ block' = b /\ bonus' = bon /\ alpacaPerBlock' = rate /\ announced' = announced
  BY <1>1 DEF setPool, settings
<1>3. b \in Nat /\ bon \in Bonuses /\ rate \in Nat /\ T \in Nat /\ allocPoint \in Nat
  BY MintFacts DEF FairLaunchAssumption
<1>4. Sparing(pools, b, bon, rate, T, Slack') /\ Slack' \in Int BY <1>2, UpdateTakes
<1>5. /\ pools \in Seq(Pool) /\ DOMAIN pools = Pids
      /\ \A p \in Pids : pools[p].allocPoint = poolInfo[p].allocPoint /\ pools[p].lastRewardBlock = b
  BY <1>2, UpdateMints, FreshPools DEF MintInv, StakesInv
<1>6. Pids \in SUBSET (1 .. MaxPools) /\ IsFiniteSet(Pids) BY InvFacts, FinitelyManyPools DEF MintInv
<1> HIDE DEF pools, b, bon, rate, T
<1>7. q \in Pool /\ q.lastRewardBlock = b /\ q.allocPoint = allocPoint
  <2>1. pools[pid] \in Pool BY <1>5
  <2> QED BY <1>3, <1>5, <2>1 DEF Pool
<1> HIDE DEF q
<1>8. /\ DOMAIN qools = Pids /\ qools[pid] = q
      /\ \A p \in Pids : p # pid => qools[p] = pools[p]
      /\ \A p \in Pids : qools[p] \in Pool /\ pools[p] \in Pool /\ qools[p].lastRewardBlock = b
  BY <1>5, <1>7
<1>9. old \in Nat /\ pools[pid].allocPoint = old
  <2>1. pools[pid] \in Pool BY <1>8
  <2> QED BY <1>5, <2>1 DEF Pool
<1> HIDE DEF qools, old
<1>10. DueIn(qools, b, bon, rate) = 0
  <2>1. b <= b BY <1>3
  <2>2. PoolsAt(qools, b) BY <1>6, <1>8, <2>1 DEF PoolsAt
  <2> QED BY <1>3, <1>8, <2>2, NothingDue
<1>11. PointsIn(qools) = PointsIn(pools) + allocPoint - old
  <2>1. \A p \in Pids : fp[p] \in Nat /\ gp[p] \in Nat BY <1>8 DEF Pool
  <2>2. \A p \in Pids : p # pid => gp[p] = fp[p] BY <1>8
  <2>3. gp[pid] = allocPoint /\ fp[pid] = old BY <1>7, <1>8, <1>9
  <2>4. PointsIn(qools) = SumFunctionOnSet(gp, Pids) /\ PointsIn(pools) = SumFunctionOnSet(fp, Pids)
    BY <1>5, <1>8 DEF PointsIn
  <2> HIDE DEF fp, gp
  <2>5. SameBut(fp, gp, pid, Pids) BY <2>1, <2>2 DEF SameBut
  <2>6. SumFunctionOnSet(gp, Pids) = SumFunctionOnSet(fp, Pids) + gp[pid] - fp[pid] BY <1>6, <2>5, SumShifts
  <2> QED BY <2>3, <2>4, <2>6
<1>12. T = PointsIn(pools) /\ Slack' >= 0 BY <1>4 DEF Sparing
<1> DEFINE total == totalAllocPoint'
<1>13. total = PointsIn(qools) /\ total \in Nat
  <2>1. total \in Nat BY DEF StakesInv, TypesOK, SettingsOK
  <2>2. total = T - old + allocPoint BY <1>2
  <2> HIDE DEF total
  <2> QED BY <1>3, <1>9, <1>11, <1>12, <2>1, <2>2
<1>14. 11 * 0 <= total * Slack'
  <2> DEFINE w == Slack'
  <2>1. w \in Nat BY <1>4, <1>12
  <2> HIDE DEF total, w
  <2>2. total * w \in Nat BY <1>13, <2>1
  <2> QED BY <2>2 DEF w
<1>15. Sparing(qools, b, bon, rate, total, Slack') BY <1>10, <1>12, <1>13, <1>14 DEF Sparing
<1> QED BY <1>2, <1>15 DEF MintInv, T, b, bon, rate

\* Every step of a careful owner's FairLaunch leaves enough announced for what pools may still mint.
LEMMA MintInvIsKept == ASSUME FairLaunchAssumption, Careful, MintInv, [Next]_vars PROVE MintInv'
PROOF
<1>0. StakesInv' BY StakesInvIsKept DEF MintInv
<1>a. StakesInv BY DEF MintInv
<1>1. ASSUME NextBlock PROVE MintInv' BY <1>0, <1>1, NextBlockKeepsMintInv
<1>2. ASSUME setAlpacaPerBlock PROVE MintInv'
  BY <1>0, <1>2, SettingsKeepMintInv DEF setAlpacaPerBlock
<1>3. ASSUME setBonus PROVE MintInv'
  BY <1>0, <1>3, SettingsKeepMintInv DEF setBonus
<1>4. ASSUME addPool PROVE MintInv' BY <1>0, <1>4, AddPoolKeepsMintInv
<1>5. ASSUME NEW pid \in Pids, setPool(pid) PROVE MintInv' BY <1>0, <1>5, SetPoolKeepsMintInv
<1>b. ASSUME NEW pid \in Pids, NEW S, S = {pid}, Update(S), NEW size, poolInfo' = Resized(Fresh(S), pid, size),
             UNCHANGED <<block, settings, totalAllocPoint, announced>>
      PROVE  MintInv'
  <2>1. S \in SUBSET Pids BY <1>b
  <2>2. Fresh(S) \in Seq(Pool) BY <1>a, <1>b, <2>1, UpdateMints, FreshPools DEF StakesInv
  <2>3. DOMAIN Fresh(S) = Pids BY DEF Fresh
  <2> DEFINE pools == Fresh(S)
             q == [pools[pid] EXCEPT !.lpSupply = size]
  <2>4. pools[pid] \in Pool BY <2>2, <2>3
  <2>5. q.allocPoint = pools[pid].allocPoint /\ q.lastRewardBlock = pools[pid].lastRewardBlock BY <2>4 DEF Pool
  <2>6. Resized(pools, pid, size) = [pools EXCEPT ![pid] = q] BY DEF Resized
  <2> HIDE DEF pools, q
  <2>7. SamePoints(pools, Resized(pools, pid, size)) BY <2>3, <2>5, <2>6 DEF SamePoints, pools
  <2>8. SamePoints(Fresh(S), poolInfo') BY <1>b, <2>7 DEF pools
  <2> QED BY <1>0, <1>b, <2>1, <2>8, UpdateKeepsMintInv
<1>6. ASSUME NEW pid \in Pids, touchPool(pid) PROVE MintInv'
  <2> DEFINE S == {pid}
  <2>1. S \in SUBSET Pids /\ Update(S) /\ poolInfo' = Fresh(S) /\ UNCHANGED <<block, settings, totalAllocPoint, announced>>
    BY <1>6 DEF touchPool
  <2> HIDE DEF S
  <2>2. SamePoints(Fresh(S), poolInfo') BY <2>1 DEF SamePoints
  <2> QED BY <1>0, <2>1, <2>2, UpdateKeepsMintInv
<1>c. ASSUME NEW pid \in Pids, NEW size, poolInfo' = Resized(poolInfo, pid, size),
             UNCHANGED <<block, settings, totalAllocPoint, announced, supply>>
      PROVE  MintInv'
  <2>1. poolInfo \in Seq(Pool) /\ DOMAIN poolInfo = Pids BY <1>a, InvFacts DEF Pids
  <2> DEFINE q == [poolInfo[pid] EXCEPT !.lpSupply = size]
  <2>2. poolInfo[pid] \in Pool BY <2>1
  <2>3. q.allocPoint = poolInfo[pid].allocPoint /\ q.lastRewardBlock = poolInfo[pid].lastRewardBlock BY <2>2 DEF Pool
  <2>4. Resized(poolInfo, pid, size) = [poolInfo EXCEPT ![pid] = q] BY DEF Resized
  <2> HIDE DEF q
  <2>5. SamePoints(poolInfo, Resized(poolInfo, pid, size)) BY <2>1, <2>3, <2>4 DEF SamePoints
  <2>6. SamePoints(poolInfo, poolInfo') BY <1>c, <2>5
  <2> QED BY <1>0, <1>c, <2>6, OthersKeepMintInv
<1>7. ASSUME NEW pid \in Pids, donate(pid) PROVE MintInv'
  <2> DEFINE size == poolInfo[pid].lpSupply + 1
  <2>1. poolInfo' = Resized(poolInfo, pid, size) BY <1>7 DEF donate, Resized
  <2> HIDE DEF size
  <2> QED BY <1>7, <1>c, <2>1 DEF donate
<1>8. ASSUME NEW pid \in Pids, NEW u \in Users, harvest(u, pid) PROVE MintInv'
  <2> DEFINE S == {pid}
  <2>1. S \in SUBSET Pids /\ Update(S) /\ poolInfo' = Fresh(S) /\ UNCHANGED <<block, settings, totalAllocPoint, announced>>
    BY <1>8 DEF harvest
  <2> HIDE DEF S
  <2>2. SamePoints(Fresh(S), poolInfo') BY <2>1 DEF SamePoints
  <2> QED BY <1>0, <2>1, <2>2, UpdateKeepsMintInv
<1>9. ASSUME NEW pid \in Pids, NEW u \in Users, emergencyWithdraw(u, pid) PROVE MintInv'
  <2> DEFINE size == poolInfo[pid].lpSupply - userInfo[pid][u].amount
  <2>1. poolInfo' = Resized(poolInfo, pid, size) BY <1>9 DEF emergencyWithdraw, Resized
  <2> HIDE DEF size
  <2> QED BY <1>9, <1>c, <2>1 DEF emergencyWithdraw
<1>10. ASSUME NEW pid \in Pids, NEW u \in Users, NEW _for \in Users, NEW amount \in 0 .. MaxStake,
              deposit(u, _for, pid, amount)
       PROVE  MintInv'
  <2> DEFINE size == Fresh({pid})[pid].lpSupply + amount
  <2>1. poolInfo' = Resized(Fresh({pid}), pid, size) BY <1>10 DEF deposit, Resized
  <2> HIDE DEF size
  <2> QED BY <1>10, <1>b, <2>1 DEF deposit
<1>11. ASSUME NEW pid \in Pids, NEW u \in Users, NEW _for \in Users, NEW amount \in 0 .. MaxStake,
              withdraw(u, _for, pid, amount)
       PROVE  MintInv'
  <2> DEFINE size == Fresh({pid})[pid].lpSupply - amount
  <2>1. poolInfo' = Resized(Fresh({pid}), pid, size) BY <1>11 DEF withdraw, Resized
  <2> HIDE DEF size
  <2> QED BY <1>11, <1>b, <2>1 DEF withdraw
<1>12. CASE UNCHANGED vars
  <2>1. SamePoints(poolInfo, poolInfo') BY <1>12 DEF vars, SamePoints
  <2>2. UNCHANGED <<block, settings, totalAllocPoint, announced, supply>> BY <1>12 DEF vars, settings
  <2> QED BY <1>0, <2>1, <2>2, OthersKeepMintInv
<1> QED BY <1>1, <1>2, <1>3, <1>4, <1>5, <1>6, <1>7, <1>8, <1>9, <1>10, <1>11, <1>12 DEF Next

\* When the owner changes rates and the bonus only with every pool up to date, no more is minted than
\* what the rate and the bonus of each block amount to, plus a tenth for dev.
THEOREM MintsStayAnnounced == ASSUME Careful PROVE Spec => []MintsAsAnnounced
PROOF
<1> USE FairLaunchAssumption
<1>1. Init => MintInv BY MintInvHolds
<1>2. MintInv /\ [Next]_vars => MintInv' BY MintInvIsKept
<1>3. MintInv => MintsAsAnnounced
  <2> SUFFICES ASSUME MintInv PROVE MintsAsAnnounced OBVIOUS
  <2>1. supply \in Nat /\ announced \in Nat /\ Slack >= 0 BY MintFacts
  <2> QED BY <2>1 DEF Slack, MintsAsAnnounced
<1> QED BY <1>1, <1>2, <1>3, PTL DEF Spec

------------------------------------------------------------------------------
(* What others leave a staker. *)

\* What a pool is worth per share once it is up to date, and what a stake may harvest at that.
SumAt(pool, b, bon, rate, total) ==
  IF b > pool.lastRewardBlock /\ pool.lpSupply # 0
  THEN pool.accAlpacaPerShare + ((Due(pool, b, bon, rate) \div total) * PRECISION) \div pool.lpSupply
  ELSE pool.accAlpacaPerShare
WorthAt(user, sum) == (user.amount * sum) \div PRECISION - user.rewardDebt

\* An updated pool has that sum.
LEMMA UpdatedSum ==
  ASSUME NEW pool \in Pool
  PROVE  updatePool(pool).accAlpacaPerShare = SumAt(pool, block, bonus, alpacaPerBlock, totalAllocPoint)
PROOF
<1>1. getMultiplier(pool.lastRewardBlock, block) = Multiplied(pool.lastRewardBlock, block, bonus) BY ContractMultiplier
<1>2. CASE Outdated(pool)
  <2>1. alpacaReward(pool) = Due(pool, block, bonus, alpacaPerBlock) \div totalAllocPoint
    BY <1>1, <1>2 DEF alpacaReward, Due
  <2>2. updatePool(pool).accAlpacaPerShare = pool.accAlpacaPerShare + PerShare(pool, alpacaReward(pool))
    BY <1>2 DEF updatePool, Pool
  <2> QED BY <1>2, <2>1, <2>2 DEF SumAt, PerShare, Outdated
<1>3. CASE ~Outdated(pool)
  <2>1. updatePool(pool).accAlpacaPerShare = pool.accAlpacaPerShare BY <1>3 DEF updatePool, Pool
  <2> QED BY <1>3, <2>1 DEF SumAt, Outdated
<1> QED BY <1>2, <1>3

\* What a staker could harvest, in terms of that sum, before and after a step.
LEMMA PendingIsWorth ==
  ASSUME NEW p, NEW u
  PROVE  /\ poolInfo[p] \in Pool =>
              pendingAlpaca(p, u) =
                WorthAt(userInfo[p][u], SumAt(poolInfo[p], block, bonus, alpacaPerBlock, totalAllocPoint))
         /\ poolInfo'[p] \in Pool =>
              pendingAlpaca(p, u)' =
                WorthAt(userInfo'[p][u], SumAt(poolInfo'[p], block', bonus', alpacaPerBlock', totalAllocPoint'))
PROOF
<1>1. \A pool \in Pool :
        updatePool(pool).accAlpacaPerShare = SumAt(pool, block, bonus, alpacaPerBlock, totalAllocPoint)
  BY UpdatedSum
<1>2. poolInfo[p] \in Pool =>
        updatePool(poolInfo[p]).accAlpacaPerShare = SumAt(poolInfo[p], block, bonus, alpacaPerBlock, totalAllocPoint)
  BY <1>1
<1>3. poolInfo'[p] \in Pool =>
        (updatePool(poolInfo[p]).accAlpacaPerShare)' =
          SumAt(poolInfo'[p], block', bonus', alpacaPerBlock', totalAllocPoint')
  <2> DEFINE pool == poolInfo'[p]
  <2> SUFFICES ASSUME pool \in Pool
               PROVE  (updatePool(poolInfo[p]).accAlpacaPerShare)' =
                        SumAt(pool, block', bonus', alpacaPerBlock', totalAllocPoint')
    OBVIOUS
  <2>1. CASE block' > pool.lastRewardBlock /\ pool.lpSupply # 0
    BY <2>1 DEF updatePool, Outdated, alpacaReward, getMultiplier, Multiplied, PerShare, Pool, SumAt, Due
  <2>2. CASE ~(block' > pool.lastRewardBlock /\ pool.lpSupply # 0)
    BY <2>2 DEF updatePool, Outdated, Pool, SumAt
  <2> QED BY <2>1, <2>2
<1> QED BY <1>2, <1>3, Zenon DEF pendingAlpaca, pending, Earned, WorthAt

\* That sum is a number, larger with every block, and larger if less is staked.
LEMMA SumsGrow ==
  ASSUME FairLaunchAssumption, NEW pool \in Pool, NEW b \in Nat, pool.lastRewardBlock <= b,
         NEW bon \in Bonuses, NEW rate \in Nat, NEW total \in Nat \ {0}
  PROVE  /\ SumAt(pool, b, bon, rate, total) \in Nat
         /\ pool.lastRewardBlock = b => SumAt(pool, b, bon, rate, total) = pool.accAlpacaPerShare
         /\ SumAt(pool, b, bon, rate, total) <= SumAt(pool, b + 1, bon, rate, total)
         /\ \A size \in Nat \ {0} :
              size <= pool.lpSupply =>
                SumAt(pool, b, bon, rate, total) <= SumAt([pool EXCEPT !.lpSupply = size], b, bon, rate, total)
PROOF
<1> DEFINE last == pool.lastRewardBlock
           acc == pool.accAlpacaPerShare
           lp == pool.lpSupply
           due == Due(pool, b, bon, rate)
           more == Due(pool, b + 1, bon, rate)
           x == (due \div total) * PRECISION
           y == (more \div total) * PRECISION
<1>1. last \in Nat /\ acc \in Nat /\ lp \in Nat /\ PRECISION \in Nat BY DEF Pool, FairLaunchAssumption
<1>2. due \in Nat /\ more \in Nat /\ due <= more
  <2> DEFINE m == (rate * MultiplierOf(b + 1, bon)) * pool.allocPoint
  <2>1. due \in Nat /\ more = due + m BY DueOfPool
  <2>2. m \in Nat
    <3> DEFINE k == MultiplierOf(b + 1, bon)
    <3>1. k \in Nat /\ pool.allocPoint \in Nat BY DEF MultiplierOf, Bonuses, Pool
    <3> HIDE DEF k
    <3> DEFINE r == rate * k
    <3>2. r \in Nat BY <3>1
    <3> HIDE DEF r
    <3>3. r * pool.allocPoint \in Nat BY <3>1, <3>2
    <3> QED BY <3>3 DEF r, k
  <2> HIDE DEF m, due, more
  <2> QED BY <2>1, <2>2
<1>3. /\ SumAt(pool, b, bon, rate, total) = IF b > last /\ lp # 0 THEN acc + x \div lp ELSE acc
      /\ SumAt(pool, b + 1, bon, rate, total) = IF b + 1 > last /\ lp # 0 THEN acc + y \div lp ELSE acc
  BY DEF SumAt
<1>4. \A size \in Nat :
        SumAt([pool EXCEPT !.lpSupply = size], b, bon, rate, total) =
          IF b > last /\ size # 0 THEN acc + x \div size ELSE acc
  BY DEF SumAt, Due, Pool
<1> HIDE DEF last, acc, lp, due, more
<1>5. x \in Nat /\ y \in Nat /\ x <= y
  <2> DEFINE v == due \div total
             w == more \div total
  <2>1. v \in Nat /\ w \in Nat /\ v <= w BY <1>2, Division, QuotientsMonotone
  <2> HIDE DEF v, w
  <2>2. v * PRECISION \in Nat /\ w * PRECISION \in Nat /\ v * PRECISION <= w * PRECISION BY <1>1, <2>1, Products
  <2> QED BY <2>2 DEF v, w
<1> HIDE DEF x, y
<1>6. lp # 0 => x \div lp \in Nat /\ y \div lp \in Nat /\ x \div lp <= y \div lp
  BY <1>1, <1>5, Division, QuotientsMonotone
<1>7. ASSUME NEW size \in Nat \ {0}, size <= lp PROVE x \div size \in Nat /\ x \div lp <= x \div size
  <2>1. lp \in Nat \ {0} BY <1>1, <1>7
  <2>2. x * size <= x * lp
    <3>1. size * x <= lp * x BY <1>5, <1>7, <2>1, Products
    <3> QED BY <1>5, <2>1, <3>1
  <2> QED BY <1>5, <2>1, <2>2, Division, Fractions
<1>8. SumAt(pool, b, bon, rate, total) \in Nat BY <1>1, <1>3, <1>6
<1>9. last = b => SumAt(pool, b, bon, rate, total) = acc BY <1>3
<1>10. SumAt(pool, b, bon, rate, total) <= SumAt(pool, b + 1, bon, rate, total)
  <2>1. last <= b BY DEF last
  <2> QED BY <1>1, <1>3, <1>6, <2>1
<1>11. \A size \in Nat \ {0} : size <= lp =>
         SumAt(pool, b, bon, rate, total) <= SumAt([pool EXCEPT !.lpSupply = size], b, bon, rate, total)
  BY <1>1, <1>3, <1>4, <1>6, <1>7
<1> QED BY <1>8, <1>9, <1>10, <1>11 DEF last, acc, lp

\* A stake is worth more at a larger sum, and one of nothing the same at any.
LEMMA WorthGrows ==
  ASSUME FairLaunchAssumption, NEW user \in Stake, NEW x \in Nat, NEW y \in Nat, x <= y \/ user.amount = 0
  PROVE  WorthAt(user, x) <= WorthAt(user, y)
PROOF
<1> DEFINE n == user.amount
           v == n * x
           w == n * y
<1>1. n \in Nat /\ user.rewardDebt \in Nat /\ PRECISION \in Nat \ {0} BY DEF Stake, FairLaunchAssumption
<1>2. v \in Nat /\ w \in Nat /\ v <= w
  <2>1. CASE x <= y
    <3>1. x * n <= y * n /\ x * n \in Nat /\ y * n \in Nat BY <1>1, <2>1, Products
    <3> HIDE DEF n
    <3> QED BY <1>1, <3>1
  <2>2. CASE n = 0
    <3>1. v = 0 /\ w = 0
      <4> HIDE DEF n
      <4>1. 0 * x = 0 /\ 0 * y = 0 OBVIOUS
      <4> QED BY <2>2, <4>1
    <3> HIDE DEF v, w
    <3> QED BY <3>1
  <2> QED BY <2>1, <2>2
<1>3. WorthAt(user, x) = v \div PRECISION - user.rewardDebt /\ WorthAt(user, y) = w \div PRECISION - user.rewardDebt
  BY DEF WorthAt
<1> HIDE DEF v, w
<1>4. v \div PRECISION \in Nat /\ w \div PRECISION \in Nat /\ v \div PRECISION <= w \div PRECISION
  BY <1>1, <1>2, Division, QuotientsMonotone
<1> QED BY <1>1, <1>3, <1>4

\* Bringing pools up to date does not change that sum, whatever their size is then.
LEMMA UpdateKeepsSum ==
  ASSUME FairLaunchAssumption, StakesInv, totalAllocPoint # 0, NEW S \in SUBSET Pids, CanUpdate(S), NEW p \in Pids,
         NEW new \in Pool,
         p \in S => /\ new.accAlpacaPerShare = Fresh(S)[p].accAlpacaPerShare
                    /\ new.lastRewardBlock = Fresh(S)[p].lastRewardBlock,
         p \notin S => new = poolInfo[p]
  PROVE  /\ SumAt(new, block, bonus, alpacaPerBlock, totalAllocPoint) =
              SumAt(poolInfo[p], block, bonus, alpacaPerBlock, totalAllocPoint)
         /\ SumAt(new, block, bonus, alpacaPerBlock, totalAllocPoint) \in Nat
PROOF
<1>1. /\ block \in Nat /\ bonus \in Bonuses /\ alpacaPerBlock \in Nat /\ totalAllocPoint \in Nat \ {0}
      /\ poolInfo[p] \in Pool /\ poolInfo[p].lastRewardBlock <= block
  BY InvFacts DEF SettingsOK, Bonuses
<1>2. CASE p \notin S BY <1>1, <1>2, SumsGrow
<1>3. CASE p \in S
  <2>1. new.lastRewardBlock = block BY <1>3, FreshPools DEF StakesInv
  <2>2. block <= block BY <1>1
  <2>3. SumAt(new, block, bonus, alpacaPerBlock, totalAllocPoint) = new.accAlpacaPerShare BY <1>1, <2>1, <2>2, SumsGrow
  <2>4. Fresh(S)[p] = updatePool(poolInfo[p]) BY <1>3 DEF Fresh
  <2>5. new.accAlpacaPerShare = SumAt(poolInfo[p], block, bonus, alpacaPerBlock, totalAllocPoint)
    BY <1>1, <1>3, <2>4, UpdatedSum
  <2> QED BY <1>1, <2>3, <2>5, SumsGrow
<1> QED BY <1>2, <1>3

\* Where nothing is staked nobody has a stake.
LEMMA NobodyStakes ==
  ASSUME FairLaunchAssumption, NEW users \in AllStakes, NEW p \in 1 .. MaxPools, StakedIn(users, p) <= 0
  PROVE  \A u \in Users : users[p][u].amount = 0
PROOF
<1> DEFINE f == [v \in Users |-> users[p][v].amount]
<1>1. IsFiniteSet(Users) BY DEF FairLaunchAssumption
<1>2. \A v \in Users : f[v] \in Nat BY StakeSums
<1>3. SumFunctionOnSet(f, Users) <= 0 BY DEF StakedIn
<1> SUFFICES ASSUME NEW u \in Users PROVE f[u] = 0 OBVIOUS
<1> HIDE DEF f
<1>4. Integral(f, Users) /\ Natural(f, Users \ {u}) BY <1>2 DEF Integral, Natural
<1>5. SumFunctionOnSet(f, Users) = f[u] + SumFunctionOnSet(f, Users \ {u}) BY <1>1, <1>4, SumSplits
<1>6. IsFiniteSet(Users \ {u}) BY <1>1, FS_Subset
<1>7. SumFunctionOnSet(f, Users \ {u}) \in Nat BY <1>4, <1>6, SumType
<1>8. f[u] \in Nat BY <1>2
<1> QED BY <1>3, <1>5, <1>7, <1>8

\* A pool whose sum does not fall, or in which nobody stakes any more.
SumKept(p) ==
  LET old == SumAt(poolInfo[p], block, bonus, alpacaPerBlock, totalAllocPoint)
      new == SumAt(poolInfo'[p], block', bonus, alpacaPerBlock, totalAllocPoint)
  IN /\ poolInfo[p] \in Pool /\ poolInfo'[p] \in Pool
     /\ old \in Nat /\ new \in Nat
     /\ old <= new \/ \A u \in Users : userInfo'[p][u].amount = 0

\* The steps that bring some pools up to date and may change their size or points.
LEMMA UpdatesKeepSums ==
  ASSUME FairLaunchAssumption, StakesInv, StakesInv', totalAllocPoint # 0, block' = block,
         NEW S \in SUBSET Pids, Update(S), NEW p \in Pids, p \in DOMAIN poolInfo',
         p \in S => /\ poolInfo'[p].accAlpacaPerShare = Fresh(S)[p].accAlpacaPerShare
                    /\ poolInfo'[p].lastRewardBlock = Fresh(S)[p].lastRewardBlock,
         p \notin S => poolInfo'[p] = poolInfo[p]
  PROVE  SumKept(p)
PROOF
<1> DEFINE new == poolInfo'[p]
           sum == SumAt(poolInfo[p], block, bonus, alpacaPerBlock, totalAllocPoint)
<1>1. new \in Pool BY DEF StakesInv, TypesOK
<1>2. poolInfo[p] \in Pool BY InvFacts
<1>3. CanUpdate(S) BY UpdateMints
<1>4. /\ p \in S => new.accAlpacaPerShare = Fresh(S)[p].accAlpacaPerShare /\ new.lastRewardBlock = Fresh(S)[p].lastRewardBlock
      /\ p \notin S => new = poolInfo[p]
  OBVIOUS
<1> HIDE DEF new
<1>5. SumAt(new, block, bonus, alpacaPerBlock, totalAllocPoint) = sum /\ sum \in Nat
  BY <1>1, <1>3, <1>4, UpdateKeepsSum
<1>6. SumAt(new, block', bonus, alpacaPerBlock, totalAllocPoint) = sum BY <1>5
<1> HIDE DEF sum
<1>7. sum <= sum BY <1>5
<1> QED BY <1>1, <1>2, <1>5, <1>6, <1>7 DEF SumKept, new, sum

\* An update of one pool, which is then of another size.
LEMMA ResizedKeepsSums ==
  ASSUME FairLaunchAssumption, StakesInv, StakesInv', totalAllocPoint # 0, block' = block,
         NEW pid \in Pids, Update({pid}), NEW size, poolInfo' = Resized(Fresh({pid}), pid, size), NEW p \in Pids
  PROVE  SumKept(p)
PROOF
<1> DEFINE S == {pid}
           pools == Fresh(S)
<1>1. S \in SUBSET Pids /\ Update(S) /\ (p \in S <=> p = pid) OBVIOUS
<1> HIDE DEF S
<1>2. pools \in Seq(Pool) /\ DOMAIN pools = Pids BY <1>1, UpdateMints, FreshPools DEF StakesInv
<1>3. pools[pid] \in Pool BY <1>2
<1>4. p \notin S => pools[p] = poolInfo[p] BY DEF Fresh
<1>5. poolInfo' = [pools EXCEPT ![pid].lpSupply = size] BY DEF Resized, S
<1> HIDE DEF pools
<1>6. p \in DOMAIN poolInfo' BY <1>2, <1>5
<1>7. p \in S => /\ poolInfo'[p].accAlpacaPerShare = pools[p].accAlpacaPerShare
                 /\ poolInfo'[p].lastRewardBlock = pools[p].lastRewardBlock
  <2> DEFINE new == [pools[pid] EXCEPT !.lpSupply = size]
  <2>1. new.accAlpacaPerShare = pools[pid].accAlpacaPerShare /\ new.lastRewardBlock = pools[pid].lastRewardBlock
    BY <1>3 DEF Pool
  <2>2. poolInfo'[pid] = new BY <1>2, <1>5
  <2> HIDE DEF new
  <2> QED BY <1>1, <2>1, <2>2
<1>8. p \notin S => poolInfo'[p] = poolInfo[p] BY <1>1, <1>2, <1>4, <1>5
<1> QED BY <1>1, <1>6, <1>7, <1>8, UpdatesKeepSums DEF pools

\* Leaving in emergency, without an update, makes the others' share of the next one larger.
LEMMA EmergencyKeepsSums ==
  ASSUME FairLaunchAssumption, StakesInv, StakesInv', totalAllocPoint # 0,
         NEW pid \in Pids, NEW u \in Users, emergencyWithdraw(u, pid), NEW p \in Pids
  PROVE  SumKept(p)
PROOF
<1> DEFINE size == poolInfo[pid].lpSupply - userInfo[pid][u].amount
           old == poolInfo[p]
           new == poolInfo'[p]
           sum(q) == SumAt(q, block, bonus, alpacaPerBlock, totalAllocPoint)
<1>1. /\ block \in Nat /\ bonus \in Bonuses /\ alpacaPerBlock \in Nat /\ totalAllocPoint \in Nat \ {0}
      /\ \A q \in Pids : poolInfo[q] \in Pool /\ poolInfo[q].lpSupply \in Nat /\ poolInfo[q].lastRewardBlock <= block
      /\ poolInfo \in Seq(Pool) /\ Pids = DOMAIN poolInfo
  BY InvFacts DEF SettingsOK, Bonuses, Pids
<1>2. poolInfo' = [poolInfo EXCEPT ![pid].lpSupply = size] /\ block' = block /\ poolInfo[pid].lpSupply >= userInfo[pid][u].amount
  BY <1>1 DEF emergencyWithdraw
<1>3. size \in Nat /\ size <= poolInfo[pid].lpSupply
  <2>1. userInfo[pid][u].amount \in Nat /\ poolInfo[pid].lpSupply \in Nat BY OldStake
  <2> QED BY <1>2, <2>1
<1>4. old \in Pool /\ old.lastRewardBlock <= block /\ sum(old) \in Nat BY <1>1, SumsGrow
<1>5. ASSUME p # pid PROVE SumKept(p)
  <2>1. new = old BY <1>1, <1>2, <1>5
  <2> HIDE DEF old
  <2>2. sum(new) = sum(old) /\ new \in Pool BY <1>4, <2>1
  <2>3. sum(old) <= sum(new) BY <1>4, <2>2
  <2> QED BY <1>2, <1>4, <2>2, <2>3 DEF SumKept, old
<1>6. ASSUME p = pid PROVE SumKept(p)
  <2>1. new = [old EXCEPT !.lpSupply = size] BY <1>1, <1>2, <1>6
  <2>2. size <= old.lpSupply /\ old.lpSupply \in Nat BY <1>1, <1>3, <1>6
  <2> HIDE DEF size, old, new
  <2>3. new \in Pool /\ new.lastRewardBlock = old.lastRewardBlock /\ new.lpSupply = size BY <1>3, <1>4, <2>1 DEF Pool
  <2>4. sum(new) \in Nat BY <1>1, <1>4, <2>3, SumsGrow
  <2>5. size # 0 => sum(old) <= sum(new) BY <1>1, <1>3, <1>4, <2>1, <2>2, SumsGrow
  <2>6. size = 0 => \A v \in Users : userInfo'[p][v].amount = 0
    <3> SUFFICES ASSUME size = 0 PROVE \A v \in Users : userInfo'[p][v].amount = 0 OBVIOUS
    <3>1. p \in DOMAIN poolInfo' /\ poolInfo'[p].lpSupply = 0 BY <1>1, <1>2, <2>3 DEF new
    <3>2. userInfo' \in AllStakes BY DEF StakesInv, TypesOK, AllStakes
    <3>3. StakedIn(userInfo', p) <= 0 BY <3>1 DEF StakesInv, Backed
    <3>4. p \in 1 .. MaxPools BY InvFacts
    <3> QED BY <3>2, <3>3, <3>4, NobodyStakes
  <2>7. sum(old) <= sum(new) \/ \A v \in Users : userInfo'[p][v].amount = 0 BY <2>5, <2>6
  <2> QED BY <1>2, <1>4, <2>3, <2>4, <2>7 DEF SumKept, old, new
<1> QED BY <1>5, <1>6

\* Every step but a donation, with the same rates and points, keeps what a pool is worth per share.
LEMMA StepsKeepSums ==
  ASSUME FairLaunchAssumption, StakesInv, StakesInv', [Next]_vars, UNCHANGED <<settings, totalAllocPoint>>,
         totalAllocPoint # 0, \A pid \in Pids : ~donate(pid), NEW p \in Pids
  PROVE  SumKept(p)
PROOF
<1> DEFINE sum(b) == SumAt(poolInfo[p], b, bonus, alpacaPerBlock, totalAllocPoint)
<1>0. /\ block \in Nat /\ bonus \in Bonuses /\ alpacaPerBlock \in Nat /\ totalAllocPoint \in Nat \ {0}
      /\ poolInfo[p] \in Pool /\ poolInfo[p].lastRewardBlock \in Nat /\ poolInfo[p].lastRewardBlock <= block
      /\ poolInfo \in Seq(Pool) /\ Pids = DOMAIN poolInfo /\ Pids = 1 .. Len(poolInfo)
  BY InvFacts DEF SettingsOK, Bonuses, Pids, Pool
<1>a. ASSUME poolInfo' = poolInfo, block' = block PROVE SumKept(p)
  <2>1. sum(block) \in Nat BY <1>0, SumsGrow
  <2>2. sum(block) <= sum(block) BY <2>1
  <2> QED BY <1>0, <1>a, <2>1, <2>2 DEF SumKept
<1>1. CASE NextBlock
  <2>1. block' = block + 1 /\ poolInfo' = poolInfo BY <1>1 DEF NextBlock
  <2>2. sum(block) \in Nat /\ sum(block) <= sum(block + 1) BY <1>0, SumsGrow
  <2>3. block + 1 \in Nat /\ poolInfo[p].lastRewardBlock <= block + 1 BY <1>0
  <2>4. sum(block + 1) \in Nat BY <1>0, <2>3, SumsGrow
  <2> QED BY <1>0, <2>1, <2>2, <2>4 DEF SumKept
<1>2. CASE setAlpacaPerBlock BY <1>2, <1>a DEF setAlpacaPerBlock
<1>3. CASE setBonus BY <1>3, <1>a DEF setBonus
<1>4. CASE addPool
  <2>1. PICK allocPoint \in AllocPoints, withUpdate \in BOOLEAN :
          LET S == IF withUpdate THEN Pids ELSE {}
              pool == [allocPoint |-> allocPoint, lastRewardBlock |-> block, lpSupply |-> 0,
                       accAlpacaPerShare |-> 0, accAlpacaPerShareTilBonusEnd |-> 0]
          IN Update(S) /\ poolInfo' = Append(Fresh(S), pool)
    BY <1>4 DEF addPool
  <2> DEFINE S == IF withUpdate THEN Pids ELSE {}
             pool == [allocPoint |-> allocPoint, lastRewardBlock |-> block, lpSupply |-> 0,
                      accAlpacaPerShare |-> 0, accAlpacaPerShareTilBonusEnd |-> 0]
             pools == Fresh(S)
  <2>2. S \in SUBSET Pids /\ Update(S) /\ poolInfo' = Append(pools, pool) /\ block' = block BY <1>4, <2>1 DEF addPool
  <2>3. pool \in Pool BY <1>0 DEF Pool, FairLaunchAssumption
  <2> HIDE DEF S, pool
  <2>4. pools \in Seq(Pool) /\ Len(pools) = Len(poolInfo) BY <2>2, UpdateMints, FreshPools DEF StakesInv
  <2>5. p \notin S => pools[p] = poolInfo[p] BY DEF Fresh
  <2> HIDE DEF pools
  <2>6. p \in 1 .. Len(pools) BY <1>0, <2>4
  <2>7. p \in DOMAIN poolInfo' /\ poolInfo'[p] = pools[p] BY <2>2, <2>3, <2>4, <2>6
  <2> QED BY <2>2, <2>5, <2>7, UpdatesKeepSums DEF pools
<1>5. ASSUME NEW pid \in Pids, setPool(pid) PROVE SumKept(p)
  <2>1. PICK allocPoint \in AllocPoints : poolInfo' = [Fresh(Pids) EXCEPT ![pid].allocPoint = allocPoint]
    BY <1>5 DEF setPool
  <2> DEFINE pools == Fresh(Pids)
             new == [pools[pid] EXCEPT !.allocPoint = allocPoint]
  <2>2. Pids \in SUBSET Pids /\ Update(Pids) /\ block' = block BY <1>5 DEF setPool
  <2>3. pools \in Seq(Pool) /\ DOMAIN pools = Pids BY <2>2, UpdateMints, FreshPools DEF StakesInv
  <2>4. poolInfo' = [pools EXCEPT ![pid] = new] BY <2>1
  <2> HIDE DEF pools
  <2>5. new.accAlpacaPerShare = pools[pid].accAlpacaPerShare /\ new.lastRewardBlock = pools[pid].lastRewardBlock
    <3>1. pools[pid] \in Pool BY <2>3
    <3> QED BY <3>1 DEF Pool
  <2> HIDE DEF new
  <2>6. /\ p \in DOMAIN poolInfo'
        /\ poolInfo'[p].accAlpacaPerShare = pools[p].accAlpacaPerShare
        /\ poolInfo'[p].lastRewardBlock = pools[p].lastRewardBlock
    BY <2>3, <2>4, <2>5
  <2> QED BY <2>2, <2>6, UpdatesKeepSums DEF pools
<1>b. ASSUME NEW pid \in Pids, Update({pid}), poolInfo' = Fresh({pid}), block' = block PROVE SumKept(p)
  <2> DEFINE S == {pid}
  <2>1. S \in SUBSET Pids /\ Update(S) /\ poolInfo' = Fresh(S) BY <1>b
  <2> HIDE DEF S
  <2>2. p \in DOMAIN poolInfo' /\ (p \notin S => poolInfo'[p] = poolInfo[p]) BY <2>1 DEF Fresh
  <2> QED BY <1>b, <2>1, <2>2, UpdatesKeepSums
<1>6. ASSUME NEW pid \in Pids, touchPool(pid) PROVE SumKept(p) BY <1>6, <1>b DEF touchPool
<1>7. ASSUME NEW pid \in Pids, NEW u \in Users, harvest(u, pid) PROVE SumKept(p) BY <1>7, <1>b DEF harvest
<1>8. ASSUME NEW pid \in Pids, NEW u \in Users, emergencyWithdraw(u, pid) PROVE SumKept(p)
  BY <1>8, EmergencyKeepsSums
<1>9. ASSUME NEW pid \in Pids, NEW u \in Users, NEW _for \in Users, NEW amount \in 0 .. MaxStake,
             deposit(u, _for, pid, amount)
      PROVE  SumKept(p)
  <2> DEFINE size == Fresh({pid})[pid].lpSupply + amount
  <2>1. poolInfo' = Resized(Fresh({pid}), pid, size) BY <1>9 DEF deposit, Resized
  <2> HIDE DEF size
  <2>2. Update({pid}) /\ block' = block BY <1>9 DEF deposit
  <2> QED BY <2>1, <2>2, ResizedKeepsSums
<1>10. ASSUME NEW pid \in Pids, NEW u \in Users, NEW _for \in Users, NEW amount \in 0 .. MaxStake,
              withdraw(u, _for, pid, amount)
       PROVE  SumKept(p)
  <2> DEFINE size == Fresh({pid})[pid].lpSupply - amount
  <2>1. poolInfo' = Resized(Fresh({pid}), pid, size) BY <1>10 DEF withdraw, Resized
  <2> HIDE DEF size
  <2>2. Update({pid}) /\ block' = block BY <1>10 DEF withdraw
  <2> QED BY <2>1, <2>2, ResizedKeepsSums
<1>11. CASE UNCHANGED vars BY <1>11, <1>a DEF vars
<1> QED BY <1>1, <1>2, <1>3, <1>4, <1>5, <1>6, <1>7, <1>8, <1>9, <1>10, <1>11 DEF Next

\* No step of others lowers what a staker could harvest, unless a rate, the bonus or the total of points
\* changes or stake tokens are sent to the contract.
THEOREM OthersLeaveRewards == Spec => OthersKeepTheirRewards
PROOF
<1> USE FairLaunchAssumption
<1>1. Init => StakesInv BY StakesInvHolds
<1>2. StakesInv /\ [Next]_vars => StakesInv' BY StakesInvIsKept
<1> DEFINE Kept == UNCHANGED <<settings, totalAllocPoint>> /\ totalAllocPoint # 0 /\ (\A pid \in Pids : ~donate(pid)) =>
                     \A p \in Pids, u \in Users :
                       userInfo'[p][u] = userInfo[p][u] => pendingAlpaca(p, u) <= pendingAlpaca(p, u)'
<1>3. StakesInv /\ StakesInv' /\ [Next]_vars => Kept
  <2> SUFFICES ASSUME StakesInv, StakesInv', [Next]_vars, UNCHANGED <<settings, totalAllocPoint>>,
                      totalAllocPoint # 0, \A pid \in Pids : ~donate(pid),
                      NEW p \in Pids, NEW u \in Users, userInfo'[p][u] = userInfo[p][u]
               PROVE  pendingAlpaca(p, u) <= pendingAlpaca(p, u)'
    OBVIOUS
  <2>1. SumKept(p) BY StepsKeepSums
  <2> DEFINE user == userInfo[p][u]
             x == SumAt(poolInfo[p], block, bonus, alpacaPerBlock, totalAllocPoint)
             y == SumAt(poolInfo'[p], block', bonus, alpacaPerBlock, totalAllocPoint)
  <2>2. user \in Stake BY OldStake
  <2>3. x \in Nat /\ y \in Nat /\ (x <= y \/ user.amount = 0) BY <2>1 DEF SumKept
  <2>4. pendingAlpaca(p, u) = WorthAt(user, x) BY <2>1, PendingIsWorth DEF SumKept
  <2>5. pendingAlpaca(p, u)' = WorthAt(user, y)
    <3>1. poolInfo'[p] \in Pool BY <2>1 DEF SumKept
    <3>2. bonus' = bonus /\ alpacaPerBlock' = alpacaPerBlock /\ totalAllocPoint' = totalAllocPoint BY DEF settings
    <3>3. pendingAlpaca(p, u)' =
            WorthAt(userInfo'[p][u], SumAt(poolInfo'[p], block', bonus', alpacaPerBlock', totalAllocPoint'))
      BY <3>1, PendingIsWorth
    <3> QED BY <3>2, <3>3
  <2> HIDE DEF user, x, y
  <2>6. WorthAt(user, x) <= WorthAt(user, y) BY <2>2, <2>3, WorthGrows
  <2> QED BY <2>4, <2>5, <2>6
<1>4. OthersKeepTheirRewards <=> [][Kept]_vars BY DEF OthersKeepTheirRewards
<1> QED BY <1>1, <1>2, <1>3, <1>4, PTL DEF Spec

==============================================================================
