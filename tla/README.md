# Formal model of the Alpaca Finance contracts and their deployment

Alpaca Finance is a leveraged yield-farming protocol in Solidity. Lenders put a
token into a *vault* and hold ibTokens against it; farmers borrow from the
vault into leveraged positions; *workers* run the positions on an exchange with
the help of *strategies*; whitelisted liquidators close positions that fall
under water. Around this core sit reward distributors, share vaults that hold
vault positions themselves, and governance.

Most of the repository's own TypeScript deploys, configures and checks these
contracts: nearly two hundred scripts that send transactions, queue calls in the
timelock and keep a configuration file.

This directory holds TLA+ modules translated from `src/solidity/contracts`,
`src/deploy` and `src/scripts`, TLC configurations that check them on small
instances, and TLAPS proofs of the main results for every instance.

## The system

| Component | State | Operations | Talks to |
| --- | --- | --- | --- |
| `6/protocol/Vault.sol` | token balance, `reservePool`, ibToken supply, `vaultDebtShare`, `vaultDebtVal`, `positions`, `lastAccrueTime`, execution scope | `deposit`, `withdraw`, `work`, `addCollateral`, `kill`, `requestFunds`, `withdrawReserve`, `reduceReserve`, `setFairLaunchPoolId`, `updateConfig` | config, workers, FairLaunch |
| `interest-models/*` | none | `getInterestRate` | called by the vault through its config |
| `ConfigurableInterestVaultConfig`, `WorkerConfig` | factors, fees, whitelists | setters, `isStable`, `workFactor`, `killFactor`, `acceptDebt` | oracle, exchange pair |
| workers (`workers/*`) | `shares`, `totalShare`, `buybackAmount`, stake in a MasterChef | `work`, `reinvest`, `liquidate`, `health` | vault, strategies, exchange |
| strategies | none | `execute` | worker, vault (`requestFunds`), exchange |
| `OracleMedianizer`, price oracles | feeds | `getPrice`, `setPrices` | `WorkerConfig` |
| `token/FairLaunch`, `FairLaunchV2`, `MiniFL` | pools, user stakes, reward per share | `deposit`, `withdraw`, `harvest`, `emergencyWithdraw`, pool administration | ALPACA token, vaults |
| `GrazingRange` | campaigns, reward phases, user stakes | `deposit`, `withdraw`, `harvest`, emergency exits | ERC20s |
| `AlpacaToken` | balances, `_locks`, `_lastUnlockBlock`, votes | `mint`, `lock`, `unlock`, `transferAll`, delegation | FairLaunch |
| `Timelock` | `queuedTransactions`, `delay`, `admin`, `pendingAdmin` | `queueTransaction`, `cancelTransaction`, `executeTransaction` | owns everything else |
| `DeltaNeutralVault*`, `DirectionalVault` | share supply, two position ids, last equity | `deposit`, `withdraw`, `rebalance`, `reinvest` | two vaults, two workers |
| `AutomatedVaultController`, creditors | credit limits | `onDeposit`, `onWithdraw` | delta-neutral vaults |

| scripts (`deploy/exec`) | the local `nonce`, the list of timelock calls | deploy, send, queue, write, save | deployers, timelock service, configuration file, the node |
| deployers, `services/timelock.ts`, `services/multisig` | none | `deploy`, `upgrade`, `queueTransaction`, `proposeTransaction` | the node, the Gnosis Safe, `services/file.ts` |
| `helper/config-file-helper.ts` | a copy of the configuration file | the setters, each of which writes the file | the file, `helper/converter.ts` |
| `scripts/validate-config.ts`, `adaptors/workerlike` | none | compares the file with the chain | multicall |

The contracts run in transactions, one at a time: what makes them hard is not
threads but calls that leave a contract half-way. `work`, `addCollateral` and
`kill` call a worker, which calls a strategy, which swaps on an exchange, sends
tokens and may call back. Meanwhile the vault's debt and balance do not match.
A failed call is undone as a whole, except where the code catches the failure
(`_fairLaunchWithdraw`). Everything is counted in shares with rounding
divisions, so that long sequences of small operations matter.

The scripts are hard in another way. They are asynchronous processes against a
node and a chain: a transaction that was sent is not yet mined, the deployer's
nonce is counted in two places (by the node and by the script's `nonce++`), any
step may throw, and an operator then starts the script again while earlier
transactions may still be pending. What they leave behind, a configuration
file and a record of queued calls, is the input of the next script.

What makes each component correct, in a sentence:

* Vault: lenders lose nothing but bad debt; a farmer's debt changes by their
  own calls and interest only; positions are killed only when under water;
  nobody but the caller pays.
* Interest models: a tighter pool never gets cheaper, no pool pays more than
  the top rate.
* Workers: shares of LP tokens add up, nobody's LP tokens move with another
  position, rewards parked in the buffer are not swept into a position.
* FairLaunch, MiniFL, GrazingRange: rewards paid never exceed rewards emitted,
  a staker gets what was emitted while they staked, stakes are always backed.
* ALPACA token: the cap holds, locked tokens come free linearly and once.
* Timelock: nothing runs before its delay, twice, or stale.
* Delta-neutral vaults: a depositor neither dilutes nor is diluted beyond the
  tolerance of the health checks.

* Scripts: no transaction waits behind a nonce nobody uses or displaces another;
  nothing is queued without a record.
* Configuration file: it names only what is deployed, and only after the calls
  that wire it were made; it never mixes entries of different deployments.
* Configuration check: what it reports is what the chain said.

`PROJECT.json` lists the components, the hazards of the code at their lines
and which property covers which.

## Modules

| Module | What it is |
| --- | --- |
| `InterestModel` | `TripleSlopeModel.getInterestRate` as an operator. All `TripleSlopeModel<n>` have the same body and other constants; `TwoSlopeModel` is the case of equal kinks |
| `InterestCalls` | calls of it one after another: the properties of the rate |
| `DebtPool` | the arithmetic of debt shares: conversions, `_addDebt`, `_removeDebt`, interest, and what a sound debt pool is |
| `Vault` | the vault: state, one action per function, the properties |
| `LendingPool` | abstract specification: what a vault promises its lenders |
| `VaultLending` | the refinement mapping from `Vault` to `LendingPool` |
| `VaultInvariant` | the inductive invariants: `IInv`, and with it `StakesCover` and `OnlyOneMoved`; what a reader of `totalToken` sees while a call waits |
| `MCVault` | `Vault` for TLC |
| `ArithmeticLemmas` | facts on products and quotients, and on sums over finite sets |
| `InterestModelProofs`, `InterestCallsProofs` | the rate |
| `VaultProofs` | what the operators of `DebtPool` preserve for every pool, the invariants, and every property of `Vault` that follows |
| `FairLaunch` | the reward distributor: blocks, rates, bonus, pools, stakes and their funders |
| `MCFairLaunch` | `FairLaunch` for TLC |
| `FairLaunchProofs` | what it owes is there, what it mints was announced, what it locks it pays, and nobody lowers what another may harvest |
| `ScriptSteps` | the steps a script is made of |
| `WorkerScripts`, `VaultScripts`, `ConfigScripts`, `DeltaNeutralScripts`, `StrategyScripts`, `ProtocolScripts` | every script of `deploy/exec` as its sequence of steps |
| `ScriptRunner` | a script running against a node: what the steps do, crashes, reverts, new starts |
| `OrderlyScript` | abstract specification: the calls of a script, sent and mined in the order in which they are written |
| `ScriptProperties` | which scripts count their nonces correctly, the properties of runs, and the refinement mapping to `OrderlyScript` |
| `ScriptCatalogue` | all scripts, for every way the contracts are owned, and the known exceptions; the module TLC checks |
| `ScriptRunnerProofs` | the properties for every script, correct or not yet written |
| `ConfigFile` | the configuration file and the processes that write it |
| `MCConfigFile` | `ConfigFile` for TLC |
| `ConfigFileProofs` | its invariant, and that nothing is lost while processes take turns |
| `WorkerChecks` | what each adaptor of `validate-config.ts` compares |
| `ValidateConfig` | `validate-config.ts` against a chain that changes meanwhile |
| `MCValidateConfig` | `ValidateConfig` for TLC |
| `ValidateConfigProofs` | what each verdict means, for every file and every change meanwhile |

### How `Vault` corresponds to `Vault.sol`

| Code | Model |
| --- | --- |
| `SafeToken.myBalance(token)` | `bal` |
| `vaultDebtShare`, `vaultDebtVal`, `positions[id].debtShare` | the record `debt` |
| `positions[id].worker`, `.owner` | `positions` |
| `now - lastAccrueTime` | `timePast`, the only way the code uses the two |
| `POSITION_ID`, `STRATEGY` | the same; `NO_ID` and `NoAddr` are `_NO_ID` and `_NO_ADDRESS` |
| stakes the vault makes in FairLaunch | `stake` |
| locals of `work`, `addCollateral`, `kill` that live across the worker call | the record `tx` |
| `_status` of `ReentrancyGuard` | `tx.kind = "none"` |
| what the EVM restores when a call fails | `saved` |

`work`, `addCollateral` and `kill` are two actions each, `begin...` for
everything before the worker is called and `finish...` for everything after.
Between them the world may act: `receiveToken` (a strategy returns funds, a
worker pays rewards to the lenders, anybody sends tokens), `requestFunds` (the
strategy in scope charges the position owner), `reduceReserve` and
`setFairLaunchPoolId` (not guarded against re-entrance in the code either), and
`Revert`, which puts `saved` back. `deposit`, `withdraw`, `withdrawReserve` and
the three calls themselves are guarded and start only when no call waits.
`accrue` is part of every action whose function has the modifier.

Abstractions:

* A worker is a callee that may return any amount. The health it reports is an
  input of each reading: markets and workers move it at will.
* The principal of `work` and `addCollateral` enters and leaves the vault in
  one call, before anybody else acts, and is left out; so is `value` in
  `pendingInterest(value)`, which subtracts it again.
* The configuration is constant (`updateConfig` and the setters of the config
  contracts, which could also change the rate of time that has passed, are not
  modelled). `acceptDebt`, `isWorkerStable`,
  `isWorkerReserveConsistent`, the whitelists and the EOA check only refuse
  calls; the model lets the calls through, which covers both.
* ibToken transfers, `_safeUnwrap`'s unwrapping of the native coin, events and
  names are left out. `_IN_EXEC_LOCK` only keeps `requestFunds` from calling
  itself; here it is one step. Deposits and withdrawals of 0 are left out: they
  only accrue.
* FairLaunch accepts the vault's deposits or the call fails (`Revert`); its
  withdrawals may fail at any time without failing the call, as the code allows.
* Integers do not wrap: the code uses SafeMath, whose failures are guards or
  `Revert`. The amounts are far from 2^256.

### How `FairLaunch` corresponds to `FairLaunch.sol`

`poolInfo`, `userInfo`, `alpacaPerBlock`, `totalAllocPoint` are those of the
code; `bonus` is `bonusMultiplier` with `bonusEndBlock`; `lpSupply` of a pool is
the contract's balance of the stake token, so that tokens sent without a deposit
(`donate`) count, as they do in the code; `alpaca` is the contract's own balance
and `supply` what it has minted, with what dev gets. `Update(S)` is
`massUpdatePools` for the pools of S with its ways to fail (a division by a
`totalAllocPoint` of 0, the cap), and `Fresh(S)` the pools afterwards; every
action that calls `updatePool` includes both. `harvestPays` is `_harvest`: like the code it
requires the balance for the whole reward. The deposit of a vault for its farmer is a
`deposit` with another `_for`. `announced`, `paidIn` and `touched` are history.

The model starts at the start block or later, so that a new pool's `lastRewardBlock`,
the later of it and the present block (`FairLaunch.sol:143`), is the present one.
Left out: `setDev` and `manualMint`; that the locked part needs
ALPACA to lock, which `BonusWithinReward` is about; pools that share a stake
token, which `isDuplicatedPool` refuses, and a pool of ALPACA itself.

### How `ScriptRunner` corresponds to `deploy/`

A script is a sequence of steps, translated line by line from its source: which
call, made for which item of the input, with which nonce (`nonce++`, `nonce`, or left
to the node), whether its receipt is awaited, under which test of an owner, and where the
script reads the counter, writes its record or saves an address.

| Code | Model |
| --- | --- |
| `await deployer.getTransactionCount()` | `DoCount`: mined transactions only, as the default block tag says |
| `contract.method(..., { nonce: nonce++ })` | `DoSend`: the node accepts, displaces or refuses |
| `.wait()`, `.deployed()` | status `waiting` and `GetReceipt`, which throws on a revert |
| `upgrades.prepareUpgrade` | `DoSend` or, when the implementation exists, `SkipPrepare` |
| `TimelockService.queueTransaction` | `DoSend` when the deployer is the timelock's admin, otherwise `Propose` |
| `fileService.writeJson` | `DoWrite`; a title with the time of day is the run's own file, another is shared |
| `ConfigFileHelper` | `DoSave`; what the setters do is `ConfigFile` |
| `convert...`, `find` | `DoLookup`: the name is there or the script throws |
| the pending transactions of the node | `pool`, by nonce; `Mine` takes the next nonce only |
| a process that dies, a connection that drops | `Throw`; the operator's new start is `Rerun` |

`Disciplined` reads the steps of a script: every nonce of its own is taken from a
counter that was read when nothing was pending and has kept pace since. The
properties of nonces are stated for disciplined scripts, and `DriftIsKnown`
checks that every script is disciplined, for every ownership and admin, but for
these:

| Why | Scripts |
| --- | --- |
| always: the counter is read while a call is pending | `MdexWorkers02`, `WaultSwapWorkers02` |
| always: the counter starts from a number in the source | `UpgradeVault`, `SetConfigs` (`set-configs.ts:56`), `SetRewardPath`, `SetStrategyOk`, `UpgradeWorkers`, `UpgradeRevenueTreasury` |
| the deployer is the admin: read before `prepareUpgrade` sends, or behind an unawaited call (`delta-neutral-vault04.ts:121`) | `UpgradeVaultConfig`, `UpgradeDeltaNeutralVault`, `UpgradeDeltaNeutralVaultConfig`, `UpgradeDeltaNeutralVaultGateway`, `DeployDeltaNeutralVault04` |
| the deployer is the admin: some calls count, some do not | `SetWhitelistedLiquidators`, `SetBeneficialVaultConfig` |
| the Safe is the admin: a proposal uses up a number, and calls of the deployer follow | six worker scripts, `DeployVault`, `SetParams`, `SetWhitelistedCallers`, `SetDeltaNeutralParams`, `SetWhitelistedCallersOfVaults`, `SetSwapRouter` |

`withdraw-reserve.ts`, which is not in the catalogue, gives numbers to all its calls and
then starts them in parallel (line 66): they reach the node in any order, and
when one throws the numbers after it wait.

A call is identified by its step and the run that made it (`Made`), since a script that
is started again deploys everything anew and then calls, queues and saves other
addresses: nothing a later run does makes up for what an earlier one left undone.

Input lists are two items long; the second lacks the optional parts. Two items
show everything a loop can do to the counter: an item after another of either
kind. Titles, amounts and arguments are left out.

### How `ConfigFile` corresponds to `config-file-helper.ts`

`config[p]` is the module-level copy a process imports when it starts, `file` the file.
Each setter is an operator on the copy, and each action is a script that deploys
something and calls the setter. Addresses are numbers given out in order; token, strategy
and other single-address setters are one action (`SetField`). The chain keeps what
the file talks about: which positions a vault opened, which vault a gateway
serves, which creditors were sent to which controller.

A write is one step: a process killed in the middle of `writeFileSync`
(`config-file-helper.ts:263`), which would leave half a file, is not modelled. Nor are
the moments between two writes that follow each other without an `await`:
`delta-neutral-vault04.ts` saves the entry of a vault and then its token (lines
185 and 186), which is one step of `DeployDeltaNeutralVault`.

### How `ValidateConfig` corresponds to `validate-config.ts`

A worker is its entry and the set of checks in which contract and file disagree
at the moment (`wrong`). `validateWorkers` runs all workers of a vault at once,
so that their steps interleave; a multicall reads one block; owners flip
strategies and approvals in between. A rejection outside a `try` ends the
process, as in the code. `BETH-ETH PancakeswapWorker`, which `validateWorker` skips by
its name before it chooses an adaptor, gets no verdict (`Skipped`). The adaptor for Biswap
asks for the partial close strategies also when the file names none, then for that
of address 0, and expects that the worker accepts it: these checks always fail
(`ZeroStrategies`), while the other checks fail when the contract and the file differ. A
worker can only differ from the file in what it has and the file names (`Compared`).

A definition whose name ends in a suffix after an underscore and whose comment
begins with "Mutant" (`deposit_Reentrant`, `RemoveDebt_KeepsShare`, ...) is the
definition below it with a plausible bug. No specification uses them. They are
there to show that each property can fail: with the mutant in place of the
original, TLC finds a counterexample in the same configuration.

## What TLC checks

| Run | Question | Instance |
| --- | --- | --- |
| `interest_calls` | Is the rate monotone and bounded? | every pair of pools with up to 30 tokens lent and 30 left, kinks at 60% and 90% as in `TripleSlopeModel`, `WAD` = 100 |
| `vault_debt` | Is the debt shared out soundly, and is `IInv` invariant? What does `totalToken` show during a call, and who changes the price of the past? | one user, two positions, debt up to 5, health 0, 2 or 6, reserve share 50% |
| `vault_lenders` | What can lenders lose? Do they see a `LendingPool`? | one user, one position, up to 5 tokens and ibTokens, debt up to 4 |
| `vault_calls` | Who pays through `requestFunds`? Are stakes always there for the shares? | two users, two positions, a strategy that asks whenever it may, two FairLaunch pools, stakes up to 3 |
| `fairlaunch_stakes` | Is everything staked and earned there, whatever others do? | two users staking for each other in a pool of up to 3 tokens, 3 blocks, up to 5 changes of stakes, a cap of 4 |
| `fairlaunch_emission` | Is what is minted, and locked, what was announced? | a careful owner, two pools, one user, one token a pool, 3 blocks, a bonus that ends in between |
| `fairlaunch_bonus` | The same for any owner: violated | two users, one pool, 4 blocks, a bonus at any time |
| `scripts` | Do nonces, wiring and files stay in order? Does a run look like an `OrderlyScript`? Do scripts end? | every script with every ownership and admin; eight are started twice, one revert |
| `scripts_retried` | The same with transactions of the earlier run still pending | twelve scripts, one of each kind, two runs, one revert |
| `config` | Is the file one consistent whole? | two processes, three starts, five addresses, one delta-neutral vault, two workers, one creditor name, one pool |
| `validate` | Does the check say what the chain said? | two vaults, six workers: of three adaptors (that for Biswap with and without partial close strategies), of an unknown name, and the skipped one; two changes of the chain |
| `validate_approvals` | Does "no problem found" mean approved? Violated | one vault, two workers |

The amounts are small but not too small: with `BPS` = 100, fees of 40% and 10%,
rates of up to 150% a tick and balances of up to 5 tokens, every division of the
code rounds somewhere, a share is worth more than a token after one accrual,
liquidations with and without loss happen, loans empty the vault, the "no tiny
shares" limit bites and minimum debt refuses. `MaxToken`, `MaxSupply`,
`MaxDebt`, `MaxReserve`, `MaxStake`, `MaxTimePast` and `MaxPositions` are the
bounds; they are guards and only cut off behaviours. `MaxTimePast` = 0 in
`vault_calls` turns interest off, on which neither question depends.
Users are interchangeable (`UserSymmetry`, in a run without temporal
properties). Every instance of the vault can always take a step (these configurations
keep the deadlock check), because tokens can be sent, calls undone or positions
opened. The other systems really stop: a script ends, blocks and starts are
bounded.

In `FairLaunch`, `PRECISION` = 2 makes every division round and lets the
rounding of several stakes add up; `MaxStake`, `MaxBlock`, `MaxTouched` and
`MaxPools` are bounds. `Careful` says that the owner updates every pool before a rate or
the bonus changes and gives a bonus only while nothing was paid outside of one.
For scripts `MaxRuns` = 2 is one failure and one new start, and
`MaxReverts` = 1 one revert anywhere; the constraint `StartedAgain` keeps the
run with all scripts small by starting only one script of each kind again.
`Patient` says that the operator waits until nothing is pending before starting again; `scripts_retried`
is without it. In `ConfigFile`, three starts with two processes include two at
once, one that dies, and one after both; five addresses are enough for a vault
to be deployed with its configuration, a gateway or positions, and deployed again. In
`ValidateConfig` two changes suffice for a strategy to be replaced by another
while a worker is read; `Differs` says for each worker in which checks it may
differ, at most two, and in at most one of them from the start: a strategy, the MasterChef
of a worker of MasterChefV2, or, for Biswap, a field that stays as it is.

The properties:

* `TypeOK`: with the types, that SafeMath's subtractions never go below zero.
* `DebtSharesAgree`, `DebtPoolSound`: the shares of the positions add up to
  `vaultDebtShare` at every moment, also while a worker is being called; no
  value is owed without shares and a share is worth at least a token, so that
  neither conversion divides by zero.
* `BystanderDebtStable`: interest apart, a call on one position moves the debt of
  another only up, and never above what one share more would have owed, and a
  token.
* `NoInstantKill`: after the owner's own `work` or `addCollateral` the position
  cannot be killed at the health just read, although the debt went through
  shares and back.
* `OnlyTheLoanIsMissing`: while a worker runs, `totalToken` (which other contracts
  read to price ibTokens) shows the accrued pool of the start of the call, what
  came in since and what the owner released from the reserve, and lacks the one loan
  in hand and nothing else.
* `OnlyOwnerRepricesPast`: what `pendingInterest` asks for the time since the last
  accrual rises by time or by `withdrawReserve`, by no other call, whether it ends or
  is undone.
* `LenderShareNeverFalls`: over committed states the price of an ibToken falls
  only when a liquidation brings in less than the debt, and by no more.
* `ImplementsLendingPool`: the vault refines `LendingPool`.
* `OnlyCallerPays`: the execution scope names a position of the caller, and is
  empty between calls.
* `FairLaunchCovers`: a farmer's stakes cover the debt shares of their
  positions, even when FairLaunch withdrawals fail or the pool id moves.
* `TighterIsDearer`, `NeverAboveTop`: the rate.

* `StakesBacked`, `RewardsCovered`: whatever was staked in whoever's name is in
  FairLaunch, and so are the rewards of all stakers together, but for less than a
  unit for each change of a stake.
* `OthersKeepTheirRewards`: what a staker could harvest (`pendingAlpaca`) is never lowered
  by deposits, withdrawals, harvests and emergencies of others, updates, new pools
  without points, or time; rates, points and tokens sent to the contract can.
* `MintsAsAnnounced`, `BonusWithinReward`: no more is minted than the rate and the
  bonus of each block say; a harvest locks no more than it pays.
* `NothingStranded`, `NothingDisplaced`, `DriftIsKnown`: the nonces, as above.
* `ImplementsOrder`: a run of a disciplined script implements `OrderlyScript`: through
  nonces, receipts, reverts, crashes and new starts, its calls are sent in the order of the
  source, none twice in a run, and mined in the order in which they were sent.
* `RunEnds`, `SentLands`: a script ends, and what it has sent lands.
* `SavedIsDeployed`, `SavedIsWired`: what the file names is on the chain, got
  there by the run that saved it; that run made every call the script makes before
  saving, and what it awaited of them has succeeded or is proposed. A call awaited for
  its submission only is mined, perhaps reverted, or on its way: nothing more
  is claimed of it, since the code does not look.
* `QueuedIsRecorded`, `AtMostOneUnrecorded`: the record of the calls a run queues is
  complete when the run ends; of a script that writes it after every call, each run
  misses at most one, wherever it dies, and later runs take nothing out of the records.
  What a run that died had queued stays as it is: the next one queues other calls.
* `EntryIsOneVault`, `ConfigBeforeVault`, `CreditorsWereSent`,
  `NothingForgotten`, `CreditorNameIsFixed`: the configuration file. The last two
  are claimed only while no two processes are at work at once: two scripts undo each
  other's entries, since each writes its whole copy.
* `CleanInOneBlock`, `NoFalseAlarm`, `EveryoneJudged`: a worker is cleared only if all its
  strategies agreed in one block (the other fields never change in the model, but for
  `masterChefV2`, which the script reads in a later block); accused only if a read failed
  or something differed, but for the workers it always accuses (`Misjudged`); and never
  forgotten, if its name is known and not the skipped one.

Liveness. `RunEnds` and `SentLands` assume weak fairness of `ScriptStep` (a
process whose next step can run runs it: `await` returns when the answer is
there) and of `Mine` (the node mines a transaction whose nonce is due). Nothing
obliges the operator to start a failed script again, and none is assumed to. No
liveness is claimed of the contracts: a contract acts when somebody calls it,
and nothing in the code makes anybody call.

### What the checks found

* `validate_approvals`: the check of approved add strategies cannot fail.
  `isApproves.find((isApprove) => isApprove === false)` returns the `false` it
  finds, or `undefined`, so the error at `validate-config.ts:191` is never thrown
  and a vault that does not approve a strategy is reported without a problem.
* `fairlaunch_bonus`: `accAlpacaPerShareTilBonusEnd` is documented as the sum
  until the end of the bonus, but while a bonus runs it is set to the whole sum. A
  bonus given after rewards have accrued outside of one makes the next harvest lock
  rewards that were already paid, out of the staker's own balance or not at
  all.

Met while modelling, without a run of their own:

* `DeltaNeutralBiswapWorker` and `DeltaNeutralSpookyWorker` fall to adaptors that ask
  for `feeDenom()` and `fee()`, which they lack, and are always reported as a
  problem. So is a worker of Biswap whose entry names no partial close strategies: its
  adaptor expects `okStrats` of address 0 to be true (`biswap-worker/index.ts:68`, `:95`).
  `NoFalseAlarm` leaves these out (`Misjudged`).
* `validate-config.ts:102` skips `BETH-ETH PancakeswapWorker` for good: whatever becomes of
  it, no run reports a problem.
* Worker scripts await `setStrategyOk` and `setWorkersOk` for their submission only
  (`biswap-workers03.ts:218` to `:228`): when one reverts, the script goes on and the file lists
  a worker that is half wired (line 356).
* Each run of a script that dies between queueing a call and writing its record loses
  that call, and a script started again three times can lose three: the
  timelock keeps hashes only, and each run queues calls for contracts of its own.
* `setAlpacaPerBlock` and `setBonus` pay the new rate for past blocks of pools that were
  not updated (`FairLaunch.sol:114`, `:127`); `MintsAsAnnounced` needs a careful owner.
* `withdrawReserve` has no `accrue` modifier (`Vault.sol:475`), unlike every other function
  that pays tokens out: it lowers the balance before the interest of the past is
  booked, so that borrowers pay the higher rate for time that has passed. Tokens sent to
  the vault do the opposite. `OnlyOwnerRepricesPast` says that nothing else does.
* `emergencyWithdraw` does not update the pool, so that the blocks since the last update
  are shared among those who stay; stake tokens sent to FairLaunch dilute those blocks
  in turn, since `lpSupply` is a balance (`FairLaunch.sol:232`).
* Rounding can leave FairLaunch a unit short of what it owes; the `require` at
  `FairLaunch.sol:331` then refuses the harvest before the tolerance of
  `safeAlpacaTransfer` (`:349`) is reached.
* A worker script started again deploys its workers anew; those of the failed run
  stay behind. Scripts that write their record under a fixed title overwrite the
  earlier run's (GrazingRange).
* The Safe executes pending transactions from the last to the first
  (`gnosis-safe/index.ts:45`).
* `AlpacaToken` (not modelled): `unlock` before `startReleaseBlock` moves
  `_lastUnlockBlock` below the start, so that the next unlock releases faster than the
  schedule; `lock`, `unlock` and `transferAll` do not move delegated votes.

## What is proved

All theorems hold for every number of positions, users, tokens, scripts, runs and
processes and for every configuration that satisfies the assumptions:

* `ConfigAssumption`: fees of a liquidation at most 100% (`setParams` enforces
  it), reserve share at most 100%, and `WorkFactor <= KillFactor`. The code
  enforces neither of the last two; they are what operators configure.
* `InterestAssumption`: kinks in order and below 100%, slopes that rise. All
  sixteen interest models in the repository satisfy it.
* `PositionsAssumption`: room for at least one position.
* `FairLaunchAssumption`: a multiplier is at least 2 (`setBonus` requires it), and
  users are finitely many, so that there is a sum of their stakes; so are FairLaunch's
  pools in `ConfigAssumption`. `Careful` is a hypothesis where it is needed.
* `CodeAssumption`: a script is a sequence of steps. `Patient` and `SavesInOrder`
  are hypotheses of the theorems that need them; TLC checks for every script of the
  catalogue that it saves a contract after deploying it (`SaveAssumption`).
* `ValidateAssumption`: every entry belongs to a vault of the file, and the checks in
  which a worker may differ are checks. That nothing changes in the middle of the script but
  strategies and the MasterChef is in `ChangeWorker`.

| Theorem | Statement |
| --- | --- |
| `Invariance` | `Spec => []IInv` |
| `TypeCorrect`, `DebtSharesAlwaysAgree`, `DebtPoolAlwaysSound`, `OnlyCallerEverPays` | the invariants of the runs |
| `OwnCallsLeaveNothingToKill` | `Spec => NoInstantKill` |
| `LenderSharesHoldTheirValue` | `Spec => LenderShareNeverFalls` |
| `VaultIsALendingPool` | `Spec => ImplementsLendingPool`, with `Interests = Nat` |
| `YearlyRateRises`, `TighterIsDearerHolds`, `NeverAboveTopHolds` | the interest model |
| `StakesAlwaysCover` | `Spec => []FairLaunchCovers` |
| `OnlyTheLoanIsEverMissing`, `OnlyOwnerReprices` | `Spec => []OnlyTheLoanIsMissing`, `Spec => OnlyOwnerRepricesPast` |
| `AccruingTwiceIsNoCheaper` | accruing in the middle of a period never asks less than accruing once at its end, but for a unit of rounding |
| `BystandersStayStable` | `Spec => BystanderDebtStable` |
| `StakesStayBacked`, `RewardsStayCovered` | `Spec => []StakesBacked`, `Spec => []RewardsCovered`: FairLaunch, for any owner |
| `OthersLeaveRewards` | `Spec => OthersKeepTheirRewards` |
| `BonusStaysWithinReward`, `MintsStayAnnounced` | `Careful` implies `Spec => []BonusWithinReward` and `Spec => []MintsAsAnnounced` |
| `NothingStrandedHolds`, `NothingDisplacedHolds` | for a patient operator and every script: the nonces |
| `ScriptsKeepOrder` | `Patient` implies `Spec => ImplementsOrder`, for every script |
| `SavedIsDeployedHolds`, `SavedIsWiredHolds`, `QueuedIsRecordedHolds` | the files; `SavedIsWired` for a patient operator |
| `AtMostOneUnrecordedHolds` | `Spec => []AtMostOneUnrecorded`, for every script and number of runs |
| `EntryIsAlwaysOneVault`, `ConfigIsAlwaysBeforeVault`, `CreditorsWereAlwaysSent` | the configuration file, for any number of processes |
| `NothingIsForgotten`, `CreditorNamesAreFixed` | `Spec => NothingForgotten`, `Spec => CreditorNameIsFixed`: while processes take turns |
| `NobodyIsForgotten`, `CleanMeansClean`, `ProblemsAreReal` | the verdicts of `validate-config.ts` |

The inductive invariant of the vault. `TypeOK`, `GoodPool(debt)` and `OnlyCallerPays` are not
inductive: when a waiting call ends, the vault must still be able to pay what
the call computed before, and the scope must be free for the next one. `IInv`
adds what holds at rest (no call, nothing saved, scope free) and what holds
while a call waits: interest is accrued, the balance has only grown since the
worker was called, the supply is unchanged, and the *ledger* of the call
balances: the lenders owned no more before the call than the vault's balance at
the worker call plus the remaining debt plus the debt the call took out of the
pool (`Outstanding`), less the reserve. With this, `finishWork` either gets the
debt back or adds it again, and `finishKill` loses at most what is missing.

The argument. The first part of `VaultProofs` shows that adding, removing and
accruing keep a pool good. `SharesAgree` carries its partial sums as a witness,
and removing or adding a share shifts the tail of the witness. `RoundTrip` shows that a value converted to shares and back
never grows, from which `NoInstantKill` follows with `WorkFactor <= KillFactor`.
`Accrual` shows that accruing never takes from lenders. `VaultProofs` then has
one lemma per action for the invariant, and a second layer (`DepositSeen`,
`WithdrawSeen`, `OtherSteps`) that says what each step is to lenders: a purchase,
a redemption, a gain, or the loss of a liquidation. Both
`LenderShareNeverFalls` and the refinement follow from that layer.

Two properties need more than `IInv`. `StakesCover` says that stakes cover shares
now, that they would again if the waiting call were undone (`saved`), and that a
call that waits has a pool to stake in when it ends. It is what
makes the failing withdrawal harmless: the vault removes the share from the debt
whether or not the stake came back. `OnlyOneMoved` says what the debt is while a
call waits: that of `saved`, accrued, and without the one position. So at the
end of a call a bystander has been through at most one `_removeDebt` and one
`_addDebt` since. `RoundingOfOthers` bounds what the two roundings do: for S
shares worth V of which some leave S1 worth V1 and then become S2 worth V2, b
shares end up worth less than (b + 1) * V / S + 1. The bound is nearly sharp, and
the obvious one, the value of a share and a token above the old debt after
rounding, is false: with S = 110, V = 187, a position of 7 shares that leaves and
comes back with a debt of 5, a position of 101 shares goes from 171 to 174, and a
share is worth 1. The pools TLC can look at are too small to show it.

The two properties about time and readers follow from the same layer. `CommittedStep`
lists what a step may do to the committed vault: restart the clock with an accrual
(then nothing is due: `NothingDue`), leave debt and clock alone while the balance does not
fall (then no more is due: `DueFalls`, since the rate falls with the tokens left), tick, or
pay out the reserve. `Ledger` turns the inequality of the ledger in `IInv` into an
equation that holds from the step in which a call begins; `OnlyTheLoanIsMissing` is that
equation. `AccruingTwiceIsNoCheaper` needs that the rate rises with the debt: the second
accrual reads it from a debt with the first interest in it.

Sums. What an owner, a pool or a user has in all is a sum over a finite set, and
the provers have no induction for it. `ArithmeticLemmas` shows what is needed of the
fold of `Functions` (a term can be split off, sums are ordered, add up, scale, and
change by as much as a term does) by looking at a smallest subset for which it
would fail, which the library's facts on well-founded orders provide.

FairLaunch. `BonusWithinReward` compares two sums a stake was never told of:
`BonusInv` says that every stake was settled at some pair A, B of the
two sums per share, that the pair was equal unless the pool had passed the end of the
bonus, and that B then is the present sum until the end. Updating a pool moves
the sums so that this stays true (`UpdateRaises`), settling makes it true
anew, and a careful owner's new bonus finds both sums equal everywhere.

`StakesInv` is about every stake at once: `Backed` says that the stakes in a pool,
whoever funded them, add up to no more than the pool holds, and
`PromisesKept` that what all stakers together may still harvest, before rounding,
is at most the contract's ALPACA and one unit for every change of a stake
(`touched`). An update adds at most its mint, since the stakes are at most
`lpSupply` and the division rounds down; a harvest takes from both sides what it
pays; settling a stake anew loses less than a unit of rounding. `EmptyStakes`
says that a stake nobody funded is empty, so that whoever is not in it earns nothing.
`MintInv` adds `Sparing`: what all pools may still mint (`DueIn`), weighed by their
points, is at most what was announced and not minted (`Slack`, eleven tenths because
of the share of the developers). A careful owner updates all pools before a rate, a
bonus or the points change, so that `DueIn` is zero when the weights move.

`OthersKeepTheirRewards` is about two states and needs `StakesInv` in both. `SumAt` is what a
share of a pool is worth once the pool is up to date. An update leaves it, a block raises
it, and so does a smaller pool (`SumsGrow`); if an emergency exit empties the pool, the
blocks that wait are dropped, and `Backed` says that nobody has a stake in it then.

Scripts. `NonceInv` says that the pending transactions fill exactly the nonces
from the mined ones up to a number h, that a fresh counter is h and that a settled
script has none pending; each step of a disciplined script keeps it. `LandedInv`,
`WiredInv` and `RecordInv` carry what the run has passed: everything awaited
behind `pc` has landed, every call behind `pc` is on its way or mined, everything this run
has queued is in its list or its record. `EachInv` is for scripts that write after
every call, under a title of their own: of each run at most the call of one step is missing
from the records (`OneBehind`), and the files of runs to come are empty. It needs to know
that what is on its way was made by this run behind `pc` or by an earlier one
(`ReachInv`). With a fixed title the property would be false: the record
would take with it what a failed run had written, which is why `RecordsEach` asks for
a title with the time of day.

The refinement of `OrderlyScript` reads the pending transactions in nonce order as a queue
(`InLine`). That this is a sequence at all, without gaps and with its head the next to be
mined, is `NonceInv`; that a send appends to it and displaces nothing is the discipline of
the nonces. Scripts that are not disciplined map to the empty script. The operator has to
be patient: a run started while transactions of the last one are pending
sends behind them what `OrderlyScript` starts only when they are mined.

Configuration file. `FileInv` says that not only the file but every copy in
memory is consistent with the chain (`Sound`), and that a process that has opened
positions still has the vault in its copy. It is inductive because the chain
only grows and a setter changes one entry. `Alone` is for processes that take
turns: the copy of the one at work is the file. With it a setter changes the file as it changes
the copy, and no setter takes a name out of it or moves the first entry of a creditor name.

Configuration check. The invariant says that the script walks the vaults in
order and leaves none before all its workers are judged (`VaultsInOrder`), that to be judged is to
have a verdict printed, and that what a worker was found to disagree in it
disagreed in at one time (`FoundAtOnce`), since a multicall reads one block.

Only model-checked: `DriftIsKnown` and the assumptions about the catalogue, which are
facts about nearly two hundred given scripts that TLC evaluates one by one; and
`RunEnds` and `SentLands`, which are liveness and out of the prover's reach. The
two violated properties are shown by TLC's counterexamples. The lemmas about the recursion
of a fold hold for finite sets; what a recursive definition computes in general is
nowhere needed.

## Plan

Done: the interest model, the debt pool, the vault with its abstract
specification, FairLaunch, every deployment script, the configuration file and
its check, with the proofs above. What a next step would add, in this order:

1. `Worker` (`PancakeswapV2Worker02`: shares, reinvest, buyback buffer), then
   a composition with `Vault` in place of the free callee.
2. `AlpacaToken` (cap, lock and release) and `Timelock` (queue, delay, grace
   period, change of admin), both small and provable.
3. An abstract reward distributor that `FairLaunch`, `MiniFL` and `GrazingRange`
   implement.
4. `WorkerConfig` with `OracleMedianizer`: stability, factors, stale prices.
5. `DeltaNeutralVault` on two vaults: health checks, rebalance and reinvest
   without a re-entrancy guard.

## Not modelled

Everything the plan lists is not modelled. For good: vendored exchanges,
routers and MasterChefs (`apis/`), proxies, mocks, interfaces, one-off migrations of
the contracts (`VaultAip25`, `VaultAip29`, `TerminateAV`, `AVMigration`,
`aips/`; the scripts that run them are in the catalogue), the treasury, the
fixed-point libraries, Merkle trees and build settings: third-party, stateless or
run once by the operators. Of modelled parts: the setters of the vault's
configuration, transfers of ibTokens, `setDev` and `manualMint` of FairLaunch, the
execution of queued timelock calls and of Safe proposals, gas prices, and what
the scripts pass as arguments.
