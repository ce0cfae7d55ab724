---------------------------- MODULE StrategyScripts ----------------------------
(***************************************************************************)
(* deploy/exec/strategies: strategies shared by the workers of an exchange *)
(* or made for one vault are deployed, told which workers may call them    *)
(* and, those that hand out native tokens, admitted at the relayer.        *)
(***************************************************************************)
EXTENDS ScriptSteps

\* A shared strategy x that the node counts the calls of, and one that also needs the relayer.
Shared(x) == Deploy("Strategy", x) \o Send("setWorkersOk", x)
Relayed(x) == Shared(x) \o Send("setCallerOk", x)
SaveShared(x) == Save("Strategy", x)

\* The strategies the enum Strats names, in the order every script deploys them.
PancakeswapShareStrategies ==
  Count \o Lookup("workers") \o Shared("btokenOnly") \o Shared("liquidateAll")
  \o Relayed("withdrawMinimize") \o Shared("partialCloseLiquidate")
  \o Relayed("partialCloseWithdrawMinimize")
  \o Deploy("Strategy", "oracleMinimize") \o Count
  \o SendNext("setWorkersOk", "oracleMinimize") \o SendNext("setCallerOk", "oracleMinimize")
  \o Deploy("Strategy", "oracleLiquidate") \o Count \o SendNext("setWorkersOk", "oracleLiquidate")
\* The counter is read again after every deployment.
Counted(x) == Deploy("Strategy", x) \o Count \o SendNext("setWorkersOk", x)
CountedRelayed(x) == Counted(x) \o SendNext("setCallerOk", x)
WaultSwapFarmStrategies ==
  Lookup("workers") \o Count \o Counted("btokenOnly") \o Counted("liquidateAll")
  \o CountedRelayed("withdrawMinimize") \o Counted("partialCloseLiquidate")
WaultSwapOracleStrategies ==
  CountedRelayed("partialCloseWithdrawMinimize") \o CountedRelayed("oracleMinimize")
  \o Counted("oracleLiquidate")
WaultSwapShareStrategies == WaultSwapFarmStrategies \o WaultSwapOracleStrategies
\* The address goes into the file as soon as the strategy is there, before it is told of its workers.
BiswapShare(x) == Deploy("Strategy", x) \o SaveShared(x) \o Send("setWorkersOk", x)
BiswapShareStrategies ==
  Lookup("workers") \o BiswapShare("btokenOnly") \o BiswapShare("liquidateAll")
  \o BiswapShare("withdrawMinimize") \o Send("setCallerOk", "withdrawMinimize")
  \o BiswapShare("partialCloseLiquidate")
  \o BiswapShare("partialCloseWithdrawMinimize") \o Send("setCallerOk", "partialCloseWithdrawMinimize")
SpookyShareStrategies ==
  Lookup("workers") \o Shared("btokenOnly") \o Shared("liquidateAll") \o Relayed("withdrawMinimize")
  \o Shared("partialCloseLiquidate") \o Relayed("partialCloseWithdrawMinimize")
MdexShareStrategies ==
  Lookup("workers") \o Shared("btokenOnly") \o Shared("liquidateAll") \o Relayed("withdrawMinimize")
  \o Shared("partialCloseLiquidate") \o Relayed("partialCloseWithdrawMinimize")
SingleAssetShareStrategies ==
  Lookup("workers") \o Shared("btokenOnly") \o Shared("liquidateAll")
  \o Shared("partialCloseLiquidate") \o Relayed("withdrawMinimize")
  \o Relayed("partialCloseWithdrawMinimize")

\* One strategy per vault; the vault is looked up after the strategies of the vaults before it are sent.
ForVault(x) == Lookup("vault") \o Deploy("TwoSides", x)
PancakeswapVaultStrategies == ForEach(LAMBDA x : ForVault(x) \o Send("setWorkersOk", x))
WaultSwapVaultStrategies == ForEach(LAMBDA x : ForVault(x) \o Send("setWorkersOk", x))
MdexVaultStrategies == ForEach(LAMBDA x : ForVault(x) \o Send("setWorkersOk", x))
SingleAssetVaultStrategies == ForEach(LAMBDA x : ForVault(x) \o Send("setWorkersOk", x))
SpookyVaultStrategies == ForEach(LAMBDA x : ForVault(x) \o SendWait("setWorkersOk", x))
BiswapVaultStrategies == ForEach(LAMBDA x : ForVault(x) \o Save("TwoSides", x) \o Send("setWorkersOk", x))

\* Delta neutral vaults: the strategy also replaces that of each whitelisted worker in the file.
RewireWorkers(x) == Send("setWorkersOk", x) \o Lookup("worker") \o Save("worker strategy", x)
BiswapDnxVaultStrategies ==
  ForEach(LAMBDA x : ForVault(x) \o Save("TwoSides", x) \o Optional(x, RewireWorkers(x)))
PancakeswapDnxVaultStrategies ==
  ForEach(LAMBDA x : ForVault(x) \o Save("TwoSides", x) \o Optional(x, RewireWorkers(x)))
SpookyDnxVaultStrategies ==
  ForEach(LAMBDA x : ForVault(x) \o Save("TwoSides", x) \o Optional(x, RewireWorkers(x)))

PartialCloseNoTrade ==
  Lookup("workers") \o BiswapShare("noTrade")
  \o Save("worker strategy", "a") \o Save("worker strategy", "b")
BiswapPartialCloseNoTrade == PartialCloseNoTrade
PancakeswapPartialCloseNoTrade == PartialCloseNoTrade
SpookyPartialCloseNoTrade == PartialCloseNoTrade

Repurchase(x) == BiswapShare(x)
RepurchaseBorrow == ForEach(Repurchase)
RepurchaseRepay == ForEach(Repurchase)

\* strategies/config and strategies/upgrade
SetWhitelistedWorkers ==
  Count \o ForEach(LAMBDA x : Lookup("WORKERS") \o SendNext("setWorkersOk", x))
SetWhitelistedWorkersTimelock ==
  Count \o ForEach(LAMBDA x : QueueNext("setWorkersOk", x)) \o WriteTitled
SetWhitelistedDeltaNeutralVaults ==
  ForEach(LAMBDA x : ByOwner(x, Send("queue setDeltaNeutralVaultsOk", x), Send("setDeltaNeutralVaultsOk", x)))
UpgradeShareStrategies ==
  ForEach(LAMBDA x : Lookup("strat") \o Prepare(x) \o Send("queue upgrade", x))

\* strategies/deploy/__deprecated__
OldMinimizeTrading == Deploy("StrategyWithdrawMinimizeTrading", "a") \o Send("setCallerOk", "a")
OldVaultStrategies == Deploy("StrategyAddTwoSidesOptimal", "a")
OldVaultStrategiesV2 == ForEach(LAMBDA x : Deploy("StrategyAddTwoSidesOptimal", x))
OldMigrationStrategy == Deploy("StrategyAddTwoSidesOptimalMigrate", "a")
OldShareStrategies == Deploy("StrategyAddBaseTokenOnly", "a") \o Deploy("StrategyLiquidate", "a")
OldShareStrategiesV2 ==
  Deploy("StrategyAddBaseTokenOnly", "a") \o Deploy("StrategyLiquidate", "a")
  \o Deploy("StrategyWithdrawMinimizeTrading", "a") \o Send("setCallerOk", "a")

StrategyScript == [
  PancakeswapShareStrategies |-> PancakeswapShareStrategies,
  WaultSwapShareStrategies |-> WaultSwapShareStrategies,
  BiswapShareStrategies |-> BiswapShareStrategies, SpookyShareStrategies |-> SpookyShareStrategies,
  MdexShareStrategies |-> MdexShareStrategies,
  SingleAssetShareStrategies |-> SingleAssetShareStrategies,
  PancakeswapVaultStrategies |-> PancakeswapVaultStrategies,
  WaultSwapVaultStrategies |-> WaultSwapVaultStrategies,
  MdexVaultStrategies |-> MdexVaultStrategies,
  SingleAssetVaultStrategies |-> SingleAssetVaultStrategies,
  SpookyVaultStrategies |-> SpookyVaultStrategies, BiswapVaultStrategies |-> BiswapVaultStrategies,
  BiswapDnxVaultStrategies |-> BiswapDnxVaultStrategies,
  PancakeswapDnxVaultStrategies |-> PancakeswapDnxVaultStrategies,
  SpookyDnxVaultStrategies |-> SpookyDnxVaultStrategies,
  BiswapPartialCloseNoTrade |-> BiswapPartialCloseNoTrade,
  PancakeswapPartialCloseNoTrade |-> PancakeswapPartialCloseNoTrade,
  SpookyPartialCloseNoTrade |-> SpookyPartialCloseNoTrade, RepurchaseBorrow |-> RepurchaseBorrow,
  RepurchaseRepay |-> RepurchaseRepay, SetWhitelistedWorkers |-> SetWhitelistedWorkers,
  SetWhitelistedWorkersTimelock |-> SetWhitelistedWorkersTimelock,
  SetWhitelistedDeltaNeutralVaults |-> SetWhitelistedDeltaNeutralVaults,
  UpgradeShareStrategies |-> UpgradeShareStrategies, OldMinimizeTrading |-> OldMinimizeTrading,
  OldVaultStrategies |-> OldVaultStrategies, OldVaultStrategiesV2 |-> OldVaultStrategiesV2,
  OldMigrationStrategy |-> OldMigrationStrategy, OldShareStrategies |-> OldShareStrategies,
  OldShareStrategiesV2 |-> OldShareStrategiesV2]
===============================================================================
