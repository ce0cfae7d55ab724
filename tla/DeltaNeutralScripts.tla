-------------------------- MODULE DeltaNeutralScripts --------------------------
(***************************************************************************)
(* deploy/exec/delta-neutral-vault, delta-neutral-vault-config,            *)
(* delta-neutral-vault-gateway, -reader, delta-neutral-oracle,             *)
(* delta-neutral-health-checker and directional-vault.  A vault is a       *)
(* strategy contract that holds positions in two vaults; its               *)
(* configuration, workers and relayer must know it before its first        *)
(* position can be opened.                                                 *)
(***************************************************************************)
EXTENDS ScriptSteps

\* nonce = getTransactionCount(), then one counted call per item
CountedEach(call) == Count \o ForEach(LAMBDA x : SendNext(call, x))
CountedWaitEach(call) == Count \o ForEach(LAMBDA x : SendNextWait(call, x))

\* The names of one input are looked up when its turn comes, after the vaults before it are deployed.
VaultParts(x) ==
  Lookup("stableVault") \o Lookup("assetVault") \o Lookup("config")
  \o Lookup("stableWorker") \o Lookup("assetWorker")
WhitelistAtWorkers(x) ==
  SendNext("setWhitelistedCallers stable", x) \o SendNext("setWhitelistedCallers asset", x)
SaveVault(contract, x) == Save(contract, x) \o Save("Tokens", x)

DeployDeltaNeutralVault ==
  ForEach(LAMBDA x : VaultParts(x) \o Deploy("DeltaNeutralVault", x)
    \o Optional(x, SendWait("setCallerOk", x)) \o Count \o WhitelistAtWorkers(x)
    \o SaveVault("DeltaNeutralVault", x))
DeployDeltaNeutralVault02 ==
  ForEach(LAMBDA x : VaultParts(x) \o Deploy("DeltaNeutralVault02", x)
    \o Optional(x, SendWait("setCallerOk", x)) \o Count \o WhitelistAtWorkers(x)
    \o SaveVault("DeltaNeutralVault02", x))
DeployDeltaNeutralVault03 ==
  ForEach(LAMBDA x : VaultParts(x) \o Deploy("DeltaNeutralVault03", x)
    \o Optional(x, SendWait("setCallerOk", x)) \o Count \o WhitelistAtWorkers(x)
    \o SaveVault("DeltaNeutralVault03", x))
\* The health checker is set without waiting: the counter is read behind it unless the relayer's
\* call in between is awaited.
SetHealthCheckerOf(x) == Send("setDeltaNeutralVaultHealthChecker", x) \o Optional(x, SendWait("setCallerOk", x))
AdmitAtStrategies(x) ==
  SendNext("setDeltaNeutralVaultsOk ADD", x) \o SendNext("setDeltaNeutralVaultsOk LIQ", x)
DeployDeltaNeutralVault04 ==
  ForEach(LAMBDA x : VaultParts(x) \o Deploy("DeltaNeutralVault04", x)
    \o SetHealthCheckerOf(x) \o Count \o WhitelistAtWorkers(x) \o AdmitAtStrategies(x)
    \o SaveVault("DeltaNeutralVault04", x))
DeployDirectionalVault ==
  ForEach(LAMBDA x : Lookup("stableVault") \o Lookup("config") \o Lookup("stableWorker")
    \o Deploy("DirectionalVault", x) \o SendWait("setCallerOk", x)
    \o Count \o SendNext("setWhitelistedCallers", x) \o SaveVault("DirectionalVault", x))

\* The counter is read before implementations that may have to be deployed.
UpgradeEach(owned(_)) == Count \o ForEach(LAMBDA x : Prepare(x) \o owned(x)) \o WriteStamped
UpgradeDeltaNeutralVault ==
  UpgradeEach(LAMBDA x : ByOwner("ProxyAdmin", QueueNext("upgrade", x), SendNext("upgrade", x)))
UpgradeDeltaNeutralVaultConfig ==
  UpgradeEach(LAMBDA x : ByOwner("ProxyAdmin", QueueNext("upgrade", x), SendNext("upgrade", x)))
UpgradeDeltaNeutralVaultGateway ==
  ForEach(LAMBDA x : Lookup("vault")) \o UpgradeEach(LAMBDA x : QueueNext("upgrade", x))

\* delta-neutral-vault/config: approvals are given when there are none yet; the position is awaited,
\* and its ids are read back into the file.
OpenPosition(x) == SendNextWait("initPositions", x) \o Save("positionIds", x)
InitPositions ==
  Count \o ForEach(LAMBDA x : Lookup("deltaNeutralVault") \o Lookup("stableVault") \o Lookup("assetVault")
    \o Optional(x, SendNext("approve stable", x) \o SendNext("approve asset", x)) \o OpenPosition(x))
\* Input, vault, tokens and strategy are all checked before the first approval.
PositionInput(x) ==
  Lookup("input") \o Lookup("deltaNeutralVault") \o Lookup("tokens") \o Lookup("strategy")
InitPositionsV2 ==
  Count \o ForEach(LAMBDA x : PositionInput(x)
    \o Optional(x, SendNext("approve long", x) \o SendNext("approve short", x)) \o OpenPosition(x))
InitPositionsVault04 ==
  Count \o ForEach(LAMBDA x : Lookup("deltaNeutralVault") \o Lookup("tokens")
    \o Optional(x, SendNext("approve long", x)) \o OpenPosition(x))
InitPositionsDirectional ==
  Count \o ForEach(LAMBDA x : Lookup("input") \o Lookup("directionalVault") \o Lookup("tokens")
    \o Optional(x, SendNext("approve long", x) \o SendNext("approve short", x)) \o OpenPosition(x))
SetHealthChecker ==
  Count \o Lookup("DeltaNeutralVaultHealthChecker")
  \o ForEach(LAMBDA x : SendNextWait("setDeltaNeutralVaultHealthChecker", x))
SetIsTerminated == CountedWaitEach("setIsTerminated")
ExecuteTerminate == CountedWaitEach("terminate")

\* delta-neutral-vault-config/deploy
SetFirstLimits ==
  SendNext("setValueLimit", "a") \o SendNext("setLeverageLevel", "a")
  \o SendNext("setWhitelistedRebalancer", "a") \o SendNext("setwhitelistedReinvestors", "a")
  \o SendNext("setReinvestPath", "a") \o SendNext("setSwapRouter", "a") \o SendNext("setFees", "a")
  \o SendNext("setAlpacaBountyConfig", "a") \o SendNext("setAlpacaBeneficiaryConfig", "a")
DeployDeltaNeutralVaultConfig ==
  Lookup("REINVEST_PATH") \o Deploy("DeltaNeutralVaultConfig", "a") \o Count
  \o SetFirstLimits \o Save("DeltaNeutralVaultConfig", "a")
SetRepurchase ==
  SendNext("setRepurchaseBonusBps", "a") \o SendNext("setWhitelistedRepurchasers", "a")
  \o SendNext("setExecutor", "a") \o SendNext("setSwapConfig", "a")
DeployDeltaNeutralVaultConfig02 ==
  Lookup("REINVEST_PATH") \o Deploy("DeltaNeutralVaultConfig02", "a") \o Count
  \o SetFirstLimits \o SetRepurchase \o Save("DeltaNeutralVaultConfig02", "a")

\* delta-neutral-vault-config/config.  The leverage is awaited before the vault is told to rebalance.
AdjustLeverage ==
  Send("setWhitelistedRebalancer", "a") \o SendWait("setLeverageLevel", "a") \o SendWait("retarget", "a")
SetController == CountedEach("setController")
SetExecutor == CountedEach("setExecutor")
SetFees == CountedEach("setFees")
SetRepurchaseBonusBps == CountedEach("setRepurchaseBonusBps")
SetStrategies == CountedEach("setStrategies")
SetSwapConfig == CountedEach("setSwapConfig")
SetValueLimit == CountedEach("setValueLimit")
SetWhitelistedRepurchasers == CountedEach("setWhitelistedRepurchasers")
\* The whole list is written after every queued change, under one title for the run.
SetDeltaNeutralParams ==
  Count \o ForEach(LAMBDA x : Lookup("VAULT_SYMBOL"))
  \o ForEach(LAMBDA x : ByOwner(x, QueueNext("setParams", x) \o WriteStamped, SendNext("setParams", x)))
WriteIfAnyQueued == ByOwner("a", WriteStamped, <<>>) \o ByOwner("b", WriteStamped, <<>>)
SetWhitelistedCallersOfVaults ==
  ForEach(LAMBDA x : Lookup("VAULT_SYMBOL")) \o Count
  \o ForEach(LAMBDA x : ByOwner(x, QueueNext("setWhitelistedCallers", x), SendNext("setWhitelistedCallers", x)))
  \o WriteIfAnyQueued

\* The vault's configuration is told of its gateway without waiting.
DeployGateway ==
  ForEach(LAMBDA x : Lookup("deltaNeutralVault"))
  \o ForEach(LAMBDA x : Deploy("DeltaNeutralVaultGateway", x) \o Send("setWhitelistedCallers", x)
                        \o Save("DeltaNeutralVaultGateway", x))
SetSwapRouter ==
  ForEach(LAMBDA x : Lookup("VAULT_SYMBOL")) \o Count
  \o ForEach(LAMBDA x : ByOwner(x, QueueNext("setRouter", x), SendNext("setRouter", x)))
  \o WriteIfAnyQueued

DeployDeltaNeutralReader == Deploy("DeltaNeutralVaultReader", "a")
DeployDeltaNeutralOracle == Deploy("DeltaNeutralOracle", "a")
DeployHealthChecker == Deploy("DeltaNeutralVaultHealthChecker", "a") \o Save("DeltaNeutralVaultHealthChecker", "a")
DeployHealthChecker02 ==
  Deploy("DeltaNeutralVaultHealthChecker02", "a") \o Save("DeltaNeutralVaultHealthChecker02", "a")

DeltaNeutralScript == [
  DeployDeltaNeutralVault |-> DeployDeltaNeutralVault,
  DeployDeltaNeutralVault02 |-> DeployDeltaNeutralVault02,
  DeployDeltaNeutralVault03 |-> DeployDeltaNeutralVault03,
  DeployDeltaNeutralVault04 |-> DeployDeltaNeutralVault04,
  DeployDirectionalVault |-> DeployDirectionalVault,
  UpgradeDeltaNeutralVault |-> UpgradeDeltaNeutralVault,
  UpgradeDeltaNeutralVaultConfig |-> UpgradeDeltaNeutralVaultConfig,
  UpgradeDeltaNeutralVaultGateway |-> UpgradeDeltaNeutralVaultGateway,
  InitPositions |-> InitPositions, InitPositionsV2 |-> InitPositionsV2,
  InitPositionsVault04 |-> InitPositionsVault04,
  InitPositionsDirectional |-> InitPositionsDirectional, SetHealthChecker |-> SetHealthChecker,
  SetIsTerminated |-> SetIsTerminated, ExecuteTerminate |-> ExecuteTerminate,
  DeployDeltaNeutralVaultConfig |-> DeployDeltaNeutralVaultConfig,
  DeployDeltaNeutralVaultConfig02 |-> DeployDeltaNeutralVaultConfig02,
  AdjustLeverage |-> AdjustLeverage, SetController |-> SetController, SetExecutor |-> SetExecutor,
  SetFees |-> SetFees, SetRepurchaseBonusBps |-> SetRepurchaseBonusBps,
  SetStrategies |-> SetStrategies, SetSwapConfig |-> SetSwapConfig, SetValueLimit |-> SetValueLimit,
  SetWhitelistedRepurchasers |-> SetWhitelistedRepurchasers,
  SetDeltaNeutralParams |-> SetDeltaNeutralParams,
  SetWhitelistedCallersOfVaults |-> SetWhitelistedCallersOfVaults, DeployGateway |-> DeployGateway,
  SetSwapRouter |-> SetSwapRouter, DeployDeltaNeutralReader |-> DeployDeltaNeutralReader,
  DeployDeltaNeutralOracle |-> DeployDeltaNeutralOracle,
  DeployHealthChecker |-> DeployHealthChecker, DeployHealthChecker02 |-> DeployHealthChecker02]
===============================================================================
