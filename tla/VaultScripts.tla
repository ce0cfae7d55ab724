----------------------------- MODULE VaultScripts -----------------------------
(***************************************************************************)
(* deploy/exec/vault, vault-config, fairlaunch, minifl, debt-token,        *)
(* wnative-relayer: deploying a vault with its debt token and its pools,   *)
(* and changing, upgrading and migrating vaults and their configurations.  *)
(* A queueTransaction that a script sends itself, past TimelockService, is *)
(* a plain transaction of the deployer and leaves no record.               *)
(***************************************************************************)
EXTENDS ScriptSteps

\* One vault per run.  The tokens' holders and owner are set before the pools are queued; the calls
\* after a queued one continue the same counter.
DeployVault ==
  Lookup("SYMBOL") \o Lookup("config") \o Lookup("baseToken")
  \o Deploy("DebtToken", "a") \o Deploy("Vault", "a") \o Count
  \o SendNext("setOkHolders", "a") \o SendNext("transferOwnership", "a")
  \o QueueNext("addPool debtToken", "a")
  \o SendNext("setFairLaunchPoolId", "a")
  \o QueueNext("addPool ibToken", "a")
  \o SendNext("setCallerOk", "a")
  \o WriteStamped

DeployVault2 ==
  Lookup("SYMBOL") \o Lookup("config") \o Lookup("baseToken")
  \o Deploy("Vault", "a") \o Count \o SendNext("setCallerOk", "a")

\* The pools of MiniFL are added through the timelock, or at once with the debt token approved.
DeployMiniFLVault ==
  Lookup("SYMBOL") \o Lookup("config") \o Lookup("baseToken")
  \o Deploy("DebtToken", "a") \o Deploy("Vault", "a") \o Count
  \o SendNextWait("setOkHolders", "a") \o SendNextWait("transferOwnership", "a")
  \o SendNextWait("setFairLaunchPoolId", "a")
  \o ByOwner("MiniFL",
       SendNext("queue addPool debtToken", "a") \o SendNext("queue addPool ibToken", "a"),
       SendNextWait("addPool debtToken", "a") \o SendNextWait("approveStakeDebtToken", "a")
         \o SendNextWait("addPool ibToken", "a"))
  \o SendNextWait("setCallerOk", "a")

DeployDebtToken ==
  Deploy("DebtToken", "a") \o Send("transferOwnership", "a") \o Send("queue addPool", "a")

\* vault/config: each vault is migrated, or repaired, before the next one is touched.
PerVault(call) ==
  ForEach(LAMBDA x : Lookup("symbol")) \o Count \o ForEach(LAMBDA x : SendNextWait(call, x))
Aip25Migrate == PerVault("migrate")
Aip29Migrate == PerVault("migrate")
Aip29PullToken == PerVault("pullToken")
Aip29HotfixSetDebtVal == PerVault("setVaultDebtVal")

\* vault/upgrade
UpgradeVault ==
  Fixed \o ForEach(LAMBDA x : Lookup("symbol"))
  \o ForEach(LAMBDA x : ByOwner("ProxyAdmin", Prepare(x) \o QueueNext("upgrade", x),
                                              Prepare(x) \o Send("upgrade", x)))
  \o ByOwner("ProxyAdmin", WriteStamped, <<>>)
UpgradeDebtToken ==
  ForEach(LAMBDA x : Lookup("symbol"))
  \o ForEach(LAMBDA x : Prepare(x) \o Send("queue upgrade", x))

\* vault-config/config.  The file gets the interest model when the change is queued, not when it is
\* executed.
SetParams ==
  Count \o ForEach(LAMBDA x : Lookup("VAULT_SYMBOL"))
  \o ForEach(LAMBDA x : ByOwner(x, QueueNext("setParams", x) \o WriteStamped, SendNext("setParams", x))
                        \o Save("interestModel", x))
SetWhitelistedCallers ==
  Count \o ForEach(LAMBDA x : Lookup("VAULT_SYMBOL"))
  \o ForEach(LAMBDA x : ByOwner(x, QueueNext("setWhitelistedCallers", x), SendNext("setWhitelistedCallers", x)))
  \o ByOwner("a", WriteStamped, <<>>) \o ByOwner("b", WriteStamped, <<>>)
\* The direct call leaves its nonce to the node while the queued one counts on.
SetWhitelistedLiquidators ==
  Count \o ForEach(LAMBDA x : Lookup("VAULT_SYMBOL"))
  \o ForEach(LAMBDA x : ByOwner(x, QueueNext("setWhitelistedLiquidators", x), Send("setWhitelistedLiquidators", x)))
  \o ByOwner("a", WriteStamped, <<>>) \o ByOwner("b", WriteStamped, <<>>)
SetApprovedAddStrategies ==
  ForEach(LAMBDA x : Lookup("VAULT_SYMBOL"))
  \o ForEach(LAMBDA x : Queue("setApprovedAddStrategy", x)) \o WriteStamped
SetMaxKillBps ==
  ForEach(LAMBDA x : Lookup("VAULT_SYMBOL")) \o ForEach(LAMBDA x : Send("queue setMaxKillBps", x))

DeployVaultConfig == Deploy("ConfigurableInterestVaultConfig", "a")
\* The counter is read once, before implementations that may have to be deployed; it is always the
\* first configuration that prepareUpgrade is given.
UpgradeVaultConfig ==
  ForEach(LAMBDA x : Lookup("symbol")) \o Count
  \o ForEach(LAMBDA x : Prepare("a") \o QueueNext("upgrade", x)) \o WriteStamped

\* fairlaunch
FairLaunchAddPool ==
  Count \o ForEach(LAMBDA x : QueueNext("addPool", x)) \o WriteTitled
FairLaunchSetPool ==
  ForEach(LAMBDA x : Lookup("STAKING_TOKEN")) \o Count
  \o ForEach(LAMBDA x : QueueNext("setPool", x)) \o WriteStamped
SetAlpacaPerBlock == Send("queue setAlpacaPerBlock", "a")

\* minifl
DeployMiniFL == Deploy("MiniFL", "a")
MiniFLAddPool ==
  ForEach(LAMBDA x : ByOwner("MiniFL", Queue("addPool", x), Send("addPool", x)))
  \o ByOwner("MiniFL", WriteTitled, <<>>)
MiniFLSetPool ==
  Count \o ForEach(LAMBDA x : Lookup("STAKING_TOKEN")) \o ForEach(LAMBDA x : SendNext("setPool", x))

\* wnative-relayer: the deployment is not waited for.
DeployWNativeRelayer == Send("WNativeRelayer", "a")
SetCallerOk == SendWait("setCallerOk", "a")

VaultScript == [
  DeployVault |-> DeployVault, DeployVault2 |-> DeployVault2, DeployMiniFLVault |-> DeployMiniFLVault,
  DeployDebtToken |-> DeployDebtToken, Aip25Migrate |-> Aip25Migrate, Aip29Migrate |-> Aip29Migrate,
  Aip29PullToken |-> Aip29PullToken, Aip29HotfixSetDebtVal |-> Aip29HotfixSetDebtVal,
  UpgradeVault |-> UpgradeVault, UpgradeDebtToken |-> UpgradeDebtToken,
  SetParams |-> SetParams, SetWhitelistedCallers |-> SetWhitelistedCallers,
  SetWhitelistedLiquidators |-> SetWhitelistedLiquidators,
  SetApprovedAddStrategies |-> SetApprovedAddStrategies, SetMaxKillBps |-> SetMaxKillBps,
  DeployVaultConfig |-> DeployVaultConfig, UpgradeVaultConfig |-> UpgradeVaultConfig,
  FairLaunchAddPool |-> FairLaunchAddPool, FairLaunchSetPool |-> FairLaunchSetPool,
  SetAlpacaPerBlock |-> SetAlpacaPerBlock, DeployMiniFL |-> DeployMiniFL,
  MiniFLAddPool |-> MiniFLAddPool, MiniFLSetPool |-> MiniFLSetPool,
  DeployWNativeRelayer |-> DeployWNativeRelayer, SetCallerOk |-> SetCallerOk]
=============================================================================
