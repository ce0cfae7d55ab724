----------------------------- MODULE ConfigScripts -----------------------------
(***************************************************************************)
(* deploy/exec/worker-config, workers/config, workers/upgrade and          *)
(* worker-reader: changing and upgrading what is already deployed.         *)
(***************************************************************************)
EXTENDS ScriptSteps

PerItem(step(_, _), call) == ForEach(LAMBDA x : step(call, x))
LookupEach(name) == ForEach(LAMBDA x : Lookup(name))
\* The branches on the owner of the item itself, with a counted call in each.
OwnedNext(call) == ForEach(LAMBDA x : ByOwner(x, QueueNext(call, x), SendNext(call, x)))
\* The counter is used when the call is queued only; the direct call is counted by the node and waited for.
OwnedNextOrWait(call) == ForEach(LAMBDA x : ByOwner(x, QueueNext(call, x), SendWait(call, x)))
\* if (timelockTransactions.length > 0) writeJson(...)
WriteIfQueued(write) == ByOwner("a", write, <<>>) \o ByOwner("b", write, <<>>)

\* worker-config
EmergencySetAcceptDebt ==
  LookupEach("workerInfo") \o Count \o PerItem(SendNext, "emergencySetAcceptDebt")
SetConfigs ==
  Fixed \o LookupEach("workerInfo") \o OwnedNextOrWait("setConfigs") \o WriteStamped
SetNFTBoostedLeverageController ==
  Lookup("addresses") \o Count
  \o ByOwner("a", QueueNext("setNFTBoostedLeverageController", "a"), SendWait("setNFTBoostedLeverageController", "a"))
  \o ByOwner("a", WriteStamped, <<>>)
DeployWorkerConfig == Deploy("WorkerConfig", "a")
DeploySingleAssetWorkerConfig == Deploy("SingleAssetWorkerConfig", "a")
\* The counter is read after the implementation is there.
UpgradeWorkerConfig == Prepare("a") \o Count \o QueueNext("upgrade", "a") \o WriteStamped
UpgradeSingleAssetWorkerConfig == Prepare("a") \o Count \o QueueNext("upgrade", "a") \o WriteStamped

\* workers/config
SetRewardPath ==
  LookupEach("WORKER_NAME") \o LookupEach("REWARD_PATH") \o Fixed
  \o OwnedNext("setRewardPath") \o WriteIfQueued(WriteStamped)
ReinvestConfigs == LookupEach("WORKER_NAME") \o LookupEach("REINVEST_PATH")
SetReinvestConfig ==
  Count \o PerItem(QueueNext, "setReinvestConfig") \o WriteTitled
SetReinvestConfigWorkers03 ==
  LookupEach("WORKER_NAME") \o LookupEach("REINVEST_PATH")
  \o Count \o PerItem(SendNext, "setReinvestConfig")
SetMaxReinvestBountyBps ==
  LookupEach("WORKER_NAME") \o Count \o PerItem(QueueNext, "setMaxReinvestBountyBps") \o WriteTitled
SetMaxReinvestBountyBpsWorkers03 ==
  LookupEach("WORKER_NAME") \o Count \o PerItem(SendNext, "setMaxReinvestBountyBps")
SetTreasuryConfig ==
  LookupEach("WORKER_NAME") \o Count \o PerItem(QueueNext, "setTreasuryConfig") \o WriteTitled
\* Nothing is queued; the empty list is written all the same.
SetTreasuryConfigWorkers03 ==
  LookupEach("WORKER_NAME") \o Count \o PerItem(SendNext, "setTreasuryConfig") \o WriteTitled
SetBeneficialVaultConfig ==
  LookupEach("REWARD_PATH") \o LookupEach("WORKER_NAME") \o Count
  \o OwnedNextOrWait("setBeneficialVaultConfig") \o WriteIfQueued(WriteTitled)
SetBeneficialVaultConfigWorkers03 ==
  LookupEach("REWARD_PATH") \o LookupEach("WORKER_NAME") \o Count
  \o PerItem(SendNext, "setBeneficialVaultConfig")
\* One nonce is drawn for a worker and used for both of its calls.
SetStrategyOk ==
  Fixed \o LookupEach("WORKERS")
  \o ForEach(LAMBDA x : ByOwner(x,
       Optional(x, QueueSame("setCriticalStrategies", x)) \o QueueNext("setStrategyOk", x),
       SendNext("setStrategyOk", x)))
  \o WriteIfQueued(WriteStamped)
\* The worker is connected to the provider only.
SetReinvestorOk ==
  LookupEach("WORKERS") \o Count
  \o ForEach(LAMBDA x : ByOwner(x, QueueNext("setReinvestorOk", x), Unsigned("setReinvestorOk", x)))
  \o WriteIfQueued(WriteStamped)

\* workers/upgrade: every factory is found before anything is queued.
UpgradeWorkers ==
  Fixed \o LookupEach("WORKER_NAME") \o LookupEach("factory")
  \o ForEach(LAMBDA x : Prepare(x)
       \o ByOwner("ProxyAdmin", QueueNext("upgrade", x) \o WriteStamped, Send("upgrade", x)))

DeployWorkerReader == Deploy("WorkerReader", "a")

ConfigScript == [
  EmergencySetAcceptDebt |-> EmergencySetAcceptDebt, SetConfigs |-> SetConfigs,
  SetNFTBoostedLeverageController |-> SetNFTBoostedLeverageController,
  DeployWorkerConfig |-> DeployWorkerConfig,
  DeploySingleAssetWorkerConfig |-> DeploySingleAssetWorkerConfig,
  UpgradeWorkerConfig |-> UpgradeWorkerConfig,
  UpgradeSingleAssetWorkerConfig |-> UpgradeSingleAssetWorkerConfig,
  SetRewardPath |-> SetRewardPath, SetReinvestConfig |-> ReinvestConfigs \o SetReinvestConfig,
  SetReinvestConfigWorkers03 |-> SetReinvestConfigWorkers03,
  SetMaxReinvestBountyBps |-> SetMaxReinvestBountyBps,
  SetMaxReinvestBountyBpsWorkers03 |-> SetMaxReinvestBountyBpsWorkers03,
  SetTreasuryConfig |-> SetTreasuryConfig,
  SetTreasuryConfigWorkers03 |-> SetTreasuryConfigWorkers03,
  SetBeneficialVaultConfig |-> SetBeneficialVaultConfig,
  SetBeneficialVaultConfigWorkers03 |-> SetBeneficialVaultConfigWorkers03,
  SetStrategyOk |-> SetStrategyOk, SetReinvestorOk |-> SetReinvestorOk,
  UpgradeWorkers |-> UpgradeWorkers, DeployWorkerReader |-> DeployWorkerReader]
=============================================================================
