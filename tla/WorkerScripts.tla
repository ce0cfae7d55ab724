---------------------------- MODULE WorkerScripts ----------------------------
(***************************************************************************)
(* deploy/exec/workers/deploy and deploy/exec/delta-neutral-worker: every  *)
(* script deploys each worker of its input, wires it to its strategies and *)
(* has the two configurations, which the timelock may own, accept it.      *)
(***************************************************************************)
EXTENDS ScriptSteps

\* The loop over allOkStrats; two strategies stand for the list.
SetWorkersOk(x) == SendNext("setWorkersOk ADD", x) \o SendNext("setWorkersOk LIQ", x)

\* One of the two calls to a configuration.  The .wait(3) of the direct call is itself not awaited.
AcceptBy(config, call, x, write) ==
  ByOwner(config, QueueNext(call, x) \o write, SendNext(call, x))
AcceptWorker(x, write) ==
  AcceptBy("WorkerConfig", "setConfigs", x, write) \o AcceptBy("VaultConfig", "setWorkers", x, write)

BiswapWorkerInfo(x) ==
  Lookup("VAULT_SYMBOL") \o Lookup("REINVEST_PATH") \o Optional(x, Lookup("REWARD_PATH"))
BiswapWorker03(x) ==
  Deploy("BiswapWorker03", x) \o Count
  \o SendNext("setReinvestorOk", x) \o SendNext("setStrategyOk", x) \o SetWorkersOk(x)
  \o Optional(x, SendNext("setBeneficialVaultConfig", x))
  \o AcceptWorker(x, WriteStamped)
  \o Optional(x, Save("pool", x)) \o Save("BiswapWorker03", x)

PancakeswapWorkerInfo(x) ==
  Lookup("VAULT_SYMBOL") \o Lookup("REINVEST_PATH") \o Optional(x, Lookup("REWARD_PATH"))
PancakeswapV2Worker02(x) ==
  Deploy("PancakeswapV2MCV2Worker02", x) \o Count
  \o SendNext("setReinvestorOk", x) \o SendNext("setStrategyOk", x) \o SetWorkersOk(x)
  \o Optional(x, SendNext("setBeneficialVaultConfig", x))
  \o AcceptWorker(x, WriteTitled)
  \o Optional(x, Save("pool", x)) \o Save("PancakeswapV2MCV2Worker02", x)

\* From here on the pool is looked up in the file, after everything has been sent: the script throws
\* there when it is missing.
CakeMaxiWorkerInfo(x) ==
  Lookup("VAULT_SYMBOL") \o Lookup("BENEFICIAL_VAULT_SYMBOL")
  \o Lookup("PATH") \o Lookup("REWARD_PATH")
CakeMaxiWorker02(x) ==
  Deploy("CakeMaxiWorker02", x) \o Count
  \o SendNext("setReinvestorOk", x) \o SendNext("setTreasuryConfig", x)
  \o SendNext("setStrategyOk", x) \o SetWorkersOk(x)
  \o AcceptWorker(x, WriteTitled)
  \o Lookup("pool") \o Save("CakeMaxiWorker02", x)

\* The counter is read while setReinvestorOk may still be pending.
MdexWorkerInfo(x) ==
  Lookup("VAULT_SYMBOL") \o Lookup("REINVEST_PATH")
MdexWorker02(x) ==
  Deploy("MdexWorker02", x) \o Send("setReinvestorOk", x) \o Count
  \o SendNext("setStrategyOk", x) \o SetWorkersOk(x)
  \o AcceptWorker(x, WriteTitled)
  \o Lookup("pool") \o Save("MdexWorker02", x)

SpookyWorkerInfo(x) ==
  Lookup("VAULT_SYMBOL") \o Lookup("REINVEST_PATH") \o Optional(x, Lookup("REWARD_PATH"))
SpookyWorker03(x) ==
  Deploy("SpookyWorker03", x) \o Count
  \o SendNext("setReinvestorOk", x) \o SendNext("setStrategyOk", x) \o SetWorkersOk(x)
  \o Optional(x, SendNext("setBeneficialVaultConfig", x))
  \o AcceptWorker(x, WriteTitled)
  \o Lookup("pool") \o Save("SpookyWorker03", x)

TombWorkerInfo(x) ==
  Lookup("VAULT_SYMBOL") \o Lookup("REINVEST_PATH") \o Optional(x, Lookup("REWARD_PATH"))
TombWorker03(x) ==
  Deploy("TombWorker03", x) \o Count
  \o SendNext("setReinvestorOk", x) \o SendNext("setStrategyOk", x) \o SetWorkersOk(x)
  \o AcceptWorker(x, WriteTitled)
  \o Lookup("pool") \o Save("TombWorker03", x)

\* The counter is read before two calls that leave their nonce to the node, and lags behind them.
WaultSwapWorkerInfo(x) ==
  Lookup("VAULT_SYMBOL") \o Lookup("REINVEST_PATH")
WaultSwapWorker02(x) ==
  Deploy("WaultSwapWorker02", x) \o Count
  \o Send("setReinvestorOk", x) \o Send("setStrategyOk", x) \o SetWorkersOk(x)
  \o AcceptWorker(x, WriteTitled)
  \o Lookup("pool") \o Save("WaultSwapWorker02", x)

DeltaNeutralBSWorkerInfo(x) ==
  Lookup("VAULT_SYMBOL") \o Lookup("REINVEST_PATH") \o Optional(x, Lookup("REWARD_PATH"))
DeltaNeutralBiswapWorker03(x) ==
  Deploy("DeltaNeutralBiswapWorker03", x) \o Count
  \o SendNext("setReinvestorOk", x) \o SendNext("setTreasuryConfig", x)
  \o SendNext("setStrategyOk", x) \o SetWorkersOk(x)
  \o Optional(x, SendNext("setBeneficialVaultConfig", x))
  \o AcceptWorker(x, WriteStamped)
  \o Lookup("pool") \o Save("DeltaNeutralBiswapWorker03", x)

\* No owner is asked: both configurations are taken to belong to the timelock.
DeltaNeutralPCSWorkerInfo(x) ==
  Lookup("VAULT_SYMBOL") \o Lookup("REINVEST_PATH") \o Optional(x, Lookup("REWARD_PATH"))
DeltaNeutralPancakeMCV2Worker02(x) ==
  Deploy("DeltaNeutralPancakeMCV2Worker02", x) \o Count
  \o SendNext("setReinvestorOk", x) \o SendNext("setTreasuryConfig", x)
  \o SendNext("setStrategyOk", x) \o SetWorkersOk(x)
  \o Optional(x, SendNext("setBeneficialVaultConfig", x))
  \o QueueNext("setConfigs", x) \o WriteStamped \o QueueNext("setWorkers", x) \o WriteStamped
  \o Lookup("pool") \o Save("DeltaNeutralPancakeMCV2Worker02", x)

\* Both results are written in one go when either configuration belongs to the timelock.
DeltaNeutralSpookyWorkerInfo(x) ==
  Lookup("VAULT_SYMBOL") \o Lookup("REINVEST_PATH") \o Lookup("BENEFICIAL_REWARD_PATH")
DeltaNeutralSpookyWorker03(x) ==
  Deploy("DeltaNeutralSpookyWorker03", x) \o Count
  \o SendNext("setReinvestorOk", x) \o SendNext("setTreasuryConfig", x)
  \o SendNext("setStrategyOk", x) \o SetWorkersOk(x)
  \o Optional(x, SendNext("setBeneficialVaultConfig", x))
  \o ByOwner("WorkerConfig", QueueNext("setConfigs", x), SendNext("setConfigs", x))
  \o ByOwner("VaultConfig", QueueNext("setWorkers", x), Send("setWorkers", x))
  \o ByOwner("WorkerConfig", WriteTitled, <<>>) \o ByOwner("VaultConfig", WriteTitled, <<>>)
  \o Lookup("pool") \o Save("DeltaNeutralSpookyWorker03", x)

\* delta-neutral-worker/config
DeltaWorkerWhitelistedCallers ==
  Count \o Lookup("workerInfos") \o SendNext("setWhitelistedCallers", "a")
  \o SendNext("setWhitelistedCallers", "b")

WorkerScript == [
  BiswapWorkers03        |-> ForEach(BiswapWorkerInfo) \o ForEach(BiswapWorker03),
  PancakeswapV2Workers02 |-> ForEach(PancakeswapWorkerInfo) \o ForEach(PancakeswapV2Worker02),
  CakeMaxiWorkers02      |-> ForEach(CakeMaxiWorkerInfo) \o ForEach(CakeMaxiWorker02),
  MdexWorkers02          |-> ForEach(MdexWorkerInfo) \o ForEach(MdexWorker02),
  SpookySwapWorkers03    |-> ForEach(SpookyWorkerInfo) \o ForEach(SpookyWorker03),
  TombWorkers03          |-> ForEach(TombWorkerInfo) \o ForEach(TombWorker03),
  WaultSwapWorkers02     |-> ForEach(WaultSwapWorkerInfo) \o ForEach(WaultSwapWorker02),
  DeltaNeutralBSWorker   |-> ForEach(DeltaNeutralBSWorkerInfo) \o ForEach(DeltaNeutralBiswapWorker03),
  DeltaNeutralPCSWorker  |-> ForEach(DeltaNeutralPCSWorkerInfo) \o ForEach(DeltaNeutralPancakeMCV2Worker02),
  DeltaNeutralSpookyWorker |-> ForEach(DeltaNeutralSpookyWorkerInfo) \o ForEach(DeltaNeutralSpookyWorker03),
  SetWhitelistCallers    |-> DeltaWorkerWhitelistedCallers]
=============================================================================
