--------------------------- MODULE ScriptCatalogue ---------------------------
(***************************************************************************)
(* The scripts ScriptRunner runs: every script of the catalogue modules,   *)
(* for every way the contracts it asks are owned.                          *)
(***************************************************************************)
EXTENDS ScriptProperties, SequencesExt

Workers == INSTANCE WorkerScripts
Vaults == INSTANCE VaultScripts
Configs == INSTANCE ConfigScripts
DeltaNeutral == INSTANCE DeltaNeutralScripts
Strategies == INSTANCE StrategyScripts
Protocol == INSTANCE ProtocolScripts

Script ==
  Workers!WorkerScript @@ Vaults!VaultScript @@ Configs!ConfigScript
  @@ DeltaNeutral!DeltaNeutralScript @@ Strategies!StrategyScript @@ Protocol!ProtocolScript

Owners == {"timelock", "deployer"}
OwnedIn(steps) == {steps[k].of : k \in {j \in DOMAIN steps : steps[j].owner # "any"}}

\* One program per script and ownership.
ProgramsOf(script) ==
  UNION {{[name |-> n, owners |-> o] : o \in [OwnedIn(script[n]) -> Owners]} : n \in DOMAIN script}
\* The steps of the branches taken for these owners.
CodeOf(script, p) ==
  SelectSeq(script[p.name], LAMBDA s : s.owner = "any" \/ s.owner = p.owners[s.of])

AllPrograms == ProgramsOf(Script)
AllCode == [p \in AllPrograms |-> CodeOf(Script, p)]

\* A script of each kind: records at the end, after every transaction, under one name, or none; names in
\* the file; a counter read once, again after every deployment, or none.
Sample == {p \in AllPrograms : p.name \in {
  "SetWhitelistedCallers", "SetDeltaNeutralParams", "MiniFLAddPool", "UpgradeWorkerConfig",
  "InitPositionsVault04", "DeployGateway", "DeployMiniFLVault", "PancakeswapV2Workers02",
  "UpgradeDeltaNeutralVault", "DeployVault", "BiswapVaultStrategies", "UpgradeRevenueTreasury"}}
SampleCode == [p \in Sample |-> AllCode[p]]
\* With all programs, only these are started again.
StartedAgain == run = 1 \/ program.name \in {"SetWhitelistedCallers", "UpgradeWorkerConfig", "InitPositionsVault04",
                                             "DeployGateway", "BiswapVaultStrategies", "MiniFLAddPool", "DeployMiniFLVault",
                                             "UpgradeDeltaNeutralVault"}

\* Every script saves after it deploys.
ASSUME SaveAssumption == \A p \in AllPrograms : DeploysBeforeSaving(AllCode[p])

----------------------------------------------------------------------------
(* Scripts whose counter can lag behind the account, or run ahead of it. *)

\* The counter is read before, or while, calls that leave their nonce to the node are pending.
ReadTooEarly == {"MdexWorkers02", "WaultSwapWorkers02"}
\* It starts from a number of an earlier day.
Hardcoded == {"UpgradeVault", "SetConfigs", "SetRewardPath", "SetStrategyOk", "UpgradeWorkers",
              "UpgradeRevenueTreasury"}
\* It is read before implementations are deployed, or behind an unawaited call.
BehindDeployment == {"UpgradeVaultConfig", "UpgradeDeltaNeutralVault", "UpgradeDeltaNeutralVaultConfig",
                     "UpgradeDeltaNeutralVaultGateway", "DeployDeltaNeutralVault04"}
\* The call made directly is not counted, the call queued is.
MixedCounting == {"SetWhitelistedLiquidators", "SetBeneficialVaultConfig"}
\* A proposal to the Safe uses up a number of the deployer's account, and calls of the deployer follow.
SkipsForSafe == {
  "BiswapWorkers03", "PancakeswapV2Workers02", "CakeMaxiWorkers02", "SpookySwapWorkers03", "TombWorkers03",
  "DeltaNeutralBSWorker", "DeployVault", "SetParams", "SetWhitelistedCallers", "SetDeltaNeutralParams",
  "SetWhitelistedCallersOfVaults", "SetSwapRouter"}
MayDrift(p, a) ==
  \/ p.name \in ReadTooEarly \cup Hardcoded
  \/ p.name \in BehindDeployment \cup MixedCounting /\ a = "deployer"
  \/ p.name \in SkipsForSafe /\ a = "OpMultiSig"

\* Every other script is well nonced, whoever owns what and whoever is the admin of the timelock: its
\* deployments are awaited before the counter is read, and every counted call is sent.
DriftIsKnown == Disciplined[program][admin] \/ MayDrift(program, admin)
=============================================================================
