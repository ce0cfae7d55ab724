---------------------------- MODULE WorkerChecks ----------------------------
(***************************************************************************)
(* What the adaptors of scripts/validate-config.ts compare between a       *)
(* worker's entry in the configuration file and the contract.  A check is  *)
(* the name of a field; the strategies are checks too: that the worker     *)
(* accepts the strategy the file names.                                    *)
(***************************************************************************)
EXTENDS Naturals, Sequences

Place == {"operator", "stakingToken", "pid", "stakingTokenAt", "router", "baseToken"}
Fee == {"fee", "feeDenom"}
Strategies == {"AddAllBaseToken", "Liquidate", "AddTwoSidesOptimal", "WithdrawMinimizeTrading"}
Partial == {"PartialCloseLiquidate", "PartialCloseMinimizeTrading"}
AllChecks == Place \cup Fee \cup Strategies \cup Partial

\* The partial close strategies are only compared when the file names them, both or neither.
Listed(entry) == IF entry.partial THEN Partial ELSE {}

PancakeWorkerAdaptor(entry) == Place \cup Fee \cup Strategies \cup Listed(entry)
CakeMaxiWorkerAdaptor(entry) == Place \cup Fee \cup Strategies \cup Listed(entry)
SpookyWorkerAdaptor(entry) == Place \cup Fee \cup Strategies \cup Listed(entry)
TombWorkerAdaptor(entry) == Place \cup Fee \cup Strategies \cup Listed(entry)
WaultWorkerAdaptor(entry) == Place \cup Fee \cup Strategies \cup Listed(entry)
MdexWorkerAdaptor(entry) == Place \cup {"feeDenom"} \cup Strategies \cup Listed(entry)
DeltaNeutralPancakeWorkerAdaptor(entry) == Place \cup Strategies \cup Listed(entry)
\* Compares the partial close strategies also when the file does not name them.
BiswapWorkerAdaptor(entry) == Place \cup {"feeDenom"} \cup Strategies \cup Partial

\* A strategy the file does not name is asked for as address 0, which no worker accepts; only the
\* adaptor for Biswap expects that it does.
ZeroStrategies(which, entry) == IF which = "BiswapWorker" /\ ~entry.partial THEN Partial ELSE {}

\* The fields a worker contract has: those of the delta-neutral vaults compute no fee.
DeltaNeutralNames == {"DeltaNeutralPancakeswapWorker", "DeltaNeutralBiswapWorker", "DeltaNeutralMdexWorker",
                      "DeltaNeutralSpookyWorker"}
HasFields(name) == IF name \in DeltaNeutralNames THEN AllChecks \ Fee ELSE AllChecks

\* The if chain over name.includes; a worker with none of these names is passed over, and so is, ahead of
\* the chain, the one worker that is skipped by its name.
Skipped == "BETH-ETH PancakeswapWorker"
Includes(name) ==
  CASE name = "DeltaNeutralPancakeswapWorker" -> {name, "PancakeswapWorker"}
    [] name = Skipped -> {"PancakeswapWorker"}
    [] name = "DeltaNeutralBiswapWorker" -> {"BiswapWorker"}
    [] name = "DeltaNeutralMdexWorker" -> {"MdexWorker"}
    [] name = "DeltaNeutralSpookyWorker" -> {"SpookyWorker"}
    [] OTHER -> {name}
\* Mutant: the longer name is tried last.
AdaptorOf_ShortNameFirst(name) ==
  LET order == <<"PancakeswapWorker", "DeltaNeutralPancakeswapWorker", "WaultswapWorker", "CakeMaxiWorker",
                 "MdexWorker", "SpookyWorker", "TombWorker", "BiswapWorker">>
      found == {i \in DOMAIN order : order[i] \in Includes(name)}
  IN IF name = Skipped \/ found = {} THEN "none" ELSE order[CHOOSE i \in found : \A j \in found : i <= j]
AdaptorOf(name) ==
  LET order == <<"DeltaNeutralPancakeswapWorker", "PancakeswapWorker", "WaultswapWorker", "CakeMaxiWorker",
                 "MdexWorker", "SpookyWorker", "TombWorker", "BiswapWorker">>
      found == {i \in DOMAIN order : order[i] \in Includes(name)}
  IN IF name = Skipped \/ found = {} THEN "none" ELSE order[CHOOSE i \in found : \A j \in found : i <= j]

newWorkerLike(which, entry) ==
  CASE which = "PancakeswapWorker" -> PancakeWorkerAdaptor(entry)
    [] which = "DeltaNeutralPancakeswapWorker" -> DeltaNeutralPancakeWorkerAdaptor(entry)
    [] which = "WaultswapWorker" -> WaultWorkerAdaptor(entry)
    [] which = "CakeMaxiWorker" -> CakeMaxiWorkerAdaptor(entry)
    [] which = "MdexWorker" -> MdexWorkerAdaptor(entry)
    [] which = "SpookyWorker" -> SpookyWorkerAdaptor(entry)
    [] which = "TombWorker" -> TombWorkerAdaptor(entry)
    [] which = "BiswapWorker" -> BiswapWorkerAdaptor(entry)
    [] which = "none" -> {}
=============================================================================
