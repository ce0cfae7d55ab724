--------------------------- MODULE ValidateConfig ---------------------------
(***************************************************************************)
(* scripts/validate-config.ts: it compares the configuration file with the *)
(* chain, vault after vault, the workers of a vault all at once, while     *)
(* owners go on changing what it reads.  Each multicall reads one block.   *)
(***************************************************************************)
EXTENDS Naturals, FiniteSets, WorkerChecks

CONSTANTS
  Vaults,        \* how many vaults the file lists
  Entry,         \* [worker -> its entry: vault, name, partial, chefV2]
  AddStrategies, \* what every vault should have approved
  DeltaVaults,   \* how many delta-neutral vaults the file lists
  Differs,       \* bound: [worker -> the checks that may fail, one of them from the start]
  MaxChanges     \* bound: changes on the chain while the script runs

Workers == DOMAIN Entry

ASSUME ValidateAssumption ==
  /\ Vaults \in Nat /\ DeltaVaults \in Nat /\ MaxChanges \in Nat
  /\ \A w \in Workers : Entry[w].vault \in 1 .. Vaults
  /\ Differs \in [Workers -> SUBSET AllChecks]

\* What the adaptor of a worker compares, and the strategies among it that the file does not name.
Adaptor(w) == AdaptorOf(Entry[w].name)
Checks(w) == newWorkerLike(Adaptor(w), Entry[w])
Zero(w) == ZeroStrategies(Adaptor(w), Entry[w])
\* What the contract has and the file names: in nothing else can they disagree.
Compared(w) == (Checks(w) \cap HasFields(Entry[w].name)) \ Zero(w)

VARIABLES
  status,    \* "running", "exit0", "exit1"
  vault,     \* the vault at hand
  phase,     \* "shared", "twoSides", "approvals", "workers", "delta"
  report,    \* [vault -> what was printed for its strategies]
  stage,     \* [worker -> what its validation does next]
  found,     \* [worker -> the disagreements it has read]
  verdict,   \* [worker -> what was printed for it]
  delta,     \* delta-neutral vaults that agreed
  wrong,     \* chain: [worker -> the checks in which it disagrees with the file]
  approved,  \* chain: [vault -> the strategies it approves]
  changes,
  seen,      \* history: [worker -> the values of wrong[w] so far]
  approvals, \* history: [vault -> the values of approved[v] so far]
  failed     \* history: the workers of which a read failed

vars == <<status, vault, phase, report, stage, found, verdict, delta, wrong, approved, changes, seen, approvals, failed>>
chain == <<wrong, approved, changes, seen, approvals>>

Init ==
  /\ status = "running" /\ vault = 1 /\ phase = "shared" /\ delta = 0 /\ changes = 0
  /\ report = [v \in 1 .. Vaults |-> "none"]
  /\ stage = [w \in Workers |-> "token"]
  /\ found = [w \in Workers |-> {}]
  /\ verdict = [w \in Workers |-> "none"]
  /\ wrong \in [Workers -> {{}} \cup {{c} : c \in UNION {Differs[w] : w \in Workers}}]
  /\ \A w \in Workers : wrong[w] \subseteq Differs[w] \cap Compared(w)
  /\ approved \in [1 .. Vaults -> {AddStrategies} \cup {AddStrategies \ {s} : s \in AddStrategies}]
  /\ seen = [w \in Workers |-> {wrong[w]}]
  /\ approvals = [v \in 1 .. Vaults |-> {approved[v]}]
  /\ failed = {}

----------------------------------------------------------------------------
In(p) == status = "running" /\ phase = p
Goto(p) == phase' = p /\ UNCHANGED <<status, vault, delta>>
OfVault(v) == {w \in Workers : Entry[w].vault = v}

\* Routers never change; whatever the result is, it is printed and the script goes on.
ValidateStrategies ==
  /\ In("shared")
  /\ Goto(IF Vaults = 0 THEN "delta" ELSE "twoSides")
  /\ UNCHANGED <<report, stage, found, verdict, chain, failed>>

\* A disagreement or a failing call throws, and the approvals of the vault are not looked at.
ValidateTwoSidesStrategies ==
  /\ In("twoSides")
  /\ \/ /\ Goto("approvals") /\ UNCHANGED report
     \/ /\ Goto("workers") /\ report' = [report EXCEPT ![vault] = "problem"]
  /\ UNCHANGED <<stage, found, verdict, chain, failed>>

\* isApproves.find((isApprove) => isApprove === false) is false or undefined, never true.
IsReturnFalse(isApproves) == FALSE
ValidateApproveAddStrategies ==
  /\ In("approvals")
  /\ Goto("workers")
  /\ \/ report' = [report EXCEPT ![vault] = IF IsReturnFalse(approved[vault]) THEN "problem" ELSE "clean"]
     \/ report' = [report EXCEPT ![vault] = "problem"]
  /\ UNCHANGED <<stage, found, verdict, chain, failed>>

----------------------------------------------------------------------------
(* The workers of a vault; their steps interleave. *)

Judge(w, disagreements) ==
  /\ verdict' = [verdict EXCEPT ![w] = IF disagreements = {} THEN "clean" ELSE "problem"]
  /\ stage' = [stage EXCEPT ![w] = "judged"]

PassOver(w) ==
  /\ Adaptor(w) = "none" /\ stage[w] = "token"
  /\ stage' = [stage EXCEPT ![w] = "judged"]
  /\ UNCHANGED <<status, found, verdict, failed>>

\* Mutant: the failure is caught here.
ReadToken_Caught(w) ==
  /\ Adaptor(w) # "none" /\ stage[w] = "token"
  /\ \E s \in {"read", "judged"} : stage' = [stage EXCEPT ![w] = s]
  /\ UNCHANGED <<status, found, verdict, failed>>
\* await vault.token() is outside the try of the adaptor: when it fails, Promise.all and main reject,
\* and the process exits with the other workers unjudged.
ReadToken(w) ==
  /\ Adaptor(w) # "none" /\ stage[w] = "token"
  /\ \/ stage' = [stage EXCEPT ![w] = "read"] /\ UNCHANGED status
     \/ status' = "exit1" /\ UNCHANGED stage
  /\ UNCHANGED <<found, verdict, failed>>

\* Mutant: one call after the other, each reading a block of its own.
Read_OneByOne(w, calls) ==
  \E block \in [calls \cap Differs[w] -> seen[w]] : found' = [found EXCEPT ![w] = {c \in DOMAIN block : c \in block[c]} \cup (Zero(w) \cap calls)]
\* aggregate: all calls read the same block.
Read(w, calls) == found' = [found EXCEPT ![w] = (wrong[w] \cup Zero(w)) \cap calls]

\* The aggregate reverts when the contract lacks one of the functions, or for reasons of the node.
Answered(w) == Checks(w) \subseteq HasFields(Entry[w].name)
ReadWorker(w) ==
  /\ stage[w] = "read"
  /\ \/ /\ Read(w, Checks(w))
        /\ IF Answered(w) /\ Adaptor(w) = "PancakeswapWorker"
           THEN stage' = [stage EXCEPT ![w] = "chef"] /\ UNCHANGED verdict
           ELSE Judge(w, IF Answered(w) THEN found'[w] ELSE Checks(w))
        /\ UNCHANGED failed
     \/ /\ Judge(w, Checks(w)) /\ failed' = failed \cup {w} /\ UNCHANGED found
  /\ UNCHANGED status

\* masterChefV2 is read later, in a call of its own; when that fails, the masterChef of the first
\* read stands, which on a worker of MasterChefV2 is not the one in the file.
ReadMasterChefV2(w) ==
  /\ stage[w] = "chef"
  /\ LET rest == found[w] \ {"stakingTokenAt"}
     IN \/ ~Entry[w].chefV2 /\ Judge(w, found[w]) /\ UNCHANGED failed
        \/ Entry[w].chefV2 /\ Judge(w, rest \cup (wrong[w] \cap {"stakingTokenAt"})) /\ UNCHANGED failed
        \/ Entry[w].chefV2 /\ Judge(w, rest \cup {"stakingTokenAt"}) /\ failed' = failed \cup {w}
  /\ UNCHANGED <<status, found>>

ValidateWorkers ==
  /\ In("workers")
  /\ \E w \in OfVault(vault) : PassOver(w) \/ ReadToken(w) \/ ReadWorker(w) \/ ReadMasterChefV2(w)
  /\ UNCHANGED <<vault, phase, report, delta, chain>>

AllSettled(v) == \A w \in OfVault(v) : stage[w] = "judged"

NextVault ==
  /\ In("workers") /\ AllSettled(vault)
  /\ vault' = vault + 1
  /\ phase' = IF vault = Vaults THEN "delta" ELSE "twoSides"
  /\ UNCHANGED <<status, delta, report, stage, found, verdict, chain, failed>>

\* A disagreement of a delta-neutral vault is not caught: the ones after it are not looked at.
ValidateDeltaVault ==
  /\ In("delta") /\ delta < DeltaVaults
  /\ \/ delta' = delta + 1 /\ UNCHANGED status
     \/ status' = "exit1" /\ UNCHANGED delta
  /\ UNCHANGED <<vault, phase, report, stage, found, verdict, chain, failed>>
Finish ==
  /\ In("delta") /\ delta = DeltaVaults
  /\ status' = "exit0"
  /\ UNCHANGED <<vault, phase, report, stage, found, verdict, delta, chain, failed>>

----------------------------------------------------------------------------
(* Owners, meanwhile. *)

Flip(set, x) == IF x \in set THEN set \ {x} ELSE set \cup {x}

\* setStrategyOk of a worker, or an upgrade that moves it to another MasterChef.
ChangeWorker(w) ==
  /\ \E c \in Differs[w] \cap (Strategies \cup Partial \cup {"stakingTokenAt"}) \cap Compared(w) :
       wrong' = [wrong EXCEPT ![w] = Flip(@, c)]
  /\ seen' = [seen EXCEPT ![w] = @ \cup {wrong'[w]}]
  /\ UNCHANGED <<approved, approvals>>
\* setApprovedAddStrategy
ChangeApproval(v) ==
  /\ \E s \in AddStrategies : approved' = [approved EXCEPT ![v] = Flip(@, s)]
  /\ approvals' = [approvals EXCEPT ![v] = @ \cup {approved'[v]}]
  /\ UNCHANGED <<wrong, seen>>
Change ==
  /\ status = "running" /\ changes < MaxChanges
  /\ changes' = changes + 1
  /\ (\E w \in Workers : ChangeWorker(w)) \/ (\E v \in 1 .. Vaults : ChangeApproval(v))
  /\ UNCHANGED <<status, vault, phase, report, stage, found, verdict, delta, failed>>

ScriptStep ==
  \/ ValidateStrategies \/ ValidateTwoSidesStrategies \/ ValidateApproveAddStrategies
  \/ ValidateWorkers \/ NextVault \/ ValidateDeltaVault \/ Finish
Next == ScriptStep \/ Change

Spec == Init /\ [][Next]_vars

----------------------------------------------------------------------------
\* A worker printed as "no problem found" agreed with the file in all its strategies at once, in one
\* block, although the strategies are approved and revoked while the script runs.
CleanInOneBlock ==
  \A w \in Workers : verdict[w] = "clean" =>
    \E s \in seen[w] : s \cap (Strategies \cup Partial) \cap Checks(w) = {}

\* The workers that are accused whatever they say: the delta-neutral ones whose names are taken for those of
\* farm workers, asked for a fee they do not have, and those of Biswap for which the file names no partial
\* close strategies, asked for that of address 0.
AskedForFees == DeltaNeutralNames \ {"DeltaNeutralPancakeswapWorker"}
Misjudged == {w \in Workers : \/ Entry[w].name \in AskedForFees
                              \/ Adaptor(w) = "BiswapWorker" /\ ~Entry[w].partial}

\* "some problem found" is printed for a worker, but for the misjudged ones, only when a read failed or the
\* contract and the file really differed in something they both have.
NoFalseAlarm ==
  \A w \in Workers \ Misjudged : verdict[w] = "problem" =>
    w \in failed \/ \E s \in seen[w] : s # {}

\* When the script exits normally, it has printed a verdict for every worker whose name it knows but
\* BETH-ETH PancakeswapWorker, which is skipped: none is lost when the validations of a vault fail side
\* by side.
EveryoneJudged ==
  status = "exit0" => \A w \in Workers : Adaptor(w) # "none" => verdict[w] \in {"clean", "problem"}

\* "done, no problem found" is printed for a vault only when it approved all the add strategies.
ApprovedWhenClean ==
  \A v \in 1 .. Vaults : report[v] = "clean" => AddStrategies \in approvals[v]
=============================================================================
