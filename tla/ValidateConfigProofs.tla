------------------------ MODULE ValidateConfigProofs ------------------------
(***************************************************************************)
(* What validate-config.ts prints is right for every file and whatever     *)
(* owners change meanwhile.  Behind it: the script visits the vaults in    *)
(* order and leaves none before its workers are judged, and what a worker  *)
(* was found to disagree in, it disagreed in at one time, all at once.     *)
(***************************************************************************)
EXTENDS ValidateConfig, TLAPS

TypeOK ==
  /\ status \in {"running", "exit0", "exit1"}
  /\ vault \in 1 .. Vaults + 1
  /\ stage \in [Workers -> {"token", "read", "chef", "judged"}]
  /\ found \in [Workers -> SUBSET AllChecks]
  /\ verdict \in [Workers -> {"none", "clean", "problem"}]
  /\ wrong \in [Workers -> SUBSET AllChecks]
  /\ seen \in [Workers -> SUBSET SUBSET AllChecks]
  /\ failed \subseteq Workers

\* The walk over the vaults: behind it everyone is judged, and only after the last vault comes the end.
VaultsInOrder ==
  /\ \/ phase = "shared" /\ vault = 1
     \/ phase \in {"twoSides", "approvals", "workers"} /\ vault <= Vaults
     \/ phase = "delta" /\ vault = Vaults + 1
  /\ status = "exit0" => phase = "delta"
  /\ \A w \in Workers : Entry[w].vault < vault => stage[w] = "judged"
\* Being judged is to have a verdict printed.
JudgedOnPaper ==
  \A w \in Workers : Adaptor(w) # "none" => (stage[w] = "judged" => verdict[w] \in {"clean", "problem"})

\* What the chain says now is among what it has said.
NowIsSeen == \A w \in Workers : wrong[w] \in seen[w]
\* What a worker still waiting for its MasterChef was found to disagree in, it disagreed in at once.
FoundAtOnce == \A w \in Workers : stage[w] = "chef" => \E s \in seen[w] : found[w] = (s \cup Zero(w)) \cap Checks(w)

IInv == TypeOK /\ VaultsInOrder /\ JudgedOnPaper /\ NowIsSeen /\ FoundAtOnce

----------------------------------------------------------------------------
\* The script starts before the first vault, with nobody judged.
LEMMA IInvHolds == ASSUME ValidateAssumption, Init PROVE IInv
PROOF
<1>1. TypeOK
  <2>1. wrong \in [Workers -> SUBSET AllChecks]
    <3>1. \A w \in Workers : wrong[w] \subseteq AllChecks BY DEF Init, ValidateAssumption
    <3> QED BY <3>1 DEF Init
  <2>2. 1 \in 1 .. Vaults + 1 BY DEF ValidateAssumption
  <2> QED BY <2>1, <2>2 DEF Init, TypeOK
<1>2. VaultsInOrder BY DEF Init, VaultsInOrder, ValidateAssumption
<1>3. JudgedOnPaper /\ FoundAtOnce BY DEF Init, JudgedOnPaper, FoundAtOnce
<1>4. NowIsSeen BY DEF Init, NowIsSeen
<1> QED BY <1>1, <1>2, <1>3, <1>4 DEF IInv

\* What a step of one worker's validation does, whichever it is: w goes on and the others wait.
StageMoves(w, next) == stage[w] # "judged" /\ stage' = [stage EXCEPT ![w] = next]
Judged(w) ==
  /\ StageMoves(w, "judged")
  /\ \E v \in {"clean", "problem"} : verdict' = [verdict EXCEPT ![w] = v]
  /\ UNCHANGED found
  /\ failed' \in {failed, failed \cup {w}}
WorkerMoves(w) ==
  \/ UNCHANGED <<stage, found, verdict, failed>>
  \/ Adaptor(w) = "none" /\ StageMoves(w, "judged") /\ UNCHANGED <<found, verdict, failed>>
  \/ StageMoves(w, "read") /\ UNCHANGED <<found, verdict, failed>>
  \/ /\ found' = [found EXCEPT ![w] = (wrong[w] \cup Zero(w)) \cap Checks(w)]
     /\ StageMoves(w, "chef") /\ UNCHANGED <<verdict, failed>>
  \/ /\ found' = [found EXCEPT ![w] = (wrong[w] \cup Zero(w)) \cap Checks(w)]
     /\ StageMoves(w, "judged") /\ UNCHANGED failed
     /\ \E v \in {"clean", "problem"} : verdict' = [verdict EXCEPT ![w] = v]
  \/ Judged(w)

\* Every step of the validation of a worker is one of these.
LEMMA OneWorkerMoves ==
  ASSUME TypeOK, NEW w \in Workers,
         PassOver(w) \/ ReadToken(w) \/ ReadWorker(w) \/ ReadMasterChefV2(w)
  PROVE  WorkerMoves(w)
PROOF
<1>1. CASE PassOver(w) BY <1>1 DEF PassOver, WorkerMoves, StageMoves
<1>2. CASE ReadToken(w) BY <1>2 DEF ReadToken, WorkerMoves, StageMoves
<1>3. CASE ReadWorker(w)
  <2>1. stage[w] # "judged" BY <1>3 DEF ReadWorker
  <2>2. CASE Read(w, Checks(w)) /\ UNCHANGED failed
    <3>1. found' = [found EXCEPT ![w] = (wrong[w] \cup Zero(w)) \cap Checks(w)] BY <2>2 DEF Read
    <3>2. CASE stage' = [stage EXCEPT ![w] = "chef"] /\ UNCHANGED verdict
      BY <2>1, <2>2, <3>1, <3>2 DEF WorkerMoves, StageMoves
    <3>3. ASSUME NEW d, Judge(w, d) PROVE WorkerMoves(w)
      <4>1. stage' = [stage EXCEPT ![w] = "judged"] /\ \E v \in {"clean", "problem"} : verdict' = [verdict EXCEPT ![w] = v]
        BY <3>3, Zenon DEF Judge
      <4> QED BY <2>1, <2>2, <3>1, <4>1 DEF WorkerMoves, StageMoves
    <3> QED BY <1>3, <2>2, <3>2, <3>3, Zenon DEF ReadWorker
  <2>3. CASE Judge(w, Checks(w)) /\ failed' = failed \cup {w} /\ UNCHANGED found
    BY <2>1, <2>3 DEF Judge, WorkerMoves, Judged, StageMoves
  <2> QED BY <1>3, <2>2, <2>3 DEF ReadWorker
<1>4. CASE ReadMasterChefV2(w)
  <2>1. stage[w] # "judged" /\ UNCHANGED found BY <1>4 DEF ReadMasterChefV2
  <2>2. ASSUME NEW d, Judge(w, d), failed' \in {failed, failed \cup {w}} PROVE WorkerMoves(w)
    <3>1. stage' = [stage EXCEPT ![w] = "judged"] /\ \E v \in {"clean", "problem"} : verdict' = [verdict EXCEPT ![w] = v]
      BY <2>2, Zenon DEF Judge
    <3> QED BY <2>1, <2>2, <3>1 DEF WorkerMoves, Judged, StageMoves
  <2> QED BY <1>4, <2>2 DEF ReadMasterChefV2
<1> QED BY <1>1, <1>2, <1>3, <1>4

\* A step of a worker keeps the invariant.
LEMMA WorkersKeepIInv == ASSUME ValidateAssumption, IInv, ValidateWorkers PROVE IInv'
PROOF
<1> USE DEF IInv
<1>0. PICK w \in OfVault(vault) : PassOver(w) \/ ReadToken(w) \/ ReadWorker(w) \/ ReadMasterChefV2(w)
  BY DEF ValidateWorkers
<1>1. w \in Workers /\ Entry[w].vault = vault BY DEF OfVault
<1>2. WorkerMoves(w) BY <1>0, <1>1, OneWorkerMoves
<1>3. UNCHANGED <<vault, phase, wrong, seen>> /\ phase = "workers" BY DEF ValidateWorkers, chain, In
<1>4. status' \in {status, "exit1"} BY <1>0, Zenon DEF PassOver, ReadToken, ReadWorker, ReadMasterChefV2
<1>5. stage' \in [Workers -> {"token", "read", "chef", "judged"}] BY <1>1, <1>2 DEF TypeOK, WorkerMoves, Judged, StageMoves
<1>6. \A v \in Workers : (v # w => stage'[v] = stage[v] /\ found'[v] = found[v] /\ verdict'[v] = verdict[v])
  BY <1>1, <1>2 DEF TypeOK, WorkerMoves, Judged, StageMoves
<1>7. TypeOK'
  <2>0. Zero(w) \subseteq AllChecks BY DEF Zero, ZeroStrategies, AllChecks
  <2>1. found' \in [Workers -> SUBSET AllChecks] BY <1>1, <1>2, <2>0 DEF TypeOK, WorkerMoves, Judged
  <2>2. verdict' \in [Workers -> {"none", "clean", "problem"}] BY <1>1, <1>2 DEF TypeOK, WorkerMoves, Judged
  <2>3. failed' \subseteq Workers BY <1>1, <1>2 DEF TypeOK, WorkerMoves, Judged
  <2>4. status' \in {"running", "exit0", "exit1"} BY <1>4 DEF TypeOK
  <2> QED BY <1>3, <1>5, <2>1, <2>2, <2>3, <2>4 DEF TypeOK
<1>8. VaultsInOrder'
  <2>1. \A v \in Workers : stage[v] = "judged" => stage'[v] = "judged"
    BY <1>1, <1>2 DEF TypeOK, WorkerMoves, Judged, StageMoves
  <2> QED BY <1>3, <1>4, <2>1 DEF VaultsInOrder
<1>9. JudgedOnPaper'
  <2>1. Adaptor(w) # "none" /\ stage'[w] = "judged" => verdict'[w] \in {"clean", "problem"}
    BY <1>1, <1>2 DEF TypeOK, WorkerMoves, Judged, StageMoves, JudgedOnPaper
  <2> QED BY <1>6, <2>1 DEF JudgedOnPaper
<1>10. NowIsSeen' BY <1>3 DEF NowIsSeen
<1>11. FoundAtOnce'
  <2>1. stage'[w] = "chef" => \E s \in seen[w] : found'[w] = (s \cup Zero(w)) \cap Checks(w)
    BY <1>1, <1>2 DEF TypeOK, WorkerMoves, Judged, StageMoves, NowIsSeen, FoundAtOnce
  <2> QED BY <1>3, <1>6, <2>1 DEF FoundAtOnce
<1> QED BY <1>7, <1>8, <1>9, <1>10, <1>11

\* What owners change keeps it.
LEMMA ChangesKeepIInv == ASSUME ValidateAssumption, IInv, Change PROVE IInv'
PROOF
<1> USE DEF IInv
<1>1. UNCHANGED <<status, vault, phase, stage, found, verdict, failed>> BY DEF Change
<1>2. CASE UNCHANGED <<wrong, seen>>
  BY <1>1, <1>2 DEF TypeOK, VaultsInOrder, JudgedOnPaper, NowIsSeen, FoundAtOnce
<1>3. ASSUME NEW w \in Workers, ChangeWorker(w) PROVE IInv'
  <2>1. PICK c \in Differs[w] : wrong' = [wrong EXCEPT ![w] = Flip(wrong[w], c)] BY <1>3 DEF ChangeWorker
  <2>2. seen' = [seen EXCEPT ![w] = seen[w] \cup {wrong'[w]}] BY <1>3 DEF ChangeWorker
  <2>3. wrong' \in [Workers -> SUBSET AllChecks] BY <2>1 DEF TypeOK, Flip, ValidateAssumption
  <2>4. seen' \in [Workers -> SUBSET SUBSET AllChecks]
    <3>1. wrong'[w] \in SUBSET AllChecks /\ seen[w] \in SUBSET SUBSET AllChecks BY <2>3 DEF TypeOK
    <3>2. seen[w] \cup {wrong'[w]} \in SUBSET SUBSET AllChecks BY <3>1
    <3> QED BY <2>2, <3>2 DEF TypeOK
  <2>5. \A v \in Workers : seen[v] \subseteq seen'[v] BY <2>2 DEF TypeOK
  <2>6. TypeOK' BY <1>1, <2>3, <2>4 DEF TypeOK
  <2>7. VaultsInOrder' /\ JudgedOnPaper' BY <1>1 DEF VaultsInOrder, JudgedOnPaper
  <2>8. NowIsSeen' BY <2>1, <2>2 DEF TypeOK, NowIsSeen
  <2>9. FoundAtOnce' BY <1>1, <2>5 DEF FoundAtOnce
  <2> QED BY <2>6, <2>7, <2>8, <2>9
<1> QED BY <1>2, <1>3 DEF Change, ChangeApproval

\* The steps of the script itself keep it.
LEMMA ScriptKeepsIInv == ASSUME ValidateAssumption, IInv, ScriptStep PROVE IInv'
PROOF
<1> USE DEF IInv
<1>1. CASE ValidateStrategies
  BY <1>1 DEF ValidateStrategies, In, Goto, chain, TypeOK, VaultsInOrder, JudgedOnPaper, NowIsSeen, FoundAtOnce, ValidateAssumption
<1>2. CASE ValidateTwoSidesStrategies
  BY <1>2 DEF ValidateTwoSidesStrategies, In, Goto, chain, TypeOK, VaultsInOrder, JudgedOnPaper, NowIsSeen, FoundAtOnce
<1>3. CASE ValidateApproveAddStrategies
  BY <1>3 DEF ValidateApproveAddStrategies, In, Goto, chain, TypeOK, VaultsInOrder, JudgedOnPaper, NowIsSeen, FoundAtOnce
<1>4. CASE ValidateWorkers BY <1>4, WorkersKeepIInv
<1>5. CASE NextVault
  <2>1. /\ vault' = vault + 1 /\ phase' = (IF vault = Vaults THEN "delta" ELSE "twoSides")
        /\ UNCHANGED <<status, stage, found, verdict, wrong, seen, failed>>
        /\ phase = "workers" /\ status = "running"
    BY <1>5 DEF NextVault, In, chain
  <2>2. Vaults \in Nat /\ vault \in Nat /\ vault <= Vaults BY <2>1 DEF VaultsInOrder, TypeOK, ValidateAssumption
  <2>3. TypeOK' BY <2>1, <2>2 DEF TypeOK
  <2>4. \A w \in Workers : Entry[w].vault < vault + 1 => stage[w] = "judged"
    BY <1>5, <2>2 DEF NextVault, AllSettled, OfVault, VaultsInOrder, ValidateAssumption
  <2>5. VaultsInOrder' BY <2>1, <2>2, <2>4 DEF VaultsInOrder
  <2>6. JudgedOnPaper' /\ NowIsSeen' /\ FoundAtOnce' BY <2>1 DEF JudgedOnPaper, NowIsSeen, FoundAtOnce
  <2> QED BY <2>3, <2>5, <2>6
<1>6. CASE ValidateDeltaVault
  BY <1>6 DEF ValidateDeltaVault, In, chain, TypeOK, VaultsInOrder, JudgedOnPaper, NowIsSeen, FoundAtOnce
<1>7. CASE Finish
  BY <1>7 DEF Finish, In, chain, TypeOK, VaultsInOrder, JudgedOnPaper, NowIsSeen, FoundAtOnce
<1> QED BY <1>1, <1>2, <1>3, <1>4, <1>5, <1>6, <1>7 DEF ScriptStep

\* Every step keeps it.
LEMMA IInvIsKept == ASSUME ValidateAssumption, IInv, [Next]_vars PROVE IInv'
PROOF
<1>1. CASE ScriptStep BY <1>1, ScriptKeepsIInv
<1>2. CASE Change BY <1>2, ChangesKeepIInv
<1>3. CASE UNCHANGED vars
  BY <1>3 DEF vars, IInv, TypeOK, VaultsInOrder, JudgedOnPaper, NowIsSeen, FoundAtOnce
<1> QED BY <1>1, <1>2, <1>3 DEF Next

\* So it holds always.
THEOREM Invariance == Spec => []IInv
PROOF
<1>1. Init => IInv BY ValidateAssumption, IInvHolds
<1>2. IInv /\ [Next]_vars => IInv' BY ValidateAssumption, IInvIsKept
<1> QED BY <1>1, <1>2, PTL DEF Spec

\* When validate-config.ts exits normally it has printed a verdict for every worker whose name it knows but the
\* one it skips, however the validations of a vault's workers interleave and whichever of their reads fail.
THEOREM NobodyIsForgotten == Spec => []EveryoneJudged
PROOF
<1>1. IInv => EveryoneJudged
  <2> SUFFICES ASSUME IInv, status = "exit0", NEW w \in Workers, Adaptor(w) # "none"
               PROVE  verdict[w] \in {"clean", "problem"}
    BY DEF EveryoneJudged
  <2>1. vault = Vaults + 1 /\ Entry[w].vault \in 1 .. Vaults /\ Vaults \in Nat
    BY ValidateAssumption DEF IInv, VaultsInOrder
  <2>2. Entry[w].vault < vault BY <2>1
  <2> QED BY <2>2 DEF IInv, VaultsInOrder, JudgedOnPaper
<1> QED BY <1>1, Invariance, PTL
----------------------------------------------------------------------------
(* What the verdicts say. *)

\* What was seen stays seen, and only the chain makes it more; a read that failed stays failed.
LEMMA HistoryGrows ==
  ASSUME ValidateAssumption, IInv, [Next]_vars
  PROVE  /\ \A w \in Workers : seen[w] \subseteq seen'[w]
         /\ failed \subseteq failed'
PROOF
<1>1. CASE Change
  <2>1. UNCHANGED failed BY <1>1 DEF Change
  <2>2. CASE UNCHANGED seen BY <2>1, <2>2
  <2>3. ASSUME NEW w \in Workers, ChangeWorker(w) PROVE \A v \in Workers : seen[v] \subseteq seen'[v]
    BY <2>3 DEF ChangeWorker, IInv, TypeOK
  <2> QED BY <1>1, <2>1, <2>2, <2>3 DEF Change, ChangeApproval
<1>2. CASE ValidateWorkers
  <2>1. PICK w \in OfVault(vault) : PassOver(w) \/ ReadToken(w) \/ ReadWorker(w) \/ ReadMasterChefV2(w)
    BY <1>2 DEF ValidateWorkers
  <2>2. w \in Workers BY DEF OfVault
  <2>3. WorkerMoves(w) BY <2>1, <2>2, OneWorkerMoves DEF IInv
  <2>4. UNCHANGED seen BY <1>2 DEF ValidateWorkers, chain
  <2> QED BY <2>3, <2>4 DEF WorkerMoves, Judged
<1>3. CASE UNCHANGED <<seen, failed>> BY <1>3
<1>4. CASE ScriptStep /\ ~ValidateWorkers
  BY <1>3, <1>4 DEF ScriptStep, ValidateStrategies, ValidateTwoSidesStrategies, ValidateApproveAddStrategies,
    NextVault, ValidateDeltaVault, Finish, chain
<1> QED BY <1>1, <1>2, <1>3, <1>4 DEF Next, vars

\* A verdict is only printed by a step of that worker's validation.
LEMMA OnlyWorkersAreJudged ==
  ASSUME ValidateAssumption, IInv, [Next]_vars, NEW w \in Workers, verdict'[w] # verdict[w]
  PROVE  ValidateWorkers /\ (ReadWorker(w) \/ ReadMasterChefV2(w))
PROOF
<1>1. ValidateWorkers
  BY DEF Next, vars, Change, ScriptStep, ValidateStrategies, ValidateTwoSidesStrategies,
    ValidateApproveAddStrategies, NextVault, ValidateDeltaVault, Finish
<1>2. PICK v \in OfVault(vault) : PassOver(v) \/ ReadToken(v) \/ ReadWorker(v) \/ ReadMasterChefV2(v)
  BY <1>1 DEF ValidateWorkers
<1>3. v \in Workers BY DEF OfVault
<1>4. WorkerMoves(v) BY <1>2, <1>3, OneWorkerMoves DEF IInv
<1>5. v = w BY <1>3, <1>4 DEF WorkerMoves, Judged, IInv, TypeOK
<1> QED BY <1>1, <1>2, <1>5 DEF PassOver, ReadToken

\* What is compared for a worker to be printed as agreeing.
Agreed(w, s) == s \cap (Strategies \cup Partial) \cap Checks(w) = {}

\* A worker is printed as agreeing when all of what was read in one block agreed.
LEMMA JudgedClean ==
  ASSUME ValidateAssumption, IInv, NEW w \in Workers, ReadWorker(w) \/ ReadMasterChefV2(w),
         verdict'[w] = "clean", verdict[w] # "clean"
  PROVE  \E s \in seen[w] : Agreed(w, s)
PROOF
<1> USE DEF IInv
<1>1. verdict \in [Workers -> {"none", "clean", "problem"}] BY DEF TypeOK
<1>2. ASSUME NEW d, Judge(w, d) PROVE d = {} BY <1>1, <1>2 DEF Judge
<1>3. wrong[w] \in seen[w] BY DEF NowIsSeen
<1>4. Checks(w) = {} => Agreed(w, wrong[w]) BY DEF Agreed
<1>5. CASE ReadWorker(w)
  <2>1. CASE Read(w, Checks(w))
    <3>1. found'[w] = (wrong[w] \cup Zero(w)) \cap Checks(w) BY <2>1 DEF Read, TypeOK
    <3>2. found'[w] = {} => Agreed(w, wrong[w]) BY <3>1 DEF Agreed
    <3>3. \/ Answered(w) /\ Adaptor(w) = "PancakeswapWorker" /\ UNCHANGED verdict
          \/ Judge(w, IF Answered(w) THEN found'[w] ELSE Checks(w))
          \/ Judge(w, Checks(w))
      BY <1>5, Zenon DEF ReadWorker
    <3>4. found'[w] = {} \/ Checks(w) = {}
      <4>1. CASE UNCHANGED verdict BY <4>1
      <4>2. CASE Judge(w, IF Answered(w) THEN found'[w] ELSE Checks(w)) BY <1>2, <4>2
      <4>3. CASE Judge(w, Checks(w)) BY <1>2, <4>3
      <4> QED BY <3>3, <4>1, <4>2, <4>3
    <3> QED BY <1>3, <1>4, <3>2, <3>4
  <2>2. CASE Judge(w, Checks(w)) BY <1>2, <1>3, <1>4, <2>2
  <2> QED BY <1>5, <2>1, <2>2, Zenon DEF ReadWorker
<1>6. CASE ReadMasterChefV2(w)
  <2>1. PICK s \in seen[w] : found[w] = (s \cup Zero(w)) \cap Checks(w) BY <1>6 DEF ReadMasterChefV2, FoundAtOnce
  <2>2. found[w] \ {"stakingTokenAt"} = {}
    <3> DEFINE rest == found[w] \ {"stakingTokenAt"}
    <3>1. Judge(w, found[w]) \/ Judge(w, rest \cup (wrong[w] \cap {"stakingTokenAt"}))
          \/ Judge(w, rest \cup {"stakingTokenAt"})
      BY <1>6 DEF ReadMasterChefV2
    <3>2. found[w] = {} \/ rest \cup (wrong[w] \cap {"stakingTokenAt"}) = {} \/ rest \cup {"stakingTokenAt"} = {}
      BY <1>2, <3>1
    <3> QED BY <3>2
  <2>3. "stakingTokenAt" \notin Strategies \cup Partial BY DEF Strategies, Partial
  <2> QED BY <2>1, <2>2, <2>3 DEF Agreed
<1> QED BY <1>5, <1>6

\* A worker that validate-config.ts prints without a problem agreed with the file in all its strategies
\* at once, in one block, although they are approved and revoked while the script runs.
THEOREM CleanMeansClean == Spec => []CleanInOneBlock
PROOF
<1>1. Init => CleanInOneBlock BY DEF Init, CleanInOneBlock
<1>2. ASSUME IInv, CleanInOneBlock, [Next]_vars PROVE CleanInOneBlock'
  <2> SUFFICES ASSUME NEW w \in Workers, verdict'[w] = "clean"
               PROVE  \E s \in seen'[w] : Agreed(w, s)
    BY DEF CleanInOneBlock, Agreed
  <2>1. seen[w] \subseteq seen'[w] BY <1>2, ValidateAssumption, HistoryGrows
  <2>2. CASE verdict[w] = "clean" BY <1>2, <2>1, <2>2 DEF CleanInOneBlock, Agreed
  <2>3. CASE verdict[w] # "clean"
    <3>1. ReadWorker(w) \/ ReadMasterChefV2(w) BY <1>2, <2>3, ValidateAssumption, OnlyWorkersAreJudged
    <3>2. \E s \in seen[w] : Agreed(w, s) BY <1>2, <2>3, <3>1, ValidateAssumption, JudgedClean
    <3> QED BY <2>1, <3>2
  <2> QED BY <2>2, <2>3
<1> QED BY <1>1, <1>2, Invariance, PTL DEF Spec

\* The if chain ends at one of its adaptors, or at none.
LEMMA KnownAdaptors ==
  ASSUME NEW name
  PROVE  AdaptorOf(name) \in {"DeltaNeutralPancakeswapWorker", "PancakeswapWorker", "WaultswapWorker", "CakeMaxiWorker",
                              "MdexWorker", "SpookyWorker", "TombWorker", "BiswapWorker", "none"}
PROOF
<1> DEFINE order == <<"DeltaNeutralPancakeswapWorker", "PancakeswapWorker", "WaultswapWorker", "CakeMaxiWorker",
                      "MdexWorker", "SpookyWorker", "TombWorker", "BiswapWorker">>
           hits == {i \in DOMAIN order : order[i] \in Includes(name)}
<1>1. AdaptorOf(name) = IF name = Skipped \/ hits = {} THEN "none" ELSE order[CHOOSE i \in hits : \A j \in hits : i <= j]
  BY Zenon DEF AdaptorOf
<1>2. \A i \in hits : i \in {1, 2, 3, 4, 5, 6, 7, 8} OBVIOUS
<1>3. hits # {} => \E i \in hits : \A j \in hits : i <= j
  <2> HIDE DEF hits
  <2> QED BY <1>2
<1>4. hits # {} => (CHOOSE i \in hits : \A j \in hits : i <= j) \in {1, 2, 3, 4, 5, 6, 7, 8}
  <2> HIDE DEF hits
  <2> QED BY <1>2, <1>3
<1>5. \A i \in {1, 2, 3, 4, 5, 6, 7, 8} :
        order[i] \in {"DeltaNeutralPancakeswapWorker", "PancakeswapWorker", "WaultswapWorker", "CakeMaxiWorker",
                      "MdexWorker", "SpookyWorker", "TombWorker", "BiswapWorker"}
  OBVIOUS
<1> HIDE DEF order, hits
<1> QED BY <1>1, <1>4, <1>5

\* Every other worker has what its adaptor asks for.
LEMMA AdaptorsFit == ASSUME NEW w \in Workers, Entry[w].name \notin AskedForFees PROVE Answered(w)
PROOF
<1>1. CASE Entry[w].name = "DeltaNeutralPancakeswapWorker"
  <2> DEFINE name == "DeltaNeutralPancakeswapWorker"
             order == <<"DeltaNeutralPancakeswapWorker", "PancakeswapWorker", "WaultswapWorker", "CakeMaxiWorker",
                        "MdexWorker", "SpookyWorker", "TombWorker", "BiswapWorker">>
             hits == {i \in DOMAIN order : order[i] \in Includes(name)}
  <2>1. Includes(name) = {name, "PancakeswapWorker"} BY DEF Includes, Skipped
  <2>2. 1 \in hits /\ \A j \in hits : 1 <= j BY <2>1
  <2>3. \A i \in hits : (\A j \in hits : i <= j) => i = 1 BY <2>2
  <2>4. (CHOOSE i \in hits : \A j \in hits : i <= j) = 1 BY <2>2, <2>3
  <2>5. AdaptorOf(name) = name BY <2>2, <2>4 DEF AdaptorOf, Skipped
  <2>6. Checks(w) = Place \cup Strategies \cup Listed(Entry[w])
    BY <1>1, <2>5 DEF Checks, Adaptor, newWorkerLike, DeltaNeutralPancakeWorkerAdaptor
  <2> QED BY <1>1, <2>6 DEF Answered, HasFields, AllChecks, DeltaNeutralNames, Place, Fee, Strategies, Partial, Listed
<1>2. CASE Entry[w].name \notin DeltaNeutralNames
  <2>1. HasFields(Entry[w].name) = AllChecks BY <1>2 DEF HasFields
  <2>2. Listed(Entry[w]) \subseteq AllChecks BY DEF Listed, AllChecks
  <2>3. Place \cup Fee \cup Strategies \cup Partial \cup {"feeDenom"} \subseteq AllChecks BY DEF AllChecks, Fee
  <2>4. Checks(w) \subseteq AllChecks
    BY KnownAdaptors, <2>2, <2>3 DEF Checks, Adaptor, newWorkerLike, PancakeWorkerAdaptor, DeltaNeutralPancakeWorkerAdaptor,
      WaultWorkerAdaptor, CakeMaxiWorkerAdaptor, MdexWorkerAdaptor, SpookyWorkerAdaptor, TombWorkerAdaptor,
      BiswapWorkerAdaptor
  <2> QED BY <2>1, <2>4 DEF Answered
<1> QED BY <1>1, <1>2 DEF AskedForFees

\* A worker that has what it is asked for is printed as disagreeing after a failed read or a disagreement.
LEMMA JudgedProblem ==
  ASSUME ValidateAssumption, IInv, NEW w \in Workers, ReadWorker(w) \/ ReadMasterChefV2(w), Answered(w),
         verdict'[w] = "problem", verdict[w] # "problem", Zero(w) = {}
  PROVE  w \in failed' \/ \E s \in seen[w] : s # {}
PROOF
<1> USE DEF IInv
<1>1. verdict \in [Workers -> {"none", "clean", "problem"}] BY DEF TypeOK
<1>2. ASSUME NEW d, Judge(w, d) PROVE d # {} BY <1>1, <1>2 DEF Judge
<1>3. wrong[w] \in seen[w] BY DEF NowIsSeen
<1>4. CASE ReadWorker(w)
  <2>1. CASE Read(w, Checks(w))
    <3>1. found'[w] = (wrong[w] \cup Zero(w)) \cap Checks(w) BY <2>1 DEF Read, TypeOK
    <3>2. UNCHANGED verdict \/ Judge(w, found'[w]) \/ (Judge(w, Checks(w)) /\ failed' = failed \cup {w})
      BY <1>4, Zenon DEF ReadWorker
    <3>3. CASE UNCHANGED verdict BY <3>3
    <3>4. CASE Judge(w, found'[w]) BY <1>2, <1>3, <3>1, <3>4
    <3> QED BY <3>2, <3>3, <3>4
  <2>2. CASE failed' = failed \cup {w} BY <2>2
  <2> QED BY <1>4, <2>1, <2>2, Zenon DEF ReadWorker
<1>5. CASE ReadMasterChefV2(w)
  <2>1. PICK s \in seen[w] : found[w] = (s \cup Zero(w)) \cap Checks(w) BY <1>5 DEF ReadMasterChefV2, FoundAtOnce
  <2> DEFINE rest == found[w] \ {"stakingTokenAt"}
  <2>2. \/ Judge(w, found[w]) \/ Judge(w, rest \cup (wrong[w] \cap {"stakingTokenAt"}))
        \/ failed' = failed \cup {w}
    BY <1>5 DEF ReadMasterChefV2
  <2>3. CASE Judge(w, found[w]) BY <1>2, <2>1, <2>3
  <2>4. CASE Judge(w, rest \cup (wrong[w] \cap {"stakingTokenAt"}))
    <3>1. rest \cup (wrong[w] \cap {"stakingTokenAt"}) # {} BY <1>2, <2>4
    <3>2. s # {} \/ wrong[w] # {} BY <2>1, <3>1
    <3> QED BY <1>3, <3>2
  <2> QED BY <2>2, <2>3, <2>4
<1> QED BY <1>4, <1>5

\* validate-config.ts prints a problem for a worker only when a read failed or the contract and the file
\* really disagreed; but for the workers it misjudges by their name or entry, of which nothing is said.
THEOREM ProblemsAreReal == Spec => []NoFalseAlarm
PROOF
<1>1. Init => NoFalseAlarm BY DEF Init, NoFalseAlarm
<1>2. ASSUME IInv, NoFalseAlarm, [Next]_vars PROVE NoFalseAlarm'
  <2> SUFFICES ASSUME NEW w \in Workers \ Misjudged, verdict'[w] = "problem"
               PROVE  w \in failed' \/ \E s \in seen'[w] : s # {}
    BY DEF NoFalseAlarm
  <2>1. seen[w] \subseteq seen'[w] /\ failed \subseteq failed' BY <1>2, ValidateAssumption, HistoryGrows
  <2>2. CASE verdict[w] = "problem" BY <1>2, <2>1, <2>2 DEF NoFalseAlarm
  <2>3. CASE verdict[w] # "problem"
    <3>1. ReadWorker(w) \/ ReadMasterChefV2(w) BY <1>2, <2>3, ValidateAssumption, OnlyWorkersAreJudged
    <3>2. Answered(w) /\ Zero(w) = {} BY AdaptorsFit DEF Misjudged, Zero, ZeroStrategies
    <3>3. w \in failed' \/ \E s \in seen[w] : s # {} BY <1>2, <2>3, <3>1, <3>2, ValidateAssumption, JudgedProblem
    <3> QED BY <2>1, <3>3
  <2> QED BY <2>2, <2>3
<1> QED BY <1>1, <1>2, Invariance, PTL DEF Spec
=============================================================================
