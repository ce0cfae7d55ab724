---------------------------- MODULE ScriptRunner ----------------------------
(***************************************************************************)
(* A deployment script running against a node.  The script is a sequence   *)
(* of steps (ScriptSteps); the node keeps the transactions of the          *)
(* deployer's account that wait for their nonce, and mines them in nonce   *)
(* order.  The process can throw or be killed between any two steps and    *)
(* be started again: it then deploys anew, so that a call is told apart    *)
(* not by its name but by its step and the run that made it.  Actions of   *)
(* the chain interleave with the script; nobody else sends from the        *)
(* deployer's account.                                                     *)
(***************************************************************************)
EXTENDS Naturals, Sequences, FiniteSets

CONSTANTS
  Programs,   \* the scripts that can be run, each with the owners it meets
  Code,       \* [Programs -> sequence of steps]: the steps for these owners
  MaxRuns,    \* bound: how often a script is started
  MaxReverts, \* bound: how many transactions revert
  Patient     \* whether the operator starts a script only when nothing of his is pending

Ops == {"lookup", "count", "fixed", "send", "prepare", "queue", "write", "save", "throw"}
Admins == {"deployer", "OpMultiSig"}

ASSUME CodeAssumption ==
  /\ \A p \in Programs : Code[p] \in Seq([op : Ops, what : STRING \X STRING, nonce : {"auto", "counter", "same"},
                                          waits : BOOLEAN, owner : STRING, of : STRING])
  /\ MaxRuns \in Nat \ {0} /\ MaxReverts \in Nat
  /\ Patient \in BOOLEAN

VARIABLES
  program,    \* the script that runs
  admin,      \* who timelock.admin() is
  run, pc,
  status,     \* "running", "waiting" (for a receipt), "failed", "done"
  counter,    \* the script's variable nonce
  awaited,    \* the nonce whose receipt the script waits for
  chain,      \* the deployer's mined transactions in nonce order: the call, and whether it is ok
  pool,       \* [nonce -> call]: submitted and not mined
  proposals,  \* {<<nonce, call>>} proposed to the Gnosis Safe
  list,       \* the calls this run has pushed to its list of timelock transactions
  record,     \* [run -> calls]: the file in deploy/results that run wrote
  saved       \* the save steps taken: what they put into the configuration file

vars == <<program, admin, run, pc, status, counter, awaited, chain, pool, proposals, list, record, saved>>
disk == <<record, saved>>
node == <<chain, pool>>

code == Code[program]
step == code[pc]

\* A call, a proposal, a record or a saved address is that of one step in one run.
Made(k, r) == [at |-> k, run |-> r]
ThisCall == Made(pc, run)
Name(c) == code[c.at].what

----------------------------------------------------------------------------
(* Nonces as the node sees them. *)

Mined == Len(chain)
\* The nonce the node gives to a transaction that brings none: eth_getTransactionCount(pending)
\* counts the transactions that can be mined now.
IsNextNonce(n) ==
  /\ n >= Mined /\ n \notin DOMAIN pool
  /\ \A m \in Mined .. n - 1 : m \in DOMAIN pool
\* A transaction whose predecessors are not all there.
Stranded(n) == n \in DOMAIN pool /\ \E m \in Mined .. n - 1 : m \notin DOMAIN pool

Landed == {chain[i].call : i \in {j \in DOMAIN chain : chain[j].ok}}
Executed == {chain[i].call : i \in DOMAIN chain}
Reverted == Cardinality({i \in DOMAIN chain : ~chain[i].ok})
Waiting == {pool[n] : n \in DOMAIN pool}
Proposed == {p[2] : p \in proposals}
Recorded == UNION {record[r] : r \in DOMAIN record}

\* Whether a step gives the node a transaction of the deployer: a queue step sends one only when
\* the deployer is the admin of the timelock, otherwise it signs a proposal for the Safe.
Sends(s, a) == s.op \in {"send", "prepare"} \/ (s.op = "queue" /\ a = "deployer")

----------------------------------------------------------------------------
Init ==
  /\ program \in Programs /\ admin \in Admins
  /\ admin # "deployer" => \E k \in DOMAIN code : code[k].op = "queue"
  /\ run = 1 /\ pc = 1 /\ status = "running"
  /\ counter = 0 /\ awaited = 0
  /\ chain = <<>> /\ pool = <<>> /\ proposals = {}
  /\ list = {} /\ record = [r \in 1 .. MaxRuns |-> {}] /\ saved = {}

Running(op) ==
  /\ status = "running" /\ pc \in DOMAIN code
  /\ step.op = op

Advance == pc' = pc + 1 /\ status' = "running"
Fail == status' = "failed" /\ UNCHANGED pc

\* Every name is in the configuration, or one is missing and the script throws.
DoLookup ==
  /\ Running("lookup")
  /\ Advance \/ Fail
  /\ UNCHANGED <<program, admin, run, counter, awaited, node, proposals, list, disk>>

\* Mutant: one past the next nonce.
DoCount_OffByOne ==
  /\ Running("count")
  /\ counter' = Mined + 1
  /\ Advance
  /\ UNCHANGED <<program, admin, run, awaited, node, proposals, list, disk>>
\* getTransactionCount() without a block tag asks for the latest block: pending transactions
\* are not counted.
DoCount ==
  /\ Running("count")
  /\ counter' = Mined
  /\ Advance
  /\ UNCHANGED <<program, admin, run, awaited, node, proposals, list, disk>>

\* The number in the script was right when it was written: what the account had sent before the
\* first run, or one more.
DoFixed ==
  /\ Running("fixed")
  /\ counter' \in {0, 1}
  /\ Advance
  /\ UNCHANGED <<program, admin, run, awaited, node, proposals, list, disk>>

\* The nonce a step's transaction gets, and the counter after it.
NonceOf(s, n) == IF s.nonce = "auto" THEN IsNextNonce(n) ELSE n = counter
\* Mutant: nonce instead of nonce++.
CounterAfter_NotAdvanced(s) == counter
CounterAfter(s) == IF s.nonce = "counter" THEN counter + 1 ELSE counter

\* Mutant: the result of queueTransaction is dropped.
PushIfQueue_NotPushed(s) == list' = list
PushIfQueue(s) == list' = IF s.op = "queue" THEN list \cup {ThisCall} ELSE list

\* The node takes the transaction; one with the same nonce is displaced, which the node does only
\* when the new one pays more gas.
Accept(n) ==
  /\ n >= Mined
  /\ pool' = [m \in DOMAIN pool \cup {n} |-> IF m = n THEN ThisCall ELSE pool[m]]
  /\ counter' = CounterAfter(step)
  /\ IF step.waits
     THEN status' = "waiting" /\ awaited' = n /\ UNCHANGED <<pc, list>>
     ELSE Advance /\ PushIfQueue(step) /\ UNCHANGED awaited

\* "nonce too low", "already known" or "replacement transaction underpriced": the await throws.
Refuse(n) ==
  /\ n < Mined \/ n \in DOMAIN pool
  /\ Fail
  /\ UNCHANGED <<pool, counter, awaited, list>>

DoSend ==
  /\ \E op \in {"send", "prepare", "queue"} : Running(op)
  /\ Sends(step, admin)
  /\ \E n \in 0 .. Mined + Cardinality(DOMAIN pool) + counter :
       NonceOf(step, n) /\ (Accept(n) \/ Refuse(n))
  /\ UNCHANGED <<program, admin, run, chain, proposals, disk>>

\* prepareUpgrade finds the implementation already deployed and sends nothing.
SkipPrepare ==
  /\ Running("prepare")
  /\ Advance
  /\ UNCHANGED <<program, admin, run, counter, awaited, node, proposals, list, disk>>

\* GnosisSafeMultiSigService.proposeTransaction: the proposal takes the deployer's counter as its
\* nonce when there is one that is not 0, else the next nonce of the Safe.  Nothing is sent.
NextSafeNonce == IF proposals = {} THEN 0
                 ELSE CHOOSE n \in {p[1] + 1 : p \in proposals} : \A p \in proposals : p[1] < n
Propose ==
  /\ Running("queue") /\ admin = "OpMultiSig"
  /\ LET n == IF step.nonce # "auto" /\ counter # 0 THEN counter ELSE NextSafeNonce
     IN proposals' = proposals \cup {<<n, ThisCall>>}
  /\ counter' = CounterAfter(step)
  /\ PushIfQueue(step)
  /\ Advance
  /\ UNCHANGED <<program, admin, run, awaited, node, disk>>

\* Mutant: the receipt is not looked at.
GetReceipt_IgnoresRevert ==
  /\ status = "waiting" /\ awaited < Mined
  /\ Advance /\ PushIfQueue(step)
  /\ UNCHANGED <<program, admin, run, counter, awaited, node, proposals, disk>>
\* Mutant: a call that reverted is sent again.
GetReceipt_SendsAgain ==
  /\ status = "waiting" /\ awaited < Mined
  /\ IF chain[awaited + 1].ok THEN Advance /\ PushIfQueue(step) ELSE status' = "running" /\ UNCHANGED <<pc, list>>
  /\ UNCHANGED <<program, admin, run, counter, awaited, node, proposals, disk>>
\* The receipt: wait() throws when the transaction reverted.
GetReceipt ==
  /\ status = "waiting" /\ awaited < Mined
  /\ IF chain[awaited + 1].ok
     THEN Advance /\ PushIfQueue(step)
     ELSE Fail /\ UNCHANGED list
  /\ UNCHANGED <<program, admin, run, counter, awaited, node, proposals, disk>>

\* Mutant: a file that exists is not written again.
DoWrite_KeepsExisting ==
  /\ Running("write")
  /\ LET title == IF step.what[1] = "stamped" THEN run ELSE 1
     IN record' = [record EXCEPT ![title] = IF @ = {} THEN list ELSE @]
  /\ Advance
  /\ UNCHANGED <<program, admin, run, counter, awaited, node, proposals, list, saved>>
\* writeJson writes the whole list over the file of that name.
DoWrite ==
  /\ Running("write")
  /\ LET title == IF step.what[1] = "stamped" THEN run ELSE 1
     IN record' = [record EXCEPT ![title] = list]
  /\ Advance
  /\ UNCHANGED <<program, admin, run, counter, awaited, node, proposals, list, saved>>

DoSave ==
  /\ Running("save")
  /\ saved' = saved \cup {ThisCall}
  /\ Advance
  /\ UNCHANGED <<program, admin, run, counter, awaited, node, proposals, list, record>>

Finish ==
  /\ status = "running" /\ pc = Len(code) + 1
  /\ status' = "done"
  /\ UNCHANGED <<program, admin, run, pc, counter, awaited, node, proposals, list, disk>>

\* The step itself cannot succeed.
DoThrow ==
  /\ Running("throw")
  /\ Fail
  /\ UNCHANGED <<program, admin, run, counter, awaited, node, proposals, list, disk>>

\* The connection is lost, the process is killed, an estimate fails: what was only in memory is gone.
Throw ==
  /\ status \in {"running", "waiting"}
  /\ Fail
  /\ UNCHANGED <<program, admin, run, counter, awaited, node, proposals, list, disk>>

Rerun ==
  /\ status = "failed" /\ run < MaxRuns
  /\ Patient => DOMAIN pool = {}
  /\ run' = run + 1 /\ pc' = 1 /\ status' = "running"
  /\ counter' = 0 /\ awaited' = 0 /\ list' = {}
  /\ UNCHANGED <<program, admin, node, proposals, disk>>

\* The transaction whose turn it is gets into a block, and succeeds or reverts.
Mine ==
  /\ Mined \in DOMAIN pool
  /\ \E ok \in BOOLEAN :
       /\ ok \/ Reverted < MaxReverts
       /\ chain' = Append(chain, [call |-> pool[Mined], ok |-> ok])
  /\ pool' = [n \in DOMAIN pool \ {Mined} |-> pool[n]]
  /\ UNCHANGED <<program, admin, run, pc, status, counter, awaited, proposals, list, disk>>

\* The script's own steps, in the order of its code.
ScriptStep ==
  \/ DoLookup \/ DoCount \/ DoFixed \/ DoSend \/ SkipPrepare \/ Propose
  \/ GetReceipt \/ DoWrite \/ DoSave \/ DoThrow \/ Finish

Next == ScriptStep \/ Throw \/ Rerun \/ Mine

Spec == Init /\ [][Next]_vars
\* The process runs on while nothing stops it, and a node mines what can be mined.
FairSpec == Spec /\ WF_vars(ScriptStep) /\ WF_vars(Mine)
=============================================================================
