-------------------------- MODULE ScriptProperties --------------------------
(***************************************************************************)
(* What a run of a deployment script must keep in order.  The first part   *)
(* reads the order of a script's steps; the properties then say what that  *)
(* order guarantees whatever the node, the chain and the operator do.      *)
(***************************************************************************)
EXTENDS ScriptRunner

\* The step leaves the counter equal to the next nonce if it was.
KeepsCounter(s, a) ==
  /\ s.op \notin {"count", "fixed"}
  /\ Sends(s, a) <=> s.nonce = "counter"

\* Every unawaited transaction before step k is followed by an awaited one, which only lands after it.
SettledAt(c, a, k) ==
  \A m \in 1 .. k - 1 :
    Sends(c[m], a) /\ (~c[m].waits \/ c[m].op = "prepare") =>
      \E w \in m .. k - 1 : Sends(c[w], a) /\ c[w].waits /\ (c[w].op = "prepare" => w = m)

\* The counter was read when nothing was pending, and only used by transactions that were sent since.
FreshAt(c, a, k) ==
  \E j \in 1 .. k - 1 :
    /\ c[j].op = "count" /\ SettledAt(c, a, j)
    /\ \A m \in j + 1 .. k - 1 : KeepsCounter(c[m], a)

\* Every transaction with a nonce of the script's own takes it from a fresh counter.
WellNonced(c, a) ==
  \A k \in DOMAIN c : Sends(c[k], a) /\ c[k].nonce # "auto" => FreshAt(c, a, k)

Disciplined == [p \in Programs |-> [a \in Admins |-> WellNonced(Code[p], a)]]

\* What a script awaits the receipt of, its deployments among them.
Awaited == [p \in Programs |->
  {Code[p][k].what : k \in {j \in DOMAIN Code[p] : Code[p][j].op = "send" /\ Code[p][j].waits}}]

\* What has got to the timelock or the Safe, in this run or an earlier one.
Queued == {c \in Landed \cup Proposed : code[c.at].op = "queue"}

\* The list is written out after the last transaction is queued.
Records(c) ==
  \A k \in DOMAIN c : c[k].op = "queue" => \E j \in k + 1 .. Len(c) : c[j].op = "write"
\* It is written out after each of them, and only in files that no other run writes.
RecordsEach(c) ==
  /\ \A k \in DOMAIN c : c[k].op = "queue" => k + 1 \in DOMAIN c /\ c[k + 1].op = "write"
  /\ \A k \in DOMAIN c : c[k].op = "write" => c[k].what[1] = "stamped"

\* What is saved under the name of an awaited contract is saved after awaiting it.
DeploysBeforeSaving(c) ==
  \A k \in DOMAIN c : c[k].op = "save" =>
    \A i \in DOMAIN c : c[i].op = "send" /\ c[i].waits /\ c[i].what = c[k].what =>
      \E j \in 1 .. k - 1 : c[j].op = "send" /\ c[j].waits /\ c[j].what = c[k].what

----------------------------------------------------------------------------
(* Nonces *)

\* No transaction of a well nonced script waits behind a nonce that nobody uses (the counter of
\* deploy/exec scripts, nonce++, against the node's own count).
NothingStranded == Disciplined[program][admin] => \A n \in DOMAIN pool : ~Stranded(n)

\* A transaction the node has accepted is never displaced by a later one with the same nonce, in
\* whatever order deployments, counted calls and queued calls follow each other.
NothingDisplaced ==
  [][Disciplined[program][admin] =>
       \A n \in DOMAIN pool : \/ n \in DOMAIN pool' /\ pool'[n] = pool[n]
                              \/ n + 1 \in DOMAIN chain' /\ chain'[n + 1].call = pool[n]]_vars

\* Started once, a well nonced script ends: it never waits for the receipt of a transaction that
\* no block can take.
RunEnds == status \in {"running", "waiting"} /\ Disciplined[program][admin] ~> status \in {"failed", "done"}

\* What a well nonced script has sent lands, also when nobody waits for it any more.
SentLands == DOMAIN pool # {} /\ Disciplined[program][admin] ~> DOMAIN pool = {}

----------------------------------------------------------------------------
(* The whole of it, for a well nonced script: what the nonces, the node, receipts and crashes amount to. *)

CallsOf(p) == [k \in DOMAIN Code[p] |-> Code[p][k].what]

\* The first step of this run that has sent nothing yet; a run that is over has none.
NextStep == CASE status = "running" -> pc
              [] status = "waiting" -> pc + 1
              [] OTHER -> Len(code) + 1
\* The pending transactions in nonce order.
InLine == [i \in {n - Mined + 1 : n \in DOMAIN pool} |-> Name(pool[Mined + i - 1])]
MinedCalls == [i \in DOMAIN chain |-> Name(chain[i].call)]

Mapped(value, blank) == IF Disciplined[program][admin] THEN value ELSE blank
Order == INSTANCE OrderlyScript WITH
  Scripts <- {CallsOf(p) : p \in Programs} \cup {<<>>},
  script  <- Mapped(CallsOf(program), <<>>),
  next    <- Mapped(NextStep, 1),
  waiting <- Mapped(InLine, <<>>),
  mined   <- Mapped(MinedCalls, <<>>)

\* The calls of a well nonced script (nonce++ in deploy/exec) reach the chain in the order in which they
\* are written, none twice in a run, none displaced and none ahead of one that was sent before it.
ImplementsOrder == Order!OrderSpec

----------------------------------------------------------------------------
(* Files *)

\* The configuration file never names a contract that the run which saved it has not got onto the
\* chain, although the process can die anywhere and any transaction can revert (ConfigFileHelper is
\* called after the deployment).
SavedIsDeployed ==
  \A c \in saved : Name(c) \in Awaited[program] =>
    \E d \in Landed : d.run = c.run /\ Name(d) = Name(c)

\* When the configuration file names a contract, the run that saved it has made every call that comes
\* before, and what it awaited of them has succeeded or is proposed to the Safe.  So a half wired worker
\* is listed in one case only: a call awaited for its submission alone (setStrategyOk, setWorkersOk)
\* reverts when it is mined.
SavedIsWired ==
  Disciplined[program][admin] =>
    \A c \in saved : \A j \in 1 .. c.at - 1 : code[j].op \in {"send", "queue"} =>
      /\ Made(j, c.run) \in Executed \cup Waiting \cup Proposed
      /\ code[j].waits => Made(j, c.run) \in Landed \cup Proposed

\* A run that ends has left a record of everything it has queued in the timelock or proposed to the
\* Safe (timelockTransactions and writeJson).  Of what an earlier run queued before it died nothing is said.
QueuedIsRecorded ==
  status = "done" /\ Records(code) => {c \in Queued : c.run = run} \subseteq Recorded

\* A script that writes its record after every queued transaction, under a title of its own, leaves
\* at most one queued call of each run unrecorded, the one it was at when it died; and a later run
\* takes nothing out of the records of earlier ones.
AtMostOneUnrecorded ==
  RecordsEach(code) => \A r \in 1 .. run : Cardinality({c \in Queued \ Recorded : c.run = r}) <= 1
=============================================================================
