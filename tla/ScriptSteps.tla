----------------------------- MODULE ScriptSteps -----------------------------
(***************************************************************************)
(* The steps a deployment script of deploy/exec is made of.  A script is a *)
(* sequence of steps; the catalogue modules write one definition per       *)
(* script and ScriptRunner gives the steps their meaning.                  *)
(*                                                                         *)
(* what    <<call, x>>: the call made and the item (vault, worker, pool)   *)
(*         it is made for                                                  *)
(* nonce   "counter": the call passes { nonce: nonce++ }                   *)
(*         "same":    it passes { nonce: nonce } and leaves the counter    *)
(*         "auto":    it leaves the nonce to the node                      *)
(* waits   whether the script awaits the receipt, not only the submission  *)
(* owner   whose branch the step is in: that of the scripts' test          *)
(*         compare(await x.owner(), config.Timelock), or "any"             *)
(***************************************************************************)
EXTENDS Naturals, Sequences

StepOf(op, what, nonce, waits) ==
  [op |-> op, what |-> what, nonce |-> nonce, waits |-> waits, owner |-> "any", of |-> what[2]]

\* Names are looked up in the configuration; the script throws when one is missing.
Lookup(x) == <<StepOf("lookup", <<"lookup", x>>, "auto", FALSE)>>
\* A call on a contract that no signer is connected to: it always throws.
Unsigned(call, x) == <<StepOf("throw", <<call, x>>, "auto", FALSE)>>
\* nonce = await deployer.getTransactionCount()
Count == <<StepOf("count", <<"count", "all">>, "auto", FALSE)>>
\* The counter starts from a number written in the script.
Fixed == <<StepOf("fixed", <<"fixed", "all">>, "auto", FALSE)>>

Send(call, x) == <<StepOf("send", <<call, x>>, "auto", FALSE)>>
SendWait(call, x) == <<StepOf("send", <<call, x>>, "auto", TRUE)>>
SendNext(call, x) == <<StepOf("send", <<call, x>>, "counter", FALSE)>>
SendNextWait(call, x) == <<StepOf("send", <<call, x>>, "counter", TRUE)>>

\* Mutant: the deployment is not waited for.
Deploy_Unawaited(contract, x) == Send(contract, x)
\* upgrades.deployProxy or factory.deploy, then .wait or .deployed(); the call is named after the
\* contract it creates.
Deploy(contract, x) == SendWait(contract, x)
\* upgrades.prepareUpgrade: deploys the new implementation unless the same code is there already.
Prepare(x) == <<StepOf("prepare", <<"prepareUpgrade", x>>, "auto", TRUE)>>

\* TimelockService.queueTransaction, its result pushed to the script's list
Queue(call, x) == <<StepOf("queue", <<call, x>>, "auto", TRUE)>>
QueueNext(call, x) == <<StepOf("queue", <<call, x>>, "counter", TRUE)>>
QueueSame(call, x) == <<StepOf("queue", <<call, x>>, "same", TRUE)>>

\* fileService.writeJson(title, list): the title holds the time of the run, or is always the same
WriteStamped == <<StepOf("write", <<"stamped", "all">>, "auto", FALSE)>>
WriteTitled == <<StepOf("write", <<"titled", "all">>, "auto", FALSE)>>
\* ConfigFileHelper: the address of what was deployed for x goes into the configuration file
Save(contract, x) == <<StepOf("save", <<contract, x>>, "auto", FALSE)>>

Branch(steps, owner, x) == [k \in DOMAIN steps |-> [steps[k] EXCEPT !.owner = owner, !.of = x]]
\* if (compare(await x.owner(), config.Timelock)) timelocked else direct
ByOwner(x, timelocked, direct) == Branch(timelocked, "timelock", x) \o Branch(direct, "deployer", x)

\* The scripts loop over an input list; two items stand for it, of which only the first has the
\* parts an input may lack.
ForEach(steps(_)) == steps("a") \o steps("b")
Optional(x, steps) == IF x = "a" THEN steps ELSE <<>>
=============================================================================
