------------------------- MODULE ScriptRunnerProofs -------------------------
(***************************************************************************)
(* A well nonced script never leaves a transaction behind an unused nonce  *)
(* and never displaces one, the configuration file is never ahead of the   *)
(* chain, and the record of the calls a run has queued is never more than  *)
(* one behind: for every script, every number of runs and reverts.  Its    *)
(* calls are mined in the order in which they are written (OrderlyScript). *)
(***************************************************************************)
EXTENDS ScriptProperties, FiniteSetTheorems, TLAPS

What == STRING \X STRING
Calls == [at : DOMAIN code, run : 1 .. MaxRuns]
Txs == [call : Calls, ok : BOOLEAN]
Steps == [op : Ops, what : What, nonce : {"auto", "counter", "same"},
          waits : BOOLEAN, owner : STRING, of : STRING]

TypeInv ==
  /\ program \in Programs /\ admin \in Admins
  /\ run \in 1 .. MaxRuns
  /\ pc \in 1 .. Len(code) + 1
  /\ status \in {"running", "waiting", "failed", "done"}
  /\ status = "waiting" => pc \in DOMAIN code /\ Sends(step, admin) /\ step.waits
  /\ counter \in Nat /\ awaited \in Nat
  /\ chain \in Seq(Txs)
  /\ DOMAIN pool \in SUBSET Nat /\ pool \in [DOMAIN pool -> Calls]
  /\ record \in [1 .. MaxRuns -> SUBSET Calls]
  /\ list \in SUBSET Calls /\ saved \in SUBSET Calls
  /\ Proposed \in SUBSET Calls

\* The pending transactions fill the nonces up to h; a settled script has none, and a fresh counter is h.
Orderly(h) ==
  /\ Mined <= h /\ DOMAIN pool = Mined .. h - 1
  /\ status = "running" =>
       /\ FreshAt(code, admin, pc) => counter = h
       /\ SettledAt(code, admin, pc) => Mined = h
  /\ status = "waiting" =>
       /\ awaited = h - 1
       /\ FreshAt(code, admin, pc + 1) => counter = h
NonceInv == Disciplined[program][admin] => \E h \in Nat : Orderly(h)

----------------------------------------------------------------------------
(* How the order of a script's steps carries on from one to the next. *)

\* Only a transaction waited for settles what was not settled before it.
LEMMA SettledBack ==
  ASSUME NEW c, NEW a, NEW k \in Nat \ {0}, SettledAt(c, a, k + 1),
         ~Sends(c[k], a) \/ c[k].op = "prepare"
  PROVE  SettledAt(c, a, k)
<1> SUFFICES ASSUME NEW m \in 1 .. k - 1, Sends(c[m], a), ~c[m].waits \/ c[m].op = "prepare"
             PROVE  \E w \in m .. k - 1 : Sends(c[w], a) /\ c[w].waits /\ (c[w].op = "prepare" => w = m)
  BY DEF SettledAt
<1>1. m \in 1 .. (k + 1) - 1 /\ m # k
  OBVIOUS
<1>2. PICK w \in m .. (k + 1) - 1 : Sends(c[w], a) /\ c[w].waits /\ (c[w].op = "prepare" => w = m)
  BY <1>1 DEF SettledAt
<1>3. w # k
  BY <1>1, <1>2
<1>4. w \in m .. k - 1
  BY <1>3
<1> QED BY <1>2, <1>4

\* A script is not settled behind a transaction it does not wait for.
LEMMA SettledWaits ==
  ASSUME NEW c, NEW a, NEW k \in Nat \ {0}, SettledAt(c, a, k + 1), Sends(c[k], a)
  PROVE  c[k].waits
<1> SUFFICES ASSUME ~c[k].waits PROVE FALSE
  OBVIOUS
<1>1. k \in 1 .. (k + 1) - 1
  OBVIOUS
<1>2. PICK w \in k .. (k + 1) - 1 : c[w].waits
  BY <1>1 DEF SettledAt
<1>3. w = k
  OBVIOUS
<1> QED BY <1>2, <1>3

\* A counter is fresh after it was read in a settled script, or was fresh and kept pace.
LEMMA FreshBack ==
  ASSUME NEW c, NEW a, NEW k \in Nat \ {0}, FreshAt(c, a, k + 1)
  PROVE  \/ c[k].op = "count" /\ SettledAt(c, a, k)
         \/ FreshAt(c, a, k) /\ KeepsCounter(c[k], a)
<1>1. PICK j \in 1 .. (k + 1) - 1 : /\ c[j].op = "count" /\ SettledAt(c, a, j)
                                    /\ \A m \in j + 1 .. (k + 1) - 1 : KeepsCounter(c[m], a)
  BY DEF FreshAt
<1>2. CASE j = k
  BY <1>1, <1>2
<1>3. CASE j # k
  <2>1. j \in 1 .. k - 1 /\ k \in j + 1 .. (k + 1) - 1
    BY <1>3
  <2>2. \A m \in j + 1 .. k - 1 : m \in j + 1 .. (k + 1) - 1
    OBVIOUS
  <2> QED BY <1>1, <2>1, <2>2 DEF FreshAt
<1> QED BY <1>2, <1>3

\* Whoever the admin is, nothing is known of the counter before the first step.
LEMMA NeverFreshAtStart ==
  ASSUME NEW c, NEW a
  PROVE  ~FreshAt(c, a, 1)
BY DEF FreshAt

\* The steps of every script have the types of a step.
LEMMA CodeTyped ==
  ASSUME NEW p \in Programs
  PROVE  /\ Code[p] \in Seq(Steps)
         /\ Len(Code[p]) \in Nat /\ DOMAIN Code[p] = 1 .. Len(Code[p])
         /\ \A k \in DOMAIN Code[p] : Code[p][k] \in Steps
<1>1. Code[p] \in Seq(Steps)
  BY CodeAssumption DEF Steps, What
<1> QED BY <1>1

\* What the discipline of a script says.
LEMMA DisciplineMeans ==
  ASSUME NEW p \in Programs, NEW a \in Admins
  PROVE  Disciplined[p][a] <=> WellNonced(Code[p], a)
BY DEF Disciplined

----------------------------------------------------------------------------
(* Types. *)

\* A script starts with values of its types.
LEMMA TypeInit == Init => TypeInv
<1> SUFFICES ASSUME Init PROVE TypeInv
  OBVIOUS
<1>1. Len(code) \in Nat
  BY CodeTyped DEF Init, code
<1>2. 1 \in 1 .. MaxRuns
  BY CodeAssumption
<1>3. Proposed = {}
  BY DEF Init, Proposed
<1> QED BY <1>1, <1>2, <1>3 DEF Init, TypeInv

\* The step at hand makes a call of its type.
LEMMA ThisTyped ==
  ASSUME TypeInv, pc \in DOMAIN code
  PROVE  ThisCall \in Calls /\ ThisCall.at = pc /\ ThisCall.run = run
BY DEF TypeInv, ThisCall, Made, Calls

\* What a step leaves alone has its type after it; what a step appends, adds or puts in has it too.
LEMMA TypeStep == TypeInv /\ [Next]_vars => TypeInv'
<1> SUFFICES ASSUME TypeInv, [Next]_vars PROVE TypeInv'
  OBVIOUS
<1>0. program' = program /\ admin' = admin
  BY DEF Next, ScriptStep, DoLookup, DoCount, DoFixed, DoSend, SkipPrepare, Propose, GetReceipt, DoWrite,
         DoSave, DoThrow, Finish, Throw, Rerun, Mine, vars
<1>1. /\ Len(code) \in Nat /\ DOMAIN code = 1 .. Len(code)
      /\ \A k \in DOMAIN code : code[k] \in Steps
  BY CodeTyped DEF code, TypeInv
<1>2. code' = code /\ Calls' = Calls /\ Txs' = Txs
  BY <1>0 DEF code, Calls, Txs
<1>3. pc \in DOMAIN code => pc + 1 \in 1 .. Len(code) + 1
  BY <1>1
<1>4. pc \in DOMAIN code => ThisCall \in Calls
  BY ThisTyped
<1> USE DEF TypeInv
<1>5. run' \in 1 .. MaxRuns /\ program' \in Programs /\ admin' \in Admins
  <2>1. CASE Rerun
    BY <1>0, <2>1, CodeAssumption DEF Rerun
  <2>2. CASE ~Rerun
    BY <1>0, <2>2 DEF Next, ScriptStep, DoLookup, DoCount, DoFixed, DoSend, SkipPrepare, Propose, GetReceipt,
           DoWrite, DoSave, DoThrow, Finish, Throw, Mine, vars
  <2> QED BY <2>1, <2>2
<1>6. counter' \in Nat
  <2>1. Mined \in Nat
    BY DEF Mined
  <2>2. CounterAfter(step) \in Nat
    BY DEF CounterAfter
  <2>3. CASE DoSend
    BY <2>2, <2>3 DEF DoSend, Accept, Refuse
  <2>4. CASE ~DoSend
    BY <2>1, <2>2, <2>4 DEF Next, ScriptStep, DoLookup, DoCount, DoFixed, SkipPrepare, Propose,
           GetReceipt, DoWrite, DoSave, DoThrow, Finish, Throw, Rerun, Mine, vars
  <2> QED BY <2>3, <2>4
<1>7. chain' \in Seq(Txs)
  <2>1. CASE Mine
    BY <2>1 DEF Mine, Txs
  <2>2. CASE ~Mine
    BY <2>2 DEF Next, ScriptStep, DoLookup, DoCount, DoFixed, DoSend, SkipPrepare, Propose, GetReceipt, DoWrite,
           DoSave, DoThrow, Finish, Throw, Rerun, vars, node
  <2> QED BY <2>1, <2>2
<1>8. awaited' \in Nat /\ DOMAIN pool' \in SUBSET Nat /\ pool' \in [DOMAIN pool' -> Calls]
  <2>1. CASE DoSend
    <3>1. PICK n \in 0 .. Mined + Cardinality(DOMAIN pool) + counter : Accept(n) \/ Refuse(n)
      BY <2>1 DEF DoSend
    <3>2. pc \in DOMAIN code
      BY <2>1 DEF DoSend, Running
    <3>3. CASE Accept(n)
      <4>1. n \in Nat
        BY <3>3 DEF Accept, Mined
      <4>2. pool' = [m \in DOMAIN pool \cup {n} |-> IF m = n THEN ThisCall ELSE pool[m]]
        BY <3>3 DEF Accept
      <4>3. awaited' \in {n, awaited}
        BY <3>3 DEF Accept
      <4> QED BY <3>2, <4>1, <4>2, <4>3, <1>4
    <3>4. CASE Refuse(n)
      BY <3>4 DEF Refuse
    <3> QED BY <3>1, <3>3, <3>4
  <2>2. CASE Mine
    BY <2>2 DEF Mine
  <2>3. CASE ~DoSend /\ ~Mine
    BY <2>3 DEF Next, ScriptStep, DoLookup, DoCount, DoFixed, SkipPrepare, Propose, GetReceipt, DoWrite,
           DoSave, DoThrow, Finish, Throw, Rerun, vars, node
  <2> QED BY <2>1, <2>2, <2>3
<1>9. list' \in SUBSET Calls
  <2>1. pc \in DOMAIN code /\ PushIfQueue(step) => list' \in SUBSET Calls
    BY <1>4 DEF PushIfQueue
  <2>2. GetReceipt => pc \in DOMAIN code
    BY DEF GetReceipt
  <2> QED BY <2>1, <2>2 DEF Next, ScriptStep, DoLookup, DoCount, DoFixed, DoSend, Accept, Refuse, SkipPrepare, Propose,
           GetReceipt, DoWrite, DoSave, DoThrow, Finish, Throw, Rerun, Mine, vars, Running
<1>10. record' \in [1 .. MaxRuns -> SUBSET Calls]
  <2>1. CASE DoWrite
    BY <2>1 DEF DoWrite
  <2>2. CASE ~DoWrite
    BY <2>2 DEF Next, ScriptStep, DoLookup, DoCount, DoFixed, DoSend, SkipPrepare, Propose, GetReceipt,
           DoSave, DoThrow, Finish, Throw, Rerun, Mine, vars, disk
  <2> QED BY <2>1, <2>2
<1>11. saved' \in SUBSET Calls
  BY <1>4 DEF Next, ScriptStep, DoLookup, DoCount, DoFixed, DoSend, SkipPrepare, Propose, GetReceipt, DoWrite,
         DoSave, DoThrow, Finish, Throw, Rerun, Mine, vars, disk, Running
<1>12. Proposed' \in SUBSET Calls
  <2>1. CASE Propose
    <3>1. PICK n : proposals' = proposals \cup {<<n, ThisCall>>}
      BY <2>1 DEF Propose
    <3>2. ThisCall \in Calls
      BY <2>1, <1>4 DEF Propose, Running
    <3> QED BY <3>1, <3>2 DEF Proposed
  <2>2. CASE ~Propose
    <3>1. UNCHANGED proposals
      BY <2>2 DEF Next, ScriptStep, DoLookup, DoCount, DoFixed, DoSend, SkipPrepare, GetReceipt, DoWrite,
             DoSave, DoThrow, Finish, Throw, Rerun, Mine, vars
    <3> QED BY <3>1 DEF Proposed
  <2> QED BY <2>1, <2>2
<1>13. pc' \in 1 .. Len(code) + 1 /\ status' \in {"running", "waiting", "failed", "done"}
  <2>1. GetReceipt => pc \in DOMAIN code
    BY DEF GetReceipt
  <2>2. 1 \in 1 .. Len(code) + 1
    BY <1>1
  <2> QED BY <1>3, <2>1, <2>2 DEF Next, ScriptStep, DoLookup, DoCount, DoFixed, DoSend, Accept, Refuse, SkipPrepare,
           Propose, GetReceipt, DoWrite, DoSave, DoThrow, Finish, Throw, Rerun, Mine, vars, Running, Advance, Fail
<1>14. status' = "waiting" => pc' \in DOMAIN code /\ Sends(step', admin) /\ step'.waits
  <2> SUFFICES ASSUME status' = "waiting" PROVE pc' \in DOMAIN code /\ Sends(step', admin) /\ step'.waits
    OBVIOUS
  <2>1. CASE DoSend
    <3>1. PICK n \in 0 .. Mined + Cardinality(DOMAIN pool) + counter : Accept(n) \/ Refuse(n)
      BY <2>1 DEF DoSend
    <3>2. Accept(n) /\ step.waits /\ pc' = pc
      BY <3>1 DEF Accept, Refuse, Advance, Fail
    <3> QED BY <2>1, <3>2, <1>2 DEF DoSend, Running, step
  <2>2. CASE ~DoSend
    <3>1. UNCHANGED <<pc, status>>
      BY <2>2 DEF Next, ScriptStep, DoLookup, DoCount, DoFixed, SkipPrepare, Propose, GetReceipt, DoWrite,
             DoSave, DoThrow, Finish, Throw, Rerun, Mine, vars, Advance, Fail
    <3> QED BY <3>1, <1>2 DEF step, Sends
  <2> QED BY <2>1, <2>2
<1>15. Sends(step', admin) => Sends(step, admin)'
  BY <1>0, <1>2 DEF Sends, step
<1> QED
  BY <1>2, <1>5, <1>6, <1>7, <1>8, <1>9, <1>10, <1>11, <1>12, <1>13, <1>14, <1>15

\* Types, for every script, run and revert.
THEOREM ScriptTypeCorrect == Spec => []TypeInv
BY TypeInit, TypeStep, PTL DEF Spec

----------------------------------------------------------------------------
(* Nonces. *)

\* At the start nothing is pending.
LEMMA NonceInit == Init => NonceInv
<1> SUFFICES ASSUME Init PROVE Orderly(0)
  BY DEF NonceInv
<1>1. Mined = 0 /\ DOMAIN pool = Mined .. 0 - 1
  BY DEF Init, Mined
<1>2. ~FreshAt(code, admin, pc)
  BY NeverFreshAtStart DEF Init
<1> QED BY <1>1, <1>2 DEF Init, Orderly

\* What one step takes from the order before it: everything but the step's own doing.
LEMMA OrderlyAt ==
  ASSUME TypeInv, NEW h \in Nat, Orderly(h), pc \in DOMAIN code, status = "running"
  PROVE  /\ FreshAt(code, admin, pc + 1) => \/ step.op = "count" /\ Mined = h
                                            \/ counter = h /\ KeepsCounter(step, admin)
         /\ SettledAt(code, admin, pc + 1) =>
              IF Sends(step, admin) /\ step.op # "prepare" THEN step.waits ELSE Mined = h
<1>1. pc \in Nat \ {0}
  BY CodeTyped DEF TypeInv, code
<1>2. /\ FreshAt(code, admin, pc) => counter = h
      /\ SettledAt(code, admin, pc) => Mined = h
  BY DEF Orderly
<1>3. ASSUME FreshAt(code, admin, pc + 1)
      PROVE  \/ step.op = "count" /\ Mined = h
             \/ counter = h /\ KeepsCounter(step, admin)
  BY <1>1, <1>2, <1>3, FreshBack DEF step
<1>4. ASSUME SettledAt(code, admin, pc + 1), Sends(step, admin), step.op # "prepare" PROVE step.waits
  BY <1>1, <1>4, SettledWaits DEF step
<1>5. ASSUME SettledAt(code, admin, pc + 1), ~Sends(step, admin) \/ step.op = "prepare" PROVE Mined = h
  BY <1>1, <1>2, <1>5, SettledBack DEF step
<1> QED BY <1>3, <1>4, <1>5

\* The nonce a well nonced script gives to a transaction is the next one.
LEMMA NextNonce ==
  ASSUME TypeInv, Disciplined[program][admin], NEW h \in Nat, Orderly(h), NEW n \in Nat,
         pc \in DOMAIN code, status = "running", Sends(step, admin), NonceOf(step, n), n >= Mined
  PROVE  n = h
<1>1. Mined \in Nat
  BY DEF TypeInv, Mined
<1>2. CASE step.nonce = "auto"
  <2>1. n \notin Mined .. h - 1 /\ \A m \in Mined .. n - 1 : m \in Mined .. h - 1
    BY <1>2 DEF NonceOf, IsNextNonce, Orderly
  <2>2. ~(h \in Mined .. n - 1)
    BY <2>1
  <2>3. Mined <= h
    BY DEF Orderly
  <2> QED BY <1>1, <2>1, <2>2, <2>3
<1>3. CASE step.nonce # "auto"
  <2>1. WellNonced(code, admin)
    BY DisciplineMeans DEF TypeInv, code
  <2>2. FreshAt(code, admin, pc)
    BY <1>3, <2>1 DEF WellNonced, step
  <2> QED BY <1>3, <2>2 DEF Orderly, NonceOf
<1> QED BY <1>2, <1>3

\* Every step keeps the pending nonces without a gap and a fresh counter right behind them.
LEMMA NonceStep ==
  ASSUME Patient, TypeInv, NonceInv, [Next]_vars
  PROVE  NonceInv'
<1>0. TypeInv'
  BY TypeStep
<1>1. program' = program /\ admin' = admin
  BY DEF Next, ScriptStep, DoLookup, DoCount, DoFixed, DoSend, SkipPrepare, Propose, GetReceipt, DoWrite,
         DoSave, DoThrow, Finish, Throw, Rerun, Mine, vars
<1>2. code' = code
  BY <1>1 DEF code
<1> SUFFICES ASSUME Disciplined[program][admin]
             PROVE  \E k \in Nat : Orderly(k)'
  BY <1>1 DEF NonceInv, Disciplined
<1>3. PICK h \in Nat : Orderly(h)
  BY DEF NonceInv
<1>4. /\ Len(code) \in Nat /\ DOMAIN code = 1 .. Len(code) /\ Mined \in Nat
      /\ \A k \in DOMAIN code : code[k] \in Steps
      /\ counter \in Nat /\ awaited \in Nat
  BY CodeTyped DEF TypeInv, code, Mined
\* A step that only moves on.
<1>5. ASSUME pc \in DOMAIN code, status = "running", Advance, UNCHANGED <<counter, chain, pool>>,
             step.op # "count", Sends(step, admin) => step.op = "prepare"
      PROVE  Orderly(h)'
  <2>1. FreshAt(code, admin, pc + 1) => counter = h
    BY <1>5, <1>3, OrderlyAt
  <2>2. SettledAt(code, admin, pc + 1) => Mined = h
    BY <1>5, <1>3, OrderlyAt
  <2> QED BY <2>1, <2>2, <1>1, <1>2, <1>3, <1>5 DEF Orderly, Advance, Mined
<1>6. ASSUME status' \in {"failed", "done"}, UNCHANGED <<chain, pool>>
      PROVE  Orderly(h)'
  BY <1>3, <1>6 DEF Orderly, Mined
<1>10. CASE DoLookup
  <2>1. Sends(step, admin) => step.op = "prepare"
    BY <1>10 DEF DoLookup, Running, Sends
  <2> QED BY <1>10, <2>1, <1>5, <1>6 DEF DoLookup, Running, node, Fail
<1>11. CASE DoCount
  <2>1. ~KeepsCounter(step, admin) /\ ~Sends(step, admin)
    BY <1>11 DEF DoCount, Running, KeepsCounter, Sends
  <2>2. FreshAt(code, admin, pc + 1) => Mined = h
    BY <1>11, <2>1, <1>3, OrderlyAt DEF DoCount, Running
  <2>3. SettledAt(code, admin, pc + 1) => Mined = h
    BY <1>11, <2>1, <1>3, OrderlyAt DEF DoCount, Running
  <2> QED BY <1>11, <2>2, <2>3, <1>1, <1>2, <1>3 DEF DoCount, Advance, Orderly, Mined, node
<1>12. CASE DoFixed
  <2>1. ~KeepsCounter(step, admin) /\ ~Sends(step, admin) /\ step.op # "count"
    BY <1>12 DEF DoFixed, Running, KeepsCounter, Sends
  <2>2. ~FreshAt(code, admin, pc + 1)
    BY <1>12, <2>1, <1>3, OrderlyAt DEF DoFixed, Running
  <2>3. SettledAt(code, admin, pc + 1) => Mined = h
    BY <1>12, <2>1, <1>3, OrderlyAt DEF DoFixed, Running
  <2> QED BY <1>12, <2>2, <2>3, <1>1, <1>2, <1>3 DEF DoFixed, Advance, Orderly, Mined, node
<1>13. CASE DoSend
  <2>1. PICK n \in 0 .. Mined + Cardinality(DOMAIN pool) + counter : NonceOf(step, n) /\ (Accept(n) \/ Refuse(n))
    BY <1>13 DEF DoSend
  <2>2. /\ status = "running" /\ pc \in DOMAIN code /\ Sends(step, admin) /\ UNCHANGED chain
        /\ step.op # "count"
    BY <1>13 DEF DoSend, Running
  <2>3. CASE Refuse(n)
    BY <2>2, <2>3, <1>6 DEF Refuse, Fail
  <2>4. CASE Accept(n)
    <3>1. n \in Nat /\ n >= Mined
      BY <2>4, <1>4 DEF Accept
    <3>2. n = h
      BY <2>1, <2>2, <3>1, <1>3, NextNonce
    <3>3. DOMAIN pool' = Mined' .. (h + 1) - 1 /\ Mined' <= h + 1
      BY <2>2, <2>4, <3>2, <1>3, <1>4 DEF Accept, Orderly, Mined
    <3>4. FreshAt(code, admin, pc + 1) => counter' = h + 1
      <4>1. FreshAt(code, admin, pc + 1) => counter = h /\ KeepsCounter(step, admin)
        BY <2>2, <1>3, OrderlyAt
      <4> QED BY <2>2, <2>4, <4>1 DEF KeepsCounter, Accept, CounterAfter
    <3>5. CASE step.waits
      <4>1. UNCHANGED pc /\ status' = "waiting" /\ awaited' = (h + 1) - 1
        BY <2>4, <3>2, <3>5 DEF Accept
      <4>2. Orderly(h + 1)'
        BY <3>3, <3>4, <4>1, <1>1, <1>2 DEF Orderly
      <4> QED BY <4>2
    <3>6. CASE ~step.waits
      <4>1. pc' = pc + 1 /\ status' = "running"
        BY <2>4, <3>6 DEF Accept, Advance
      <4>2. SettledAt(code, admin, pc + 1) => step.waits
        BY <2>2, <3>6, <1>3, <1>4, SettledWaits DEF step
      <4>3. Orderly(h + 1)'
        BY <3>3, <3>4, <3>6, <4>1, <4>2, <1>1, <1>2 DEF Orderly
      <4> QED BY <4>3
    <3> QED BY <3>5, <3>6
  <2> QED BY <2>1, <2>3, <2>4
<1>14. CASE SkipPrepare
  BY <1>14, <1>5 DEF SkipPrepare, Running, node
<1>15. CASE Propose
  <2>1. ~Sends(step, admin) /\ step.op # "count"
    BY <1>15 DEF Propose, Running, Sends
  <2>2. FreshAt(code, admin, pc + 1) => counter' = h
    <3>1. FreshAt(code, admin, pc + 1) => counter = h /\ KeepsCounter(step, admin)
      BY <1>15, <2>1, <1>3, OrderlyAt DEF Propose, Running
    <3> QED BY <1>15, <2>1, <3>1 DEF KeepsCounter, Propose, CounterAfter
  <2>3. SettledAt(code, admin, pc + 1) => Mined = h
    BY <1>15, <2>1, <1>3, OrderlyAt DEF Propose, Running
  <2> QED BY <1>15, <2>2, <2>3, <1>1, <1>2, <1>3 DEF Propose, Advance, Orderly, Mined, node
<1>16. CASE GetReceipt
  <2>1. Mined = h
    BY <1>16, <1>3, <1>4 DEF GetReceipt, Orderly
  <2>2. FreshAt(code, admin, pc + 1) => counter = h
    BY <1>16, <1>3 DEF GetReceipt, Orderly
  <2>3. CASE chain[awaited + 1].ok
    BY <1>16, <2>1, <2>2, <2>3, <1>1, <1>2, <1>3 DEF GetReceipt, Advance, Orderly, Mined, node
  <2>4. CASE ~chain[awaited + 1].ok
    BY <1>16, <2>4, <1>6 DEF GetReceipt, Fail, node
  <2> QED BY <2>3, <2>4
<1>17. CASE DoWrite
  <2>1. ~Sends(step, admin)
    BY <1>17 DEF DoWrite, Running, Sends
  <2> QED BY <1>17, <2>1, <1>5 DEF DoWrite, Running, node
<1>18. CASE DoSave
  <2>1. ~Sends(step, admin)
    BY <1>18 DEF DoSave, Running, Sends
  <2> QED BY <1>18, <2>1, <1>5 DEF DoSave, Running, node
<1>19. CASE DoThrow
  BY <1>19, <1>6 DEF DoThrow, Fail, node
<1>20. CASE Finish
  BY <1>20, <1>6 DEF Finish, node
<1>21. CASE Throw
  BY <1>21, <1>6 DEF Throw, Fail, node
<1>22. CASE Rerun
  <2>1. Mined = h
    <3>1. Mined \notin Mined .. h - 1 /\ Mined <= h
      BY <1>22, <1>3 DEF Rerun, Orderly
    <3> QED BY <3>1, <1>4
  <2>2. ~FreshAt(code, admin, 1)
    BY NeverFreshAtStart
  <2> QED BY <1>22, <2>1, <2>2, <1>1, <1>2, <1>3 DEF Rerun, Orderly, Mined, node
<1>23. CASE Mine
  <2>1. Mined \in Mined .. h - 1
    BY <1>23, <1>3 DEF Mine, Orderly
  <2>2. Mined < h
    BY <2>1, <1>4
  <2>3. Mined' = Mined + 1
    BY <1>23 DEF Mine, Mined, TypeInv
  <2>4. DOMAIN pool' = Mined' .. h - 1 /\ Mined' <= h
    BY <1>23, <2>2, <2>3, <1>3, <1>4 DEF Mine, Orderly
  <2>5. UNCHANGED <<pc, status, counter, awaited>>
    BY <1>23 DEF Mine
  <2>6. status = "running" => ~SettledAt(code, admin, pc)
    BY <2>2, <1>3, <1>4 DEF Orderly
  <2> QED BY <2>4, <2>5, <2>6, <1>1, <1>2, <1>3 DEF Orderly
<1>24. CASE UNCHANGED vars
  BY <1>24, <1>1, <1>2, <1>3 DEF vars, Orderly, Mined
<1> QED
  BY <1>10, <1>11, <1>12, <1>13, <1>14, <1>15, <1>16, <1>17, <1>18, <1>19, <1>20, <1>21, <1>22, <1>23, <1>24,
     <1>3 DEF Next, ScriptStep

\* The nonces of a well nonced script are in order in every reachable state, when the operator
\* starts it only while nothing of his is pending.
THEOREM NoncesInOrder == ASSUME Patient PROVE Spec => []NonceInv
<1>1. Init => NonceInv
  BY NonceInit
<1>2. TypeInv /\ NonceInv /\ [Next]_vars => NonceInv'
  BY NonceStep
<1> QED BY <1>1, <1>2, ScriptTypeCorrect, PTL DEF Spec

\* None of its transactions waits behind a nonce that nobody uses.
THEOREM NothingStrandedHolds == ASSUME Patient PROVE Spec => []NothingStranded
<1>1. TypeInv /\ NonceInv => NothingStranded
  <2> SUFFICES ASSUME TypeInv, NonceInv, Disciplined[program][admin],
                      NEW n \in DOMAIN pool, Stranded(n)
               PROVE  FALSE
    BY DEF NothingStranded
  <2>1. PICK h \in Nat : Orderly(h)
    BY DEF NonceInv
  <2>2. Mined \in Nat
    BY DEF TypeInv, Mined
  <2> QED BY <2>1, <2>2 DEF Orderly, Stranded
<1> QED BY <1>1, NoncesInOrder, ScriptTypeCorrect, PTL

\* What one step does to the transactions of a well nonced script that the node has accepted.
LEMMA PoolStep ==
  ASSUME Disciplined[program][admin], TypeInv, NonceInv, [Next]_vars, NEW n \in DOMAIN pool
  PROVE  \/ n \in DOMAIN pool' /\ pool'[n] = pool[n]
         \/ n + 1 \in DOMAIN chain' /\ chain'[n + 1].call = pool[n]
<1>1. PICK h \in Nat : Orderly(h)
  BY DEF NonceInv
<1>2. Mined \in Nat /\ n \in Nat /\ Len(chain) = Mined /\ counter \in Nat
  BY DEF TypeInv, Mined
<1>3. CASE DoSend
  <2>1. PICK m \in 0 .. Mined + Cardinality(DOMAIN pool) + counter : NonceOf(step, m) /\ (Accept(m) \/ Refuse(m))
    BY <1>3 DEF DoSend
  <2>2. status = "running" /\ pc \in DOMAIN code /\ Sends(step, admin)
    BY <1>3 DEF DoSend, Running
  <2>3. CASE Refuse(m)
    BY <2>3 DEF Refuse
  <2>4. CASE Accept(m)
    <3>1. m \in Nat /\ m >= Mined
      BY <2>4, <1>2 DEF Accept
    <3>2. m = h
      BY <2>1, <2>2, <3>1, <1>1, NextNonce
    <3>3. n # m
      BY <3>2, <1>1 DEF Orderly
    <3> QED BY <2>4, <3>3 DEF Accept
  <2> QED BY <2>1, <2>3, <2>4
<1>4. CASE Mine
  <2>1. CASE n = Mined
    BY <1>4, <2>1, <1>2 DEF Mine, TypeInv
  <2>2. CASE n # Mined
    BY <1>4, <2>2 DEF Mine
  <2> QED BY <2>1, <2>2
<1>5. CASE ~DoSend /\ ~Mine
  <2>1. UNCHANGED pool
    BY <1>5 DEF Next, ScriptStep, DoLookup, DoCount, DoFixed, SkipPrepare, Propose, GetReceipt, DoWrite,
                DoSave, DoThrow, Finish, Throw, Rerun, vars, node
  <2> QED BY <2>1
<1> QED BY <1>3, <1>4, <1>5

\* No transaction of a well nonced script is displaced by a later one.
THEOREM NothingDisplacedHolds == ASSUME Patient PROVE Spec => NothingDisplaced
<1>1. ASSUME TypeInv, NonceInv, [Next]_vars
      PROVE  [Disciplined[program][admin] =>
                \A n \in DOMAIN pool : \/ n \in DOMAIN pool' /\ pool'[n] = pool[n]
                                       \/ n + 1 \in DOMAIN chain' /\ chain'[n + 1].call = pool[n]]_vars
  BY <1>1, PoolStep
<1> QED BY <1>1, NoncesInOrder, ScriptTypeCorrect, PTL DEF Spec, NothingDisplaced

----------------------------------------------------------------------------
(* The configuration file. *)

SavesInOrder == \A p \in Programs : DeploysBeforeSaving(Code[p])

\* Everything awaited so far has landed, and the transaction waited for is the step's own.
LandedInv ==
  /\ status \in {"running", "waiting"} =>
       \A j \in 1 .. pc - 1 : code[j].op = "send" /\ code[j].waits => Made(j, run) \in Landed
  /\ status = "waiting" =>
       \/ awaited < Mined /\ chain[awaited + 1].call = ThisCall
       \/ awaited >= Mined /\ awaited \in DOMAIN pool /\ pool[awaited] = ThisCall

\* What a step leaves of the chain and the script.
LEMMA StepKeeps ==
  ASSUME TypeInv, [Next]_vars
  PROVE  /\ program' = program /\ admin' = admin /\ code' = code
         /\ chain' = chain \/ \E t \in Txs : chain' = Append(chain, t)
         /\ Landed \subseteq Landed' /\ Executed \subseteq Executed' /\ Proposed \subseteq Proposed'
         /\ run' = run \/ Rerun
<1>1. program' = program /\ admin' = admin
  BY DEF Next, ScriptStep, DoLookup, DoCount, DoFixed, DoSend, SkipPrepare, Propose, GetReceipt, DoWrite,
         DoSave, DoThrow, Finish, Throw, Rerun, Mine, vars
<1>2. chain' = chain \/ \E t \in Txs : chain' = Append(chain, t)
  <2>1. CASE Mine
    <3>1. pool[Mined] \in Calls
      BY <2>1 DEF Mine, TypeInv
    <3> QED BY <2>1, <3>1 DEF Mine, Txs
  <2>2. CASE ~Mine
    BY <2>2 DEF Next, ScriptStep, DoLookup, DoCount, DoFixed, DoSend, SkipPrepare, Propose, GetReceipt, DoWrite,
           DoSave, DoThrow, Finish, Throw, Rerun, vars, node
  <2> QED BY <2>1, <2>2
<1>3. \A i \in DOMAIN chain : i \in DOMAIN chain' /\ chain'[i] = chain[i]
  BY <1>2 DEF TypeInv
<1>4. Landed \subseteq Landed'
  BY <1>3 DEF Landed
<1>5. Executed \subseteq Executed'
  BY <1>3 DEF Executed
<1>6. proposals \subseteq proposals'
  BY DEF Next, ScriptStep, DoLookup, DoCount, DoFixed, DoSend, SkipPrepare, Propose, GetReceipt, DoWrite,
         DoSave, DoThrow, Finish, Throw, Rerun, Mine, vars
<1>7. Proposed \subseteq Proposed'
  BY <1>6 DEF Proposed
<1>8. run' = run \/ Rerun
  BY DEF Next, ScriptStep, DoLookup, DoCount, DoFixed, DoSend, SkipPrepare, Propose, GetReceipt, DoWrite,
         DoSave, DoThrow, Finish, Throw, Mine, vars
<1> QED BY <1>1, <1>2, <1>4, <1>5, <1>7, <1>8 DEF code

\* The configuration file changes in a save step only, by what is saved there.
LEMMA SavedStep ==
  ASSUME [Next]_vars
  PROVE  \/ UNCHANGED saved
         \/ DoSave /\ saved' = saved \cup {ThisCall}
BY DEF Next, ScriptStep, DoLookup, DoCount, DoFixed, DoSend, SkipPrepare, Propose, GetReceipt, DoWrite,
       DoSave, DoThrow, Finish, Throw, Rerun, Mine, vars, disk

\* A script that runs on has just taken its step, or is where it was.
LEMMA MovesOn ==
  ASSUME TypeInv, [Next]_vars, status' \in {"running", "waiting"}
  PROVE  \/ pc' = pc /\ status \in {"running", "waiting"} /\ (status' = status \/ DoSend)
         \/ /\ pc' = pc + 1 /\ pc \in DOMAIN code /\ status \in {"running", "waiting"} /\ status' = "running"
            /\ \/ GetReceipt /\ chain[awaited + 1].ok /\ status = "waiting" /\ awaited < Mined
               \/ status = "running" /\ (DoSend => ~step.waits)
         \/ pc' = 1 /\ status' = "running" /\ Rerun
<1>1. CASE Advance /\ ~GetReceipt /\ ~DoSend
  BY <1>1 DEF Advance, Next, ScriptStep, DoLookup, DoCount, DoFixed, SkipPrepare, Propose, DoWrite, DoSave,
              DoThrow, Finish, Throw, Rerun, Mine, vars, Running, Fail
<1>2. CASE GetReceipt
  BY <1>2 DEF GetReceipt, Advance, Fail, TypeInv
<1>3. CASE DoSend
  <2>1. PICK n \in 0 .. Mined + Cardinality(DOMAIN pool) + counter : Accept(n) \/ Refuse(n)
    BY <1>3 DEF DoSend
  <2>2. status = "running" /\ pc \in DOMAIN code
    BY <1>3 DEF DoSend, Running
  <2>3. Accept(n)
    BY <2>1 DEF Refuse, Fail
  <2> QED BY <1>3, <2>2, <2>3 DEF Accept, Advance
<1>4. CASE ~Advance /\ ~GetReceipt /\ ~DoSend
  BY <1>4 DEF Advance, Next, ScriptStep, DoLookup, DoCount, DoFixed, SkipPrepare, Propose, DoWrite, DoSave,
              DoThrow, Finish, Throw, Rerun, Mine, vars, Running, Fail
<1> QED BY <1>1, <1>2, <1>3, <1>4

\* Every step keeps what the script has awaited on the chain.
LEMMA LandedStep ==
  ASSUME TypeInv, LandedInv, [Next]_vars
  PROVE  LandedInv'
<1>1. /\ program' = program /\ code' = code /\ Landed \subseteq Landed'
      /\ chain' = chain \/ \E t \in Txs : chain' = Append(chain, t)
      /\ run' = run \/ Rerun
  BY StepKeeps
<1>2. /\ DOMAIN code = 1 .. Len(code) /\ Len(code) \in Nat /\ pc \in Nat \ {0}
      /\ Mined \in Nat /\ awaited \in Nat /\ Mined = Len(chain)
  BY CodeTyped DEF TypeInv, code, Mined
<1>3. ASSUME status' \in {"running", "waiting"}
      PROVE  \A j \in 1 .. pc' - 1 : code[j].op = "send" /\ code[j].waits => Made(j, run') \in Landed'
  <2>1. CASE pc' = pc /\ status \in {"running", "waiting"} /\ run' = run
    BY <2>1, <1>1 DEF LandedInv
  <2>2. CASE pc' = 1
    BY <2>2
  <2>3. CASE pc' = pc + 1 /\ GetReceipt /\ chain[awaited + 1].ok /\ status = "waiting" /\ awaited < Mined /\ run' = run
    <3>1. awaited + 1 \in DOMAIN chain /\ chain[awaited + 1].call = ThisCall
      BY <2>3, <1>2 DEF LandedInv, TypeInv
    <3>2. Made(pc, run) \in Landed
      BY <2>3, <3>1 DEF Landed, ThisCall
    <3>3. \A j \in 1 .. pc' - 1 : j = pc \/ j \in 1 .. pc - 1
      BY <2>3, <1>2
    <3> QED BY <2>3, <3>2, <3>3, <1>1 DEF LandedInv
  <2>4. CASE pc' = pc + 1 /\ status = "running" /\ (DoSend => ~step.waits) /\ ~GetReceipt /\ run' = run
    <3>1. ~(step.op = "send" /\ step.waits)
      BY <2>4, <1>2 DEF Next, ScriptStep, DoLookup, DoCount, DoFixed, SkipPrepare, Propose, DoWrite, DoSave,
                  DoThrow, Finish, Throw, Rerun, Mine, vars, Running, Fail
    <3>2. \A j \in 1 .. pc' - 1 : j = pc \/ j \in 1 .. pc - 1
      BY <2>4, <1>2
    <3> QED BY <2>4, <3>1, <3>2, <1>1 DEF LandedInv, step
  <2>5. ~GetReceipt \/ status = "waiting"
    BY DEF GetReceipt
  <2>6. pc' = 1 \/ run' = run
    BY <1>1 DEF Rerun
  <2> QED BY <1>3, <2>1, <2>2, <2>3, <2>4, <2>5, <2>6, MovesOn
<1>4. ASSUME status' = "waiting"
      PROVE  \/ awaited' < Mined' /\ chain'[awaited' + 1].call = ThisCall'
             \/ awaited' >= Mined' /\ awaited' \in DOMAIN pool' /\ pool'[awaited'] = ThisCall'
  <2>1. CASE DoSend
    <3>1. PICK n \in 0 .. Mined + Cardinality(DOMAIN pool) + counter : Accept(n) \/ Refuse(n)
      BY <2>1 DEF DoSend
    <3>2. Accept(n) /\ UNCHANGED chain
      BY <2>1, <3>1, <1>4 DEF Refuse, Fail, DoSend
    <3>3. pc' = pc /\ awaited' = n
      BY <3>2, <1>4 DEF Accept, Advance
    <3>4. ThisCall' = ThisCall
      BY <2>1, <3>3 DEF DoSend, ThisCall, Made
    <3> QED BY <3>2, <3>3, <3>4 DEF Accept, Mined
  <2>2. CASE Mine
    <3>1. UNCHANGED <<pc, run, awaited, status>>
      BY <2>2 DEF Mine
    <3>2. ThisCall' = ThisCall
      BY <3>1 DEF ThisCall, Made
    <3>3. Mined' = Mined + 1 /\ chain'[Mined + 1].call = pool[Mined]
          /\ \A i \in 1 .. Mined : chain'[i] = chain[i]
      BY <2>2, <1>2 DEF Mine, Mined, TypeInv
    <3>4. CASE awaited < Mined
      <4>1. awaited + 1 \in 1 .. Mined
        BY <3>4, <1>2
      <4> QED BY <3>1, <3>2, <3>3, <3>4, <4>1, <1>2, <1>4 DEF LandedInv
    <3>5. CASE awaited = Mined
      BY <3>1, <3>2, <3>3, <3>5, <1>2, <1>4 DEF LandedInv
    <3>6. CASE awaited > Mined
      <4>1. awaited \in DOMAIN pool /\ pool[awaited] = ThisCall
        BY <3>1, <3>6, <1>2, <1>4 DEF LandedInv
      <4> QED BY <2>2, <3>1, <3>2, <3>3, <3>6, <4>1, <1>2 DEF Mine
    <3> QED BY <3>4, <3>5, <3>6, <1>2
  <2>3. CASE ~DoSend /\ ~Mine
    <3>1. UNCHANGED <<pc, run, awaited, status, pool, chain>>
      BY <2>3, <1>4 DEF Next, ScriptStep, DoLookup, DoCount, DoFixed, SkipPrepare, Propose, GetReceipt, DoWrite,
                        DoSave, DoThrow, Finish, Throw, Rerun, vars, Advance, Fail, node
    <3>2. ThisCall' = ThisCall /\ Mined' = Mined
      BY <3>1 DEF ThisCall, Made, Mined
    <3> QED BY <3>1, <3>2, <1>4 DEF LandedInv
  <2> QED BY <2>1, <2>2, <2>3
<1> QED BY <1>1, <1>3, <1>4 DEF LandedInv

\* What was saved before stays; what is saved now was awaited before by this run.
LEMMA DeployedStep ==
  ASSUME SavesInOrder, TypeInv, LandedInv, SavedIsDeployed, [Next]_vars
  PROVE  SavedIsDeployed'
<1>1. program' = program /\ code' = code /\ Landed \subseteq Landed'
  BY StepKeeps
<1>5. ASSUME NEW c \in saved', Name(c) \in Awaited[program]
      PROVE  \E d \in Landed' : d.run = c.run /\ Name(d) = Name(c)
  <2>1. CASE c \in saved
    BY <2>1, <1>1, <1>5 DEF SavedIsDeployed
  <2>2. CASE c \notin saved
    <3>1. DoSave /\ c = Made(pc, run)
      BY <2>2, <1>5, SavedStep DEF ThisCall
    <3>2. pc \in DOMAIN code /\ status = "running" /\ step.op = "save"
      BY <3>1 DEF DoSave, Running
    <3>3. c.at = pc /\ c.run = run /\ Name(c) = step.what
      BY <3>1 DEF Made, Name, step
    <3>4. program \in Programs
      BY DEF TypeInv
    <3>5. Awaited[program] = {code[k].what : k \in {j \in DOMAIN code : code[j].op = "send" /\ code[j].waits}}
      BY <3>4 DEF Awaited, code
    <3>6. PICK i \in DOMAIN code : code[i].op = "send" /\ code[i].waits /\ code[i].what = step.what
      BY <3>3, <3>5, <1>5
    <3>7. DeploysBeforeSaving(code)
      BY <3>4 DEF SavesInOrder, code
    <3>8. PICK j \in 1 .. pc - 1 : code[j].op = "send" /\ code[j].waits /\ code[j].what = step.what
      BY <3>2, <3>6, <3>7 DEF DeploysBeforeSaving, step
    <3>9. Made(j, run) \in Landed
      BY <3>2, <3>8 DEF LandedInv
    <3>10. Made(j, run).run = c.run /\ Name(Made(j, run)) = Name(c)
      BY <3>3, <3>8 DEF Made, Name
    <3> QED BY <3>9, <3>10, <1>1
  <2> QED BY <2>1, <2>2
<1>6. Awaited[program]' = Awaited[program] /\ \A c : Name(c)' = Name(c)
  BY <1>1 DEF Awaited, Name
<1> QED BY <1>5, <1>6 DEF SavedIsDeployed

\* The configuration file names no contract that its run has not got onto the chain, for every script
\* that saves what it has awaited, whatever reverts and wherever the process dies.
THEOREM SavedIsDeployedHolds == ASSUME SavesInOrder PROVE Spec => []SavedIsDeployed
<1>1. Init => LandedInv /\ SavedIsDeployed
  BY DEF Init, LandedInv, SavedIsDeployed
<1>2. TypeInv /\ LandedInv /\ [Next]_vars => LandedInv'
  BY LandedStep
<1>3. TypeInv /\ LandedInv /\ SavedIsDeployed /\ [Next]_vars => SavedIsDeployed'
  BY DeployedStep
<1> QED BY <1>1, <1>2, <1>3, ScriptTypeCorrect, PTL DEF Spec

\* What a call has come to: it is mined, pending or proposed, and when it was waited for it has succeeded
\* or is proposed.
OnItsWay == Executed \cup Waiting \cup Proposed
CallOps == {"send", "queue"}
Wired(k, r) == Made(k, r) \in OnItsWay /\ (code[k].waits => Made(k, r) \in Landed \cup Proposed)
\* So are all the calls behind the script, and all those before what is saved.
WiredInv ==
  /\ Disciplined[program][admin] /\ status \in {"running", "waiting"} =>
       \A j \in 1 .. pc - 1 : code[j].op \in CallOps => Wired(j, run)
  /\ SavedIsWired

\* Every step keeps what a well nonced script has wired.
LEMMA WiredKept ==
  ASSUME Disciplined[program][admin], TypeInv, NonceInv, [Next]_vars, NEW k, NEW r, Wired(k, r)
  PROVE  Made(k, r) \in OnItsWay' /\ (code[k].waits => Made(k, r) \in Landed' \cup Proposed')
<1>1. code' = code /\ Executed \subseteq Executed' /\ Landed \subseteq Landed' /\ Proposed \subseteq Proposed'
  BY StepKeeps
<1>2. Waiting \subseteq OnItsWay'
  <2>1. ASSUME NEW n \in DOMAIN pool PROVE pool[n] \in OnItsWay'
    <3>1. CASE n \in DOMAIN pool' /\ pool'[n] = pool[n]
      BY <3>1 DEF OnItsWay, Waiting
    <3>2. CASE n + 1 \in DOMAIN chain' /\ chain'[n + 1].call = pool[n]
      BY <3>2 DEF OnItsWay, Executed
    <3> QED BY <3>1, <3>2, PoolStep
  <2> QED BY <2>1 DEF Waiting
<1> QED BY <1>1, <1>2 DEF Wired, OnItsWay

\* A step that goes on to the next has wired its own call.
LEMMA WiredNow ==
  ASSUME TypeInv, LandedInv, [Next]_vars, pc \in DOMAIN code, step.op \in CallOps, pc' = pc + 1,
         \/ GetReceipt /\ chain[awaited + 1].ok /\ status = "waiting" /\ awaited < Mined
         \/ status = "running" /\ (DoSend => ~step.waits)
  PROVE  ThisCall \in OnItsWay' /\ (step.waits => ThisCall \in Landed' \cup Proposed')
<1>1. Landed \subseteq Landed' /\ Executed \subseteq Executed'
  BY StepKeeps
<1>2. pc \in Nat /\ Mined \in Nat /\ awaited \in Nat /\ Mined = Len(chain) /\ DOMAIN chain = 1 .. Mined
  BY CodeTyped DEF TypeInv, code, Mined
<1>4. CASE GetReceipt /\ chain[awaited + 1].ok /\ status = "waiting" /\ awaited < Mined
  <2>1. awaited + 1 \in DOMAIN chain /\ chain[awaited + 1].call = ThisCall
    BY <1>4, <1>2 DEF LandedInv
  <2>2. ThisCall \in Landed /\ ThisCall \in Executed
    BY <1>4, <2>1 DEF Landed, Executed
  <2> QED BY <2>2, <1>1 DEF OnItsWay
<1>5. CASE DoSend /\ ~step.waits
  <2>1. PICK n \in 0 .. Mined + Cardinality(DOMAIN pool) + counter : Accept(n) \/ Refuse(n)
    BY <1>5 DEF DoSend
  <2>2. Accept(n)
    BY <2>1, <1>2 DEF Refuse, Fail
  <2>3. n \in DOMAIN pool' /\ pool'[n] = ThisCall
    BY <2>2 DEF Accept
  <2> QED BY <2>3, <1>5 DEF OnItsWay, Waiting
<1>6. CASE Propose
  <2>1. PICK n : proposals' = proposals \cup {<<n, ThisCall>>}
    BY <1>6 DEF Propose
  <2>2. PICK q \in proposals' : q = <<n, ThisCall>>
    BY <2>1
  <2>3. q[2] = ThisCall
    BY <2>2
  <2>4. ThisCall \in Proposed'
    BY <2>2, <2>3 DEF Proposed
  <2> QED BY <2>4 DEF OnItsWay
<1>7. CASE ~DoSend /\ ~Propose /\ ~GetReceipt
  BY <1>7, <1>2 DEF Next, ScriptStep, DoLookup, DoCount, DoFixed, SkipPrepare, DoWrite, DoSave, CallOps,
              DoThrow, Finish, Throw, Rerun, Mine, vars, Running, Fail
<1>8. ~GetReceipt \/ status = "waiting"
  BY DEF GetReceipt
<1> QED BY <1>4, <1>5, <1>6, <1>7, <1>8

\* Every step keeps the calls behind the script, and those before what is saved, wired.
LEMMA WiredStep ==
  ASSUME TypeInv, NonceInv, LandedInv, WiredInv, [Next]_vars
  PROVE  WiredInv'
<1>1. program' = program /\ admin' = admin /\ code' = code /\ (run' = run \/ Rerun)
  BY StepKeeps
<1>2. DOMAIN code = 1 .. Len(code) /\ Len(code) \in Nat /\ pc \in Nat \ {0}
  BY CodeTyped DEF TypeInv, code
<1>3. ASSUME Disciplined[program][admin], status' \in {"running", "waiting"},
             NEW j \in 1 .. pc' - 1, code[j].op \in CallOps
      PROVE  Made(j, run') \in OnItsWay' /\ (code[j].waits => Made(j, run') \in Landed' \cup Proposed')
  <2>1. pc' # 1 /\ run' = run
    BY <1>1, <1>3 DEF Rerun
  <2>2. CASE j \in 1 .. pc - 1 /\ status \in {"running", "waiting"}
    <3>1. Wired(j, run)
      BY <2>2, <1>3 DEF WiredInv
    <3> QED BY <3>1, <2>1, <1>3, WiredKept
  <2>3. CASE j \notin 1 .. pc - 1 /\ pc' = pc + 1 /\ pc \in DOMAIN code
    <3>1. j = pc
      BY <2>3, <1>2
    <3>2. \/ GetReceipt /\ chain[awaited + 1].ok /\ status = "waiting" /\ awaited < Mined
          \/ status = "running" /\ (DoSend => ~step.waits)
      BY <2>1, <2>3, <1>2, <1>3, MovesOn
    <3>3. ThisCall \in OnItsWay' /\ (step.waits => ThisCall \in Landed' \cup Proposed')
      BY <3>1, <3>2, <2>3, <1>3, WiredNow DEF step
    <3> QED BY <3>1, <3>3, <2>1 DEF ThisCall, step
  <2> QED BY <2>1, <2>2, <2>3, <1>2, <1>3, MovesOn
<1>4. ASSUME Disciplined[program][admin], NEW c \in saved', NEW j \in 1 .. c.at - 1, code[j].op \in CallOps
      PROVE  Made(j, c.run) \in OnItsWay' /\ (code[j].waits => Made(j, c.run) \in Landed' \cup Proposed')
  <2>1. CASE c \in saved
    <3>1. Wired(j, c.run)
      BY <2>1, <1>4 DEF WiredInv, SavedIsWired, Wired, OnItsWay, CallOps
    <3> QED BY <3>1, <1>4, WiredKept
  <2>2. CASE c \notin saved
    <3>1. DoSave /\ c = ThisCall
      BY <2>2, <1>4, SavedStep
    <3>2. status = "running" /\ c.at = pc /\ c.run = run
      BY <3>1 DEF DoSave, Running, ThisCall, Made
    <3>3. Wired(j, run)
      BY <3>2, <1>4 DEF WiredInv
    <3> QED BY <3>2, <3>3, <1>4, WiredKept
  <2> QED BY <2>1, <2>2
<1>5. \A k, r : Made(k, r)' = Made(k, r)
  BY DEF Made
<1>6. SavedIsWired'
  BY <1>1, <1>4, <1>5 DEF SavedIsWired, OnItsWay, CallOps, Disciplined
<1>7. (Disciplined[program][admin] /\ status \in {"running", "waiting"} =>
         \A j \in 1 .. pc - 1 : code[j].op \in CallOps => Wired(j, run))'
  BY <1>1, <1>3 DEF Wired, Disciplined, Made, CallOps
<1> QED BY <1>6, <1>7 DEF WiredInv

\* What is in the configuration file has every call before it made by the run that saved it, and what was
\* awaited of them done, for every well nonced script, whatever reverts and wherever the process dies.
THEOREM SavedIsWiredHolds == ASSUME Patient PROVE Spec => []SavedIsWired
<1>1. Init => LandedInv /\ WiredInv
  BY DEF Init, LandedInv, WiredInv, SavedIsWired
<1>2. TypeInv /\ LandedInv /\ [Next]_vars => LandedInv'
  BY LandedStep
<1>3. TypeInv /\ NonceInv /\ LandedInv /\ WiredInv /\ [Next]_vars => WiredInv'
  BY WiredStep
<1>4. WiredInv => SavedIsWired
  BY DEF WiredInv
<1> QED BY <1>1, <1>2, <1>3, <1>4, NoncesInOrder, ScriptTypeCorrect, PTL DEF Spec

----------------------------------------------------------------------------
(* The record of what was queued. *)

\* What is on its way is a call of one of the runs.
LEMMA WayTyped ==
  ASSUME TypeInv
  PROVE  OnItsWay \subseteq Calls
<1>1. \A n \in DOMAIN pool : pool[n] \in Calls
  BY DEF TypeInv
<1>2. ASSUME NEW i \in DOMAIN chain PROVE chain[i].call \in Calls
  <2>1. chain[i] \in Txs
    BY DEF TypeInv
  <2> QED BY <2>1 DEF Txs
<1>3. Waiting \subseteq Calls
  BY <1>1 DEF Waiting
<1>4. Executed \subseteq Calls
  BY <1>2 DEF Executed
<1> QED BY <1>3, <1>4 DEF OnItsWay, TypeInv

\* The list holds what this run has queued, and a write leaves all of it in a file.
RecordInv ==
  status \in {"running", "waiting", "done"} =>
    /\ status = "done" => pc = Len(code) + 1
    /\ \A k \in 1 .. pc - 1 : code[k].op = "queue" =>
         /\ Made(k, run) \in list
         /\ (\E j \in k + 1 .. pc - 1 : code[j].op = "write") => Made(k, run) \in Recorded

\* Every step keeps what is queued in the list or in a record.
LEMMA RecordStep ==
  ASSUME TypeInv, RecordInv, [Next]_vars
  PROVE  RecordInv'
<1>1. code' = code /\ (run' = run \/ Rerun)
  BY StepKeeps
<1>2. /\ DOMAIN code = 1 .. Len(code) /\ Len(code) \in Nat /\ pc \in Nat \ {0}
      /\ \A k \in DOMAIN code : code[k] \in Steps
  BY CodeTyped DEF TypeInv, code
\* A step that neither queues nor writes.
<1>3. ASSUME UNCHANGED <<list, record>>, status \in {"running", "waiting"},
             \/ Advance /\ pc \in DOMAIN code /\ step.op \notin {"queue", "write"}
             \/ UNCHANGED <<pc, status>>
             \/ UNCHANGED pc /\ status' = "waiting"
             \/ status' = "failed",
             run' = run
      PROVE  RecordInv'
  <2>1. Recorded' = Recorded
    BY <1>3 DEF Recorded
  <2>2. CASE Advance /\ pc \in DOMAIN code /\ step.op \notin {"queue", "write"}
    <3>1. pc' = pc + 1 /\ status' = "running"
      BY <2>2 DEF Advance
    <3>2. ASSUME NEW k \in 1 .. pc' - 1, code[k].op = "queue"
          PROVE  /\ k \in 1 .. pc - 1
                 /\ \A j \in k + 1 .. pc' - 1 : code[j].op = "write" => j \in k + 1 .. pc - 1
      BY <2>2, <3>1, <3>2, <1>2 DEF step
    <3> QED BY <2>1, <3>1, <3>2, <1>1, <1>3 DEF RecordInv
  <2>3. CASE UNCHANGED <<pc, status>> \/ (UNCHANGED pc /\ status' = "waiting")
    BY <2>1, <2>3, <1>1, <1>3 DEF RecordInv
  <2>4. CASE status' = "failed"
    BY <2>4 DEF RecordInv
  <2> QED BY <2>2, <2>3, <2>4, <1>3
\* A step that queues.
<1>4. ASSUME Advance, pc \in DOMAIN code, PushIfQueue(step), UNCHANGED record, step.op # "write",
             status \in {"running", "waiting"}, run' = run
      PROVE  RecordInv'
  <2>1. Recorded' = Recorded /\ list \subseteq list' /\ (step.op = "queue" => Made(pc, run) \in list')
    BY <1>4 DEF Recorded, PushIfQueue, ThisCall
  <2>2. pc' = pc + 1 /\ status' = "running"
    BY <1>4 DEF Advance
  <2>3. ASSUME NEW k \in 1 .. pc' - 1, code[k].op = "queue"
        PROVE  Made(k, run) \in list'
    <3>1. CASE k = pc
      BY <2>1, <2>3, <3>1 DEF step
    <3>2. CASE k # pc
      <4>1. k \in 1 .. pc - 1
        BY <2>2, <3>2, <1>2
      <4> QED BY <2>1, <2>3, <4>1, <1>4 DEF RecordInv
    <3> QED BY <3>1, <3>2
  <2>4. ASSUME NEW k \in 1 .. pc' - 1, code[k].op = "queue",
               NEW j \in k + 1 .. pc' - 1, code[j].op = "write"
        PROVE  Made(k, run) \in Recorded'
    <3>1. j # pc
      BY <2>4, <1>4 DEF step
    <3>2. k \in 1 .. pc - 1 /\ j \in k + 1 .. pc - 1
      BY <2>2, <3>1, <1>2
    <3> QED BY <2>1, <2>4, <3>2, <1>4 DEF RecordInv
  <2> QED BY <2>2, <2>3, <2>4, <1>1, <1>4 DEF RecordInv, Made
<1>10. CASE DoLookup
  BY <1>10, <1>3 DEF DoLookup, Running, Fail, disk
<1>11. CASE DoCount
  BY <1>11, <1>3 DEF DoCount, Running, disk
<1>12. CASE DoFixed
  BY <1>12, <1>3 DEF DoFixed, Running, disk
<1>13. CASE DoSend
  <2>1. PICK n \in 0 .. Mined + Cardinality(DOMAIN pool) + counter : Accept(n) \/ Refuse(n)
    BY <1>13 DEF DoSend
  <2>2. status = "running" /\ pc \in DOMAIN code /\ step.op # "write" /\ UNCHANGED <<record, run>>
    BY <1>13 DEF DoSend, Running, disk
  <2>3. CASE Refuse(n)
    BY <2>2, <2>3, <1>3 DEF Refuse, Fail
  <2>4. CASE Accept(n) /\ step.waits
    BY <2>2, <2>4, <1>3 DEF Accept
  <2>5. CASE Accept(n) /\ ~step.waits
    BY <2>2, <2>5, <1>4 DEF Accept
  <2> QED BY <2>1, <2>3, <2>4, <2>5
<1>14. CASE SkipPrepare
  BY <1>14, <1>3 DEF SkipPrepare, Running, disk
<1>15. CASE Propose
  BY <1>15, <1>4 DEF Propose, Running, disk
<1>16. CASE GetReceipt
  <2>1. status = "waiting" /\ UNCHANGED record
    BY <1>16 DEF GetReceipt, disk
  <2>2. pc \in DOMAIN code /\ Sends(step, admin)
    BY <2>1 DEF TypeInv
  <2>3. step.op # "write"
    BY <2>2 DEF Sends
  <2>4. CASE chain[awaited + 1].ok
    BY <1>16, <2>1, <2>2, <2>3, <2>4, <1>4 DEF GetReceipt
  <2>5. CASE ~chain[awaited + 1].ok
    BY <1>16, <2>1, <2>5, <1>3 DEF GetReceipt, Fail
  <2> QED BY <2>4, <2>5
<1>17. CASE DoWrite
  <2>1. /\ status = "running" /\ pc \in DOMAIN code /\ step.op = "write" /\ UNCHANGED list
        /\ pc' = pc + 1 /\ status' = "running"
    BY <1>17 DEF DoWrite, Running, Advance
  <2>2. PICK title \in 1 .. MaxRuns : record' = [record EXCEPT ![title] = list]
    <3>1. 1 \in 1 .. MaxRuns /\ run \in 1 .. MaxRuns
      BY CodeAssumption DEF TypeInv
    <3> QED BY <1>17, <3>1 DEF DoWrite
  <2>3. list \subseteq Recorded'
    BY <2>2 DEF Recorded, TypeInv
  <2>4. ASSUME NEW k \in 1 .. pc' - 1, code[k].op = "queue"
        PROVE  Made(k, run) \in list
    <3>1. k \in 1 .. pc - 1
      BY <2>1, <2>4, <1>2 DEF step
    <3> QED BY <2>1, <2>4, <3>1 DEF RecordInv
  <2>5. run' = run
    BY <1>17 DEF DoWrite
  <2> QED BY <2>1, <2>3, <2>4, <2>5, <1>1 DEF RecordInv, Made
<1>18. CASE DoSave
  BY <1>18, <1>3 DEF DoSave, Running
<1>19. CASE DoThrow
  BY <1>19, <1>3 DEF DoThrow, Running, Fail, disk
<1>20. CASE Finish
  <2>1. Recorded' = Recorded
    BY <1>20 DEF Finish, Recorded, disk
  <2> QED BY <1>20, <2>1, <1>1 DEF Finish, RecordInv, disk
<1>21. CASE Throw
  BY <1>21, <1>3 DEF Throw, Fail, disk
<1>22. CASE Rerun
  BY <1>22 DEF Rerun, RecordInv
<1>23. CASE Mine \/ UNCHANGED vars
  <2>1. UNCHANGED <<pc, run, status, list, record>>
    BY <1>23 DEF Mine, vars, disk
  <2>2. Recorded' = Recorded
    BY <2>1 DEF Recorded
  <2> QED BY <2>1, <2>2, <1>1 DEF RecordInv
<1> QED
  BY <1>10, <1>11, <1>12, <1>13, <1>14, <1>15, <1>16, <1>17, <1>18, <1>19, <1>20, <1>21, <1>22, <1>23
     DEF Next, ScriptStep

\* A script that ends has everything it queued in one of its files.
THEOREM QueuedIsRecordedHolds == Spec => []QueuedIsRecorded
<1>1. Init => RecordInv
  BY DEF Init, RecordInv
<1>2. TypeInv /\ RecordInv /\ [Next]_vars => RecordInv'
  BY RecordStep
<1>3. TypeInv /\ RecordInv => QueuedIsRecorded
  <2> SUFFICES ASSUME TypeInv, RecordInv, status = "done", Records(code), NEW c \in Queued, c.run = run
               PROVE  c \in Recorded
    BY DEF QueuedIsRecorded
  <2>1. c \in Calls /\ code[c.at].op = "queue"
    BY WayTyped DEF Queued, OnItsWay, Landed, Executed
  <2>2. c.at \in DOMAIN code /\ c = Made(c.at, run)
    BY <2>1 DEF Calls, Made
  <2>3. DOMAIN code = 1 .. Len(code) /\ Len(code) \in Nat /\ pc = Len(code) + 1
    BY CodeTyped DEF TypeInv, RecordInv, code
  <2>4. PICK j \in c.at + 1 .. Len(code) : code[j].op = "write"
    BY <2>1, <2>2 DEF Records
  <2>5. c.at \in 1 .. pc - 1 /\ j \in c.at + 1 .. pc - 1
    BY <2>2, <2>3
  <2> QED BY <2>1, <2>2, <2>4, <2>5 DEF RecordInv
<1> QED BY <1>1, <1>2, <1>3, ScriptTypeCorrect, PTL DEF Spec

----------------------------------------------------------------------------
(* What each run leaves unrecorded. *)

\* What is on its way was made by a run so far, and of this run by a step so far.
ReachInv ==
  \A c \in OnItsWay :
    /\ c.run <= run
    /\ c.run = run /\ status = "running" => c.at < pc
    /\ c.run = run /\ status = "waiting" => c.at <= pc
\* Of what a run has queued only the call of one step may be missing in the files.
OneBehind(r) ==
  \E m \in Nat : \A c \in OnItsWay : c.run = r /\ code[c.at].op = "queue" => c \in Recorded \/ c.at = m
EachInv ==
  /\ \A r \in run + 1 .. MaxRuns : record[r] = {}
  /\ RecordsEach(code) =>
       /\ status \in {"running", "waiting"} => record[run] \subseteq list
       /\ \A r \in 1 .. MaxRuns : OneBehind(r)

\* A record is only written to the file of the first run or that of this one, with the list of this run.
LEMMA RecordMoves ==
  ASSUME TypeInv, [Next]_vars
  PROVE  \/ UNCHANGED <<record, run>> /\ list \subseteq list' /\ (status' \in {"running", "waiting"} => status \in {"running", "waiting"})
         \/ Rerun
         \/ DoWrite
<1>1. CASE DoSend
  <2>1. PICK n \in 0 .. Mined + Cardinality(DOMAIN pool) + counter : Accept(n) \/ Refuse(n)
    BY <1>1 DEF DoSend
  <2>2. status = "running" /\ UNCHANGED <<record, run>>
    BY <1>1 DEF DoSend, Running, disk
  <2>3. list \subseteq list'
    BY <2>1 DEF Accept, Refuse, PushIfQueue
  <2> QED BY <2>2, <2>3
<1>2. CASE GetReceipt
  BY <1>2 DEF GetReceipt, PushIfQueue, disk
<1>3. CASE Propose
  BY <1>3 DEF Propose, PushIfQueue, Running, disk
<1>4. CASE ~DoSend /\ ~GetReceipt /\ ~Propose /\ ~Rerun /\ ~DoWrite
  BY <1>4 DEF Next, ScriptStep, DoLookup, DoCount, DoFixed, SkipPrepare, DoSave, DoThrow, Finish, Throw, Mine,
              vars, disk, Running, Fail
<1> QED BY <1>1, <1>2, <1>3, <1>4

\* Only sending and proposing put something on its way: the call of the step.
LEMMA WayStep ==
  ASSUME TypeInv, [Next]_vars
  PROVE  \/ OnItsWay' \subseteq OnItsWay
         \/ /\ pc \in DOMAIN code /\ status = "running" /\ run' = run
            /\ OnItsWay' \subseteq OnItsWay \cup {ThisCall}
            /\ \/ status' = "running" /\ pc' = pc + 1
               \/ status' = "waiting" /\ pc' = pc
               \/ status' = "failed"
<1>1. Mined \in Nat /\ DOMAIN chain = 1 .. Mined
  BY DEF TypeInv, Mined
<1>2. CASE DoSend
  <2>1. PICK n \in 0 .. Mined + Cardinality(DOMAIN pool) + counter : Accept(n) \/ Refuse(n)
    BY <1>2 DEF DoSend
  <2>2. pc \in DOMAIN code /\ status = "running" /\ UNCHANGED <<chain, proposals, run>>
    BY <1>2 DEF DoSend, Running
  <2>3. Waiting' \subseteq Waiting \cup {ThisCall}
    <3>1. CASE Accept(n)
      <4>1. pool' = [m \in DOMAIN pool \cup {n} |-> IF m = n THEN ThisCall ELSE pool[m]]
        BY <3>1 DEF Accept
      <4> QED BY <4>1 DEF Waiting
    <3>2. CASE Refuse(n)
      BY <3>2 DEF Refuse, Waiting
    <3> QED BY <2>1, <3>1, <3>2
  <2>4. Executed' = Executed /\ Proposed' = Proposed
    BY <2>2 DEF Executed, Proposed
  <2>5. (status' = "running" /\ pc' = pc + 1) \/ (status' = "waiting" /\ pc' = pc) \/ status' = "failed"
    BY <2>1 DEF Accept, Refuse, Advance, Fail
  <2> QED BY <2>2, <2>3, <2>4, <2>5 DEF OnItsWay
<1>3. CASE Propose
  <2>1. PICK n : proposals' = proposals \cup {<<n, ThisCall>>}
    BY <1>3 DEF Propose
  <2>2. /\ pc \in DOMAIN code /\ status = "running" /\ UNCHANGED <<chain, pool, run>>
        /\ status' = "running" /\ pc' = pc + 1
    BY <1>3 DEF Propose, Running, node, Advance
  <2>3. Proposed' \subseteq Proposed \cup {ThisCall}
    BY <2>1 DEF Proposed
  <2>4. Executed' = Executed /\ Waiting' = Waiting
    BY <2>2 DEF Executed, Waiting
  <2> QED BY <2>2, <2>3, <2>4 DEF OnItsWay
<1>4. CASE Mine
  <2>1. PICK ok \in BOOLEAN : chain' = Append(chain, [call |-> pool[Mined], ok |-> ok])
    BY <1>4 DEF Mine
  <2>2. Mined \in DOMAIN pool /\ pool' = [n \in DOMAIN pool \ {Mined} |-> pool[n]] /\ UNCHANGED proposals
    BY <1>4 DEF Mine
  <2>3. Waiting' \subseteq Waiting
    BY <2>2 DEF Waiting
  <2>4. Executed' \subseteq Executed \cup {pool[Mined]}
    <3>1. pool[Mined] \in Calls
      BY <2>2 DEF TypeInv
    <3>2. chain' \in Seq(Txs) /\ Len(chain') = Mined + 1 /\ chain'[Mined + 1].call = pool[Mined]
          /\ \A i \in 1 .. Mined : chain'[i] = chain[i]
      BY <2>1, <3>1, <1>1 DEF TypeInv, Txs, Mined
    <3>3. DOMAIN chain' = 1 .. Mined + 1
      BY <3>2, <1>1
    <3>4. \A i \in DOMAIN chain' : chain'[i].call \in Executed \cup {pool[Mined]}
      BY <3>2, <3>3, <1>1 DEF Executed
    <3> QED BY <3>4 DEF Executed
  <2>5. pool[Mined] \in Waiting /\ Proposed' = Proposed
    BY <2>2 DEF Waiting, Proposed
  <2> QED BY <2>3, <2>4, <2>5 DEF OnItsWay
<1>5. CASE ~DoSend /\ ~Propose /\ ~Mine
  <2>1. UNCHANGED <<chain, pool, proposals>>
    BY <1>5 DEF Next, ScriptStep, DoLookup, DoCount, DoFixed, SkipPrepare, GetReceipt, DoWrite, DoSave, DoThrow,
                Finish, Throw, Rerun, vars, node
  <2> QED BY <2>1 DEF OnItsWay, Executed, Waiting, Proposed
<1> QED BY <1>2, <1>3, <1>4, <1>5

\* No step makes a call of a later run or of a later step of this run.
LEMMA ReachStep ==
  ASSUME TypeInv, ReachInv, [Next]_vars
  PROVE  ReachInv'
<1>1. DOMAIN code = 1 .. Len(code) /\ Len(code) \in Nat /\ pc \in Nat /\ run \in Nat
  BY CodeTyped DEF TypeInv, code
<1>2. \A c \in OnItsWay : c.at \in Nat /\ c.run \in Nat
  BY <1>1, WayTyped DEF Calls
<1>3. CASE Rerun
  <2>1. UNCHANGED <<chain, pool, proposals>> /\ run' = run + 1
    BY <1>3 DEF Rerun, node
  <2>2. OnItsWay' = OnItsWay
    BY <2>1 DEF OnItsWay, Executed, Waiting, Proposed
  <2> QED BY <2>1, <2>2, <1>1, <1>2 DEF ReachInv
<1>4. CASE ~Rerun /\ OnItsWay' \subseteq OnItsWay
  <2>1. run' = run
    BY <1>4, StepKeeps
  <2>2. ASSUME status' \in {"running", "waiting"}
        PROVE  \/ pc' = pc /\ (status' = status \/ status = "running")
               \/ pc' = pc + 1 /\ status \in {"running", "waiting"} /\ status' = "running"
    BY <1>4, <2>2, MovesOn DEF DoSend, Running
  <2>3. ASSUME NEW c \in OnItsWay, c.run = run, status' \in {"running", "waiting"}
        PROVE  /\ status' = "running" => c.at < pc'
               /\ status' = "waiting" => c.at <= pc'
    BY <2>2, <2>3, <1>1, <1>2 DEF ReachInv
  <2> QED BY <1>4, <2>1, <2>3 DEF ReachInv
<1>5. CASE /\ pc \in DOMAIN code /\ status = "running" /\ run' = run
           /\ OnItsWay' \subseteq OnItsWay \cup {ThisCall}
           /\ \/ status' = "running" /\ pc' = pc + 1
              \/ status' = "waiting" /\ pc' = pc
              \/ status' = "failed"
  <2>1. ThisCall.at = pc /\ ThisCall.run = run
    BY <1>5, ThisTyped
  <2>2. ASSUME NEW c \in OnItsWay'
        PROVE  c.run <= run /\ (c.run = run => c.at <= pc /\ (status' = "waiting" \/ status' = "failed" \/ c.at < pc'))
    <3>1. CASE c = ThisCall
      BY <1>1, <1>5, <2>1, <3>1
    <3>2. CASE c \in OnItsWay
      BY <1>1, <1>2, <1>5, <3>2 DEF ReachInv
    <3> QED BY <1>5, <3>1, <3>2
  <2> QED BY <1>5, <2>2 DEF ReachInv
<1> QED BY <1>3, <1>4, <1>5, WayStep

\* A script that writes to files of its own run loses nothing of the others' records.
LEMMA EachFiles ==
  ASSUME TypeInv, EachInv, [Next]_vars
  PROVE  /\ \A r \in run' + 1 .. MaxRuns : record'[r] = {}
         /\ RecordsEach(code) =>
              /\ status' \in {"running", "waiting"} => record'[run'] \subseteq list'
              /\ Recorded \subseteq Recorded'
<1>0. record \in [1 .. MaxRuns -> SUBSET Calls] /\ run \in 1 .. MaxRuns /\ 1 \in 1 .. MaxRuns
  BY CodeAssumption DEF TypeInv
<1>1. CASE UNCHANGED <<record, run>> /\ list \subseteq list' /\ (status' \in {"running", "waiting"} => status \in {"running", "waiting"})
  BY <1>1 DEF EachInv, Recorded
<1>2. CASE Rerun
  <2>1. run' = run + 1 /\ run + 1 \in 1 .. MaxRuns /\ record' = record
    BY <1>0, <1>2, CodeAssumption DEF Rerun, disk
  <2>2. record[run + 1] = {}
    BY <1>0, <2>1 DEF EachInv
  <2>3. \A r \in run' + 1 .. MaxRuns : r \in run + 1 .. MaxRuns
    BY <1>0, <2>1
  <2> QED BY <2>1, <2>2, <2>3 DEF EachInv, Recorded
<1>3. CASE DoWrite
  <2>1. /\ status = "running" /\ pc \in DOMAIN code /\ step.op = "write" /\ list' = list /\ run' = run
    BY <1>3 DEF DoWrite, Running
  <2> DEFINE title == IF step.what[1] = "stamped" THEN run ELSE 1
  <2>2. record' = [record EXCEPT ![title] = list]
    BY <1>3 DEF DoWrite
  <2>3. title \in 1 .. run
    BY <1>0
  <2>4. ASSUME RecordsEach(code)
        PROVE  record'[run'] \subseteq list' /\ Recorded \subseteq Recorded'
    <3>1. step.what[1] = "stamped"
      BY <2>1, <2>4 DEF RecordsEach, step
    <3>2. record' = [record EXCEPT ![run] = list] /\ record[run] \subseteq list
      BY <2>1, <2>2, <2>4, <3>1 DEF EachInv
    <3>3. DOMAIN record' = DOMAIN record /\ \A r \in DOMAIN record : record[r] \subseteq record'[r]
      BY <1>0, <3>2
    <3> QED BY <1>0, <2>1, <3>2, <3>3 DEF Recorded
  <2> HIDE DEF title
  <2> QED BY <1>0, <2>1, <2>2, <2>3, <2>4 DEF EachInv
<1> QED BY <1>1, <1>2, <1>3, RecordMoves

\* When a step queues a call, all the calls its run has queued before are recorded.
LEMMA RecordedBefore ==
  ASSUME TypeInv, RecordInv, ReachInv, RecordsEach(code), pc \in DOMAIN code, status = "running", step.op = "queue",
         NEW c \in OnItsWay, c.run = run, code[c.at].op = "queue"
  PROVE  c \in Recorded
<1>1. DOMAIN code = 1 .. Len(code) /\ Len(code) \in Nat
  BY CodeTyped DEF TypeInv, code
<1>2. c.at \in DOMAIN code /\ c.at < pc /\ c = Made(c.at, run)
  BY WayTyped DEF Calls, ReachInv, Made
<1>3. c.at + 1 \in DOMAIN code /\ code[c.at + 1].op = "write"
  BY <1>2 DEF RecordsEach
<1>4. c.at + 1 # pc
  BY <1>3 DEF step
<1>5. c.at \in 1 .. pc - 1 /\ c.at + 1 \in c.at + 1 .. pc - 1
  BY <1>1, <1>2, <1>4
<1> QED BY <1>2, <1>3, <1>5 DEF RecordInv

\* Every step keeps each run at most one call behind.
LEMMA EachStep ==
  ASSUME TypeInv, RecordInv, ReachInv, EachInv, [Next]_vars
  PROVE  EachInv'
<1>1. code' = code
  BY StepKeeps
<1>2. SUFFICES ASSUME RecordsEach(code), NEW r \in 1 .. MaxRuns
               PROVE  \E m \in Nat : \A c \in OnItsWay' : c.run = r /\ code[c.at].op = "queue" => c \in Recorded' \/ c.at = m
  BY <1>1, EachFiles DEF EachInv, OneBehind
<1>3. Recorded \subseteq Recorded'
  BY <1>2, EachFiles
<1>4. PICK m \in Nat : \A c \in OnItsWay : c.run = r /\ code[c.at].op = "queue" => c \in Recorded \/ c.at = m
  BY <1>2 DEF EachInv, OneBehind
<1>5. CASE OnItsWay' \subseteq OnItsWay
  BY <1>3, <1>4, <1>5
<1>6. CASE pc \in DOMAIN code /\ status = "running" /\ OnItsWay' \subseteq OnItsWay \cup {ThisCall}
  <2>1. ThisCall.at = pc /\ ThisCall.run = run /\ pc \in Nat
    BY <1>6, ThisTyped, CodeTyped DEF TypeInv, code
  <2>2. CASE r # run \/ step.op # "queue"
    <3>1. ~(ThisCall.run = r /\ code[ThisCall.at].op = "queue")
      BY <2>1, <2>2 DEF step
    <3> QED BY <1>3, <1>4, <1>6, <3>1
  <2>3. CASE r = run /\ step.op = "queue"
    <3>1. \A c \in OnItsWay : c.run = r /\ code[c.at].op = "queue" => c \in Recorded
      BY <1>2, <1>6, <2>3, RecordedBefore
    <3> QED BY <1>3, <1>6, <2>1, <3>1
  <2> QED BY <2>2, <2>3
<1> QED BY <1>5, <1>6, WayStep

\* A script that writes its record after every call it queues, in a file of its run, misses at most one
\* call of each run, that at which the run died, and keeps the records of the runs before.
THEOREM AtMostOneUnrecordedHolds == Spec => []AtMostOneUnrecorded
<1>1. Init => RecordInv /\ ReachInv /\ EachInv
  <2> SUFFICES ASSUME Init PROVE RecordInv /\ ReachInv /\ EachInv
    OBVIOUS
  <2>1. record = [r \in 1 .. MaxRuns |-> {}] /\ run = 1 /\ 1 \in 1 .. MaxRuns
    BY CodeAssumption DEF Init
  <2>2. OnItsWay = {}
    BY DEF Init, OnItsWay, Executed, Waiting, Proposed
  <2>3. 1 \in Nat
    OBVIOUS
  <2>4. \A r \in 1 .. MaxRuns : OneBehind(r)
    BY <2>2, <2>3 DEF OneBehind
  <2> QED BY <2>1, <2>2, <2>4 DEF EachInv, ReachInv, RecordInv, Init
<1>2. TypeInv /\ RecordInv /\ ReachInv /\ EachInv /\ [Next]_vars => RecordInv' /\ ReachInv' /\ EachInv'
  BY RecordStep, ReachStep, EachStep
<1>3. ASSUME TypeInv, EachInv PROVE AtMostOneUnrecorded
  <2> SUFFICES ASSUME RecordsEach(code), NEW r \in 1 .. run
               PROVE  Cardinality({c \in Queued \ Recorded : c.run = r}) <= 1
    BY DEF AtMostOneUnrecorded
  <2> DEFINE missing == {c \in Queued \ Recorded : c.run = r}
  <2>1. r \in 1 .. MaxRuns
    BY <1>3, CodeAssumption DEF TypeInv
  <2>2. PICK m \in Nat : \A c \in OnItsWay : c.run = r /\ code[c.at].op = "queue" => c \in Recorded \/ c.at = m
    BY <1>3, <2>1 DEF EachInv, OneBehind
  <2>3. Queued \subseteq OnItsWay /\ \A c \in Queued : code[c.at].op = "queue"
    BY DEF Queued, Landed, Executed, OnItsWay
  <2>4. \A c \in OnItsWay : c = Made(c.at, c.run)
    BY <1>3, WayTyped DEF Calls, Made
  <2>5. \A c \in missing : c = Made(m, r)
    BY <2>2, <2>3, <2>4
  <2>6. missing = {} \/ missing = {Made(m, r)}
    BY <2>5
  <2>7. Cardinality({}) = 0 /\ Cardinality({Made(m, r)}) = 1
    BY FS_EmptySet, FS_Singleton
  <2> QED BY <2>6, <2>7
<1> QED BY <1>1, <1>2, <1>3, ScriptTypeCorrect, PTL DEF Spec

----------------------------------------------------------------------------
(* The order of a script's calls. *)

\* A function on the first n positions is a sequence of length n.
LEMMA LineIsSeq ==
  ASSUME NEW S, NEW n \in Nat, NEW f \in [1 .. n -> S]
  PROVE  f \in Seq(S) /\ Len(f) = n
OBVIOUS
\* A sequence is the function of its positions.
LEMMA SeqIs ==
  ASSUME NEW S, NEW s \in Seq(S)
  PROVE  s = [i \in 1 .. Len(s) |-> s[i]]
OBVIOUS
\* Appending, position by position.
LEMMA AppendIs ==
  ASSUME NEW S, NEW s \in Seq(S), NEW w \in S
  PROVE  Append(s, w) = [i \in 1 .. Len(s) + 1 |-> IF i = Len(s) + 1 THEN w ELSE s[i]]
<1>1. Append(s, w) \in Seq(S) /\ Len(Append(s, w)) = Len(s) + 1
  OBVIOUS
<1>2. \A i \in 1 .. Len(s) + 1 : Append(s, w)[i] = IF i = Len(s) + 1 THEN w ELSE s[i]
  OBVIOUS
<1>3. Append(s, w) = [i \in 1 .. Len(s) + 1 |-> Append(s, w)[i]]
  BY <1>1, SeqIs
<1> QED BY <1>2, <1>3
\* Taking the head off, position by position.
LEMMA HeadTailAre ==
  ASSUME NEW S, NEW s \in Seq(S), Len(s) > 0
  PROVE  s # <<>> /\ Head(s) = s[1] /\ Tail(s) = [i \in 1 .. Len(s) - 1 |-> s[i + 1]]
<1>1. s # <<>> /\ Head(s) = s[1]
  OBVIOUS
<1>2. Tail(s) \in Seq(S) /\ Len(Tail(s)) = Len(s) - 1
  BY <1>1
<1>3. \A i \in 1 .. Len(s) - 1 : Tail(s)[i] = s[i + 1]
  BY <1>1
<1>4. Tail(s) = [i \in 1 .. Len(s) - 1 |-> Tail(s)[i]]
  BY <1>2, SeqIs
<1> QED BY <1>1, <1>3, <1>4

\* A call has the name of its step.
LEMMA NameTyped ==
  ASSUME TypeInv, NEW c \in Calls
  PROVE  Name(c) \in What
BY CodeTyped DEF TypeInv, code, Calls, Name, Steps

\* The pending transactions of a script with its nonces in order form a sequence.
LEMMA LineTyped ==
  ASSUME TypeInv, NEW h \in Nat, Orderly(h)
  PROVE  /\ InLine = [i \in 1 .. h - Mined |-> Name(pool[Mined + i - 1])]
         /\ InLine \in Seq(What) /\ Len(InLine) = h - Mined
<1>1. Mined \in Nat /\ Mined <= h /\ DOMAIN pool = Mined .. h - 1 /\ pool \in [DOMAIN pool -> Calls]
  BY DEF TypeInv, Mined, Orderly
<1>2. {n - Mined + 1 : n \in DOMAIN pool} = 1 .. h - Mined
  <2>1. ASSUME NEW i \in 1 .. h - Mined PROVE i \in {n - Mined + 1 : n \in DOMAIN pool}
    <3>1. Mined + i - 1 \in DOMAIN pool /\ i = (Mined + i - 1) - Mined + 1
      BY <1>1
    <3> QED BY <3>1
  <2>2. ASSUME NEW n \in DOMAIN pool PROVE n - Mined + 1 \in 1 .. h - Mined
    BY <1>1
  <2> QED BY <2>1, <2>2
<1>3. \A i \in 1 .. h - Mined : Name(pool[Mined + i - 1]) \in What
  <2>1. ASSUME NEW i \in 1 .. h - Mined PROVE pool[Mined + i - 1] \in Calls
    BY <1>1
  <2> QED BY <2>1, NameTyped
<1>4. h - Mined \in Nat
  BY <1>1
<1>5. InLine = [i \in 1 .. h - Mined |-> Name(pool[Mined + i - 1])]
  BY <1>2 DEF InLine
<1>6. InLine \in [1 .. h - Mined -> What]
  BY <1>3, <1>5
<1> QED BY <1>4, <1>5, <1>6, LineIsSeq

\* A transaction with the next nonce goes to the end of the line.
LEMMA LineGrows ==
  ASSUME TypeInv, NEW h \in Nat, Orderly(h), NEW c \in Calls, UNCHANGED chain, code' = code,
         pool' = [m \in DOMAIN pool \cup {h} |-> IF m = h THEN c ELSE pool[m]]
  PROVE  InLine' = Append(InLine, Name(c))
<1>0. Name(c) \in What /\ \A d : Name(d)' = Name(d)
  BY NameTyped DEF Name
<1>1. Mined \in Nat /\ Mined' = Mined /\ Mined <= h /\ DOMAIN pool = Mined .. h - 1
  BY DEF TypeInv, Mined, Orderly
<1>2. DOMAIN pool' = Mined .. h
  BY <1>1
<1>3. {n - Mined + 1 : n \in DOMAIN pool'} = 1 .. h - Mined + 1
  <2>1. ASSUME NEW i \in 1 .. h - Mined + 1 PROVE i \in {n - Mined + 1 : n \in DOMAIN pool'}
    <3>1. Mined + i - 1 \in DOMAIN pool' /\ i = (Mined + i - 1) - Mined + 1
      BY <1>1, <1>2
    <3> QED BY <3>1
  <2>2. ASSUME NEW n \in DOMAIN pool' PROVE n - Mined + 1 \in 1 .. h - Mined + 1
    BY <1>1, <1>2
  <2> QED BY <2>1, <2>2
<1>4. InLine' = [i \in 1 .. h - Mined + 1 |-> Name(pool'[Mined + i - 1])]
  BY <1>0, <1>1, <1>3 DEF InLine
<1>5. Append(InLine, Name(c)) = [i \in 1 .. h - Mined + 1 |-> IF i = h - Mined + 1 THEN Name(c) ELSE InLine[i]]
  BY <1>0, LineTyped, AppendIs
<1>6. ASSUME NEW i \in 1 .. h - Mined + 1
      PROVE  Name(pool'[Mined + i - 1]) = IF i = h - Mined + 1 THEN Name(c) ELSE InLine[i]
  <2>1. CASE i = h - Mined + 1
    BY <1>1, <2>1
  <2>2. CASE i # h - Mined + 1
    <3>1. i \in 1 .. h - Mined /\ Mined + i - 1 # h /\ Mined + i - 1 \in DOMAIN pool
      BY <1>1, <2>2
    <3> QED BY <3>1, <2>2, LineTyped
  <2> QED BY <2>1, <2>2
<1> QED BY <1>4, <1>5, <1>6

\* A block takes the head of the line.
LEMMA LineShrinks ==
  ASSUME TypeInv, NEW h \in Nat, Orderly(h), Mine, code' = code
  PROVE  /\ InLine # <<>>
         /\ InLine' = Tail(InLine)
         /\ MinedCalls' = Append(MinedCalls, Head(InLine))
<1>0. \A d : Name(d)' = Name(d)
  BY DEF Name
<1>1. Mined \in Nat /\ Mined <= h /\ DOMAIN pool = Mined .. h - 1 /\ Mined \in DOMAIN pool
  BY DEF TypeInv, Mined, Orderly, Mine
<1>2. Mined < h
  BY <1>1
<1>3. PICK ok \in BOOLEAN : chain' = Append(chain, [call |-> pool[Mined], ok |-> ok])
  BY DEF Mine
<1>4. Mined' = Mined + 1 /\ pool' = [n \in Mined + 1 .. h - 1 |-> pool[n]]
  <2>1. Mined' = Mined + 1
    BY <1>3 DEF TypeInv, Mined
  <2>2. DOMAIN pool \ {Mined} = Mined + 1 .. h - 1
    BY <1>1
  <2> QED BY <2>1, <2>2 DEF Mine
<1>5. {n - (Mined + 1) + 1 : n \in Mined + 1 .. h - 1} = 1 .. h - Mined - 1
  <2>1. ASSUME NEW i \in 1 .. h - Mined - 1 PROVE i \in {n - (Mined + 1) + 1 : n \in Mined + 1 .. h - 1}
    <3>1. Mined + i \in Mined + 1 .. h - 1 /\ i = (Mined + i) - (Mined + 1) + 1
      BY <1>1
    <3> QED BY <3>1
  <2>2. ASSUME NEW n \in Mined + 1 .. h - 1 PROVE n - (Mined + 1) + 1 \in 1 .. h - Mined - 1
    BY <1>1
  <2> QED BY <2>1, <2>2
<1>6. InLine' = [i \in 1 .. h - Mined - 1 |-> Name(pool'[Mined + 1 + i - 1])]
  BY <1>0, <1>4, <1>5 DEF InLine
<1>7. InLine \in Seq(What) /\ Len(InLine) = h - Mined /\ InLine = [i \in 1 .. h - Mined |-> Name(pool[Mined + i - 1])]
  BY LineTyped
<1>8. Tail(InLine) = [i \in 1 .. h - Mined - 1 |-> InLine[i + 1]]
  BY <1>1, <1>2, <1>7, HeadTailAre
<1>9. ASSUME NEW i \in 1 .. h - Mined - 1
      PROVE  Name(pool'[Mined + 1 + i - 1]) = InLine[i + 1]
  <2>1. Mined + 1 + i - 1 \in Mined + 1 .. h - 1 /\ i + 1 \in 1 .. h - Mined
    BY <1>1, <1>2
  <2>2. pool'[Mined + 1 + i - 1] = pool[Mined + 1 + i - 1]
    BY <2>1, <1>4
  <2>3. InLine[i + 1] = Name(pool[Mined + (i + 1) - 1])
    BY <2>1, <1>7
  <2>4. Mined + 1 + i - 1 = Mined + (i + 1) - 1
    BY <1>1
  <2> QED BY <2>2, <2>3, <2>4
<1>10. Head(InLine) = Name(pool[Mined]) /\ InLine # <<>>
  BY <1>1, <1>2, <1>7, HeadTailAre
<1>11. MinedCalls' = Append(MinedCalls, Name(pool[Mined]))
  <2>1. /\ Len(chain) = Mined /\ DOMAIN chain = 1 .. Mined
        /\ chain' = [i \in 1 .. Mined + 1 |-> IF i = Mined + 1 THEN [call |-> pool[Mined], ok |-> ok] ELSE chain[i]]
    BY <1>3 DEF TypeInv, Mined
  <2>2. MinedCalls = [i \in 1 .. Mined |-> Name(chain[i].call)]
    BY <2>1 DEF MinedCalls
  <2>3. MinedCalls' = [i \in 1 .. Mined + 1 |-> Name(chain'[i].call)]
    BY <2>1, <1>0 DEF MinedCalls
  <2>4. Len(MinedCalls) = Mined
    BY <2>2, <1>1
  <2>5. Append(MinedCalls, Name(pool[Mined])) = [i \in 1 .. Mined + 1 |-> IF i = Mined + 1 THEN Name(pool[Mined]) ELSE MinedCalls[i]]
    BY <2>2, <2>4, <1>1
  <2>6. \A i \in 1 .. Mined + 1 : Name(chain'[i].call) = IF i = Mined + 1 THEN Name(pool[Mined]) ELSE MinedCalls[i]
    BY <2>1, <2>2, <1>1
  <2> QED BY <2>3, <2>5, <2>6
<1> QED BY <1>6, <1>8, <1>9, <1>10, <1>11

\* The four things that can happen to the calls of a script, without the blanks for other scripts.
Sent ==
  /\ NextStep <= Len(code) /\ NextStep' = NextStep + 1
  /\ InLine' = Append(InLine, CallsOf(program)[NextStep])
  /\ UNCHANGED MinedCalls
LeftOut ==
  /\ NextStep < NextStep' /\ NextStep' <= Len(code) + 1
  /\ UNCHANGED <<InLine, MinedCalls>>
TakenUp ==
  /\ InLine # <<>>
  /\ MinedCalls' = Append(MinedCalls, Head(InLine)) /\ InLine' = Tail(InLine)
  /\ UNCHANGED NextStep
StartedOver ==
  /\ InLine = <<>> /\ NextStep' = 1
  /\ UNCHANGED <<InLine, MinedCalls>>

\* Every step of a well nonced script, the node and the operator is one of them, or none.
LEMMA CallsStep ==
  ASSUME Patient, Disciplined[program][admin], TypeInv, NonceInv, [Next]_vars
  PROVE  Sent \/ LeftOut \/ TakenUp \/ StartedOver \/ UNCHANGED <<NextStep, InLine, MinedCalls>>
<1>1. PICK h \in Nat : Orderly(h)
  BY DEF NonceInv
<1>2. program' = program /\ admin' = admin /\ code' = code
  BY StepKeeps
<1>3. /\ Len(code) \in Nat /\ DOMAIN code = 1 .. Len(code) /\ Mined \in Nat
      /\ \A k \in DOMAIN code : code[k] \in Steps
      /\ pc \in 1 .. Len(code) + 1
  BY CodeTyped DEF TypeInv, code, Mined
<1>4. ASSUME UNCHANGED <<chain, pool>>
      PROVE  UNCHANGED <<InLine, MinedCalls>>
  BY <1>2, <1>4 DEF InLine, MinedCalls, Mined, Name
\* The script goes on to its next step, or ends, and sends nothing.
<1>5. ASSUME pc \in DOMAIN code, status = "running", Advance, UNCHANGED <<chain, pool>>
      PROVE  LeftOut
  BY <1>2, <1>3, <1>4, <1>5 DEF Advance, NextStep, LeftOut
<1>6. ASSUME status \in {"running", "waiting"}, status' \in {"failed", "done"}, UNCHANGED <<chain, pool>>
      PROVE  LeftOut \/ UNCHANGED <<NextStep, InLine, MinedCalls>>
  <2>1. NextStep' = Len(code) + 1
    BY <1>2, <1>6 DEF NextStep
  <2>2. NextStep \in Nat /\ NextStep <= Len(code) + 1
    BY <1>3, <1>6 DEF NextStep, TypeInv
  <2> QED BY <2>1, <2>2, <1>3, <1>4, <1>6 DEF LeftOut
<1>10. CASE DoLookup
  BY <1>10, <1>5, <1>6 DEF DoLookup, Running, node, Fail
<1>11. CASE DoCount
  BY <1>11, <1>5 DEF DoCount, Running, node
<1>12. CASE DoFixed
  BY <1>12, <1>5 DEF DoFixed, Running, node
<1>13. CASE DoSend
  <2>1. PICK n \in 0 .. Mined + Cardinality(DOMAIN pool) + counter : NonceOf(step, n) /\ (Accept(n) \/ Refuse(n))
    BY <1>13 DEF DoSend
  <2>2. status = "running" /\ pc \in DOMAIN code /\ Sends(step, admin) /\ UNCHANGED chain
    BY <1>13 DEF DoSend, Running
  <2>3. CASE Refuse(n)
    BY <2>2, <2>3, <1>6 DEF Refuse, Fail
  <2>4. CASE Accept(n)
    <3>1. n \in Nat /\ n >= Mined
      BY <2>4, <1>3 DEF Accept
    <3>2. n = h
      BY <2>1, <2>2, <3>1, <1>1, NextNonce
    <3>3. ThisCall \in Calls /\ ThisCall.at = pc
      BY <2>2, ThisTyped
    <3>4. InLine' = Append(InLine, Name(ThisCall))
      BY <2>2, <2>4, <3>2, <3>3, <1>1, <1>2, LineGrows DEF Accept
    <3>5. CallsOf(program)[NextStep] = Name(ThisCall)
      BY <2>2, <3>3 DEF CallsOf, NextStep, Name, code
    <3>6. NextStep = pc /\ NextStep' = pc + 1
      BY <2>2, <2>4 DEF NextStep, Accept, Advance
    <3>7. UNCHANGED MinedCalls
      BY <2>2, <1>2 DEF MinedCalls, Name
    <3> QED BY <3>4, <3>5, <3>6, <3>7, <2>2, <1>3 DEF Sent
  <2> QED BY <2>1, <2>3, <2>4
<1>14. CASE SkipPrepare
  BY <1>14, <1>5 DEF SkipPrepare, Running, node
<1>15. CASE Propose
  BY <1>15, <1>5 DEF Propose, Running, node
\* The call was sent when the script began to wait.
<1>16. CASE GetReceipt
  <2>1. CASE chain[awaited + 1].ok
    BY <1>16, <2>1, <1>4 DEF GetReceipt, Advance, NextStep, node
  <2>2. CASE ~chain[awaited + 1].ok
    BY <1>16, <2>2, <1>6 DEF GetReceipt, Fail, node
  <2> QED BY <2>1, <2>2
<1>17. CASE DoWrite
  BY <1>17, <1>5 DEF DoWrite, Running, node
<1>18. CASE DoSave
  BY <1>18, <1>5 DEF DoSave, Running, node
<1>19. CASE DoThrow
  BY <1>19, <1>6 DEF DoThrow, Running, Fail, node
<1>20. CASE Finish
  BY <1>20, <1>6 DEF Finish, node
<1>21. CASE Throw
  BY <1>21, <1>6 DEF Throw, Fail, node
\* A patient operator.
<1>22. CASE Rerun
  <2>1. Mined = h
    <3>1. Mined \notin Mined .. h - 1 /\ Mined <= h
      BY <1>22, <1>1 DEF Rerun, Orderly
    <3> QED BY <3>1, <1>3
  <2>2. InLine = <<>>
    BY <2>1, <1>1, <1>3, LineTyped
  <2>3. NextStep' = 1
    BY <1>22 DEF Rerun, NextStep
  <2> QED BY <2>2, <2>3, <1>4, <1>22 DEF StartedOver, Rerun, node
<1>23. CASE Mine
  <2>1. UNCHANGED NextStep
    BY <1>23, <1>2 DEF Mine, NextStep
  <2> QED BY <2>1, <1>1, <1>2, <1>23, LineShrinks DEF TakenUp
<1>24. CASE UNCHANGED vars
  BY <1>24, <1>2, <1>4 DEF vars, NextStep
<1> QED
  BY <1>10, <1>11, <1>12, <1>13, <1>14, <1>15, <1>16, <1>17, <1>18, <1>19, <1>20, <1>21, <1>22, <1>23, <1>24
     DEF Next, ScriptStep

\* The calls of a well nonced script are sent and mined in the order in which they are written, for
\* every script, admin, number of runs and reverts, when the operator waits before he starts it again:
\* nonces, receipts, errors and crashes implement a first in first out line of calls.
THEOREM ScriptsKeepOrder == ASSUME Patient PROVE Spec => ImplementsOrder
<1>1. Init => Order!OrderInit
  <2> SUFFICES ASSUME Init PROVE Order!OrderInit
    OBVIOUS
  <2>1. CallsOf(program) \in {CallsOf(p) : p \in Programs}
    BY DEF Init
  <2>2. NextStep = 1
    BY DEF Init, NextStep
  <2>3. InLine = <<>>
    BY DEF Init, InLine
  <2>4. MinedCalls = <<>>
    BY DEF Init, MinedCalls
  <2> QED BY <2>1, <2>2, <2>3, <2>4 DEF Order!OrderInit, Mapped
<1>2. ASSUME TypeInv, NonceInv, [Next]_vars
      PROVE  [Order!OrderNext]_(Order!orderVars)
  <2>1. UNCHANGED <<program, admin>> /\ code' = code /\ Len(code) \in Nat
    BY <1>2, StepKeeps, CodeTyped DEF TypeInv, code
  <2>2. CallsOf(program)' = CallsOf(program) /\ Len(CallsOf(program)) = Len(code)
    BY <2>1, <1>2, CodeTyped DEF CallsOf, TypeInv, code
  <2>3. CASE ~Disciplined[program][admin]
    BY <2>1, <2>3 DEF Order!orderVars, Mapped
  <2>4. CASE Disciplined[program][admin]
    <3>1. Disciplined[program'][admin']
      BY <2>1, <2>4
    <3>2. ASSUME Sent PROVE Order!Send
      BY <3>1, <3>2, <2>2, <2>4 DEF Sent, Order!Send, Mapped
    <3>3. ASSUME LeftOut PROVE Order!LeaveOut
      BY <3>1, <3>3, <2>2, <2>4 DEF LeftOut, Order!LeaveOut, Mapped
    <3>4. ASSUME TakenUp PROVE Order!Mine
      BY <3>1, <3>4, <2>2, <2>4 DEF TakenUp, Order!Mine, Mapped
    <3>5. ASSUME StartedOver PROVE Order!StartOver
      BY <3>1, <3>5, <2>2, <2>4 DEF StartedOver, Order!StartOver, Mapped
    <3>6. ASSUME UNCHANGED <<NextStep, InLine, MinedCalls>> PROVE UNCHANGED Order!orderVars
      BY <3>1, <3>6, <2>2, <2>4 DEF Order!orderVars, Mapped
    <3> QED BY <3>2, <3>3, <3>4, <3>5, <3>6, <1>2, <2>4, CallsStep DEF Order!OrderNext
  <2> QED BY <2>3, <2>4
<1> QED BY <1>1, <1>2, NoncesInOrder, ScriptTypeCorrect, PTL DEF Spec, ImplementsOrder, Order!OrderSpec
=============================================================================
