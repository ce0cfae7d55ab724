--------------------------- MODULE OrderlyScript ---------------------------
(***************************************************************************)
(* What the author of a deployment script has in mind: the calls are sent  *)
(* in the order in which they are written, each at most once in a run, and *)
(* mined in the order in which they were sent.  Any of them may be left    *)
(* out, and a run starts over when all that the last one sent is mined.    *)
(* There are no nonces, receipts, errors or crashes here.                  *)
(***************************************************************************)
EXTENDS Naturals, Sequences

CONSTANT Scripts    \* sequences of calls

VARIABLES
  script,
  next,       \* the first call that is not yet sent or left out
  waiting,    \* sent and not mined, first in first out
  mined
orderVars == <<script, next, waiting, mined>>

OrderInit == script \in Scripts /\ next = 1 /\ waiting = <<>> /\ mined = <<>>

Send ==
  /\ next <= Len(script)
  /\ waiting' = Append(waiting, script[next])
  /\ next' = next + 1
  /\ UNCHANGED <<script, mined>>

LeaveOut ==
  /\ next < next' /\ next' <= Len(script) + 1
  /\ UNCHANGED <<script, waiting, mined>>

Mine ==
  /\ waiting # <<>>
  /\ mined' = Append(mined, Head(waiting))
  /\ waiting' = Tail(waiting)
  /\ UNCHANGED <<script, next>>

StartOver ==
  /\ waiting = <<>>
  /\ next' = 1
  /\ UNCHANGED <<script, waiting, mined>>

OrderNext == Send \/ LeaveOut \/ Mine \/ StartOver

OrderSpec == OrderInit /\ [][OrderNext]_orderVars
=============================================================================
