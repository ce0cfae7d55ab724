---- MODULE MCFairLaunch ----
EXTENDS FairLaunch, TLC
CONSTANTS u1, u2
Symmetric == Permutations(Users)
\* As the constructor leaves it: no multiplier until setBonus.
NoBonus == [multiplier |-> 0, endBlock |-> 0]
ShortWait == [multiplier |-> 0, endBlock |-> 2]
====
