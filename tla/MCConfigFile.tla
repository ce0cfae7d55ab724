---- MODULE MCConfigFile ----
EXTENDS ConfigFile, TLC
CONSTANTS p1, p2
Symmetric == Permutations({p1, p2})
====
