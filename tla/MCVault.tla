------------------------------ MODULE MCVault ------------------------------
(* Small vaults for TLC.  The numbers are scaled down so that rounding,     *)
(* limits and fees all bite within a few tokens.                            *)
EXTENDS VaultInvariant, TLC

\* Users are interchangeable.
UserSymmetry == Permutations(Users)
=============================================================================
