------------------------------- MODULE MCAccounts -------------------------------
(* Instances of Accounts for TLC. *)
EXTENDS Accounts, TLC

CONSTANTS a, b, s1, s2

Symmetry == Permutations(Calls) \cup Permutations(Sessions)
=============================================================================
