---------------------------- MODULE MCWalletLedger ----------------------------
(* Instances of WalletLedger for TLC. *)
EXTENDS WalletLedger, TLC

CONSTANTS u1, u2, d1, w1, p1, p2, r1, r2, r3

MCPnls == {-2, 1}

Symmetry == Permutations(Requests) \cup Permutations(Positions) \cup Permutations(Users)
=============================================================================
