---------------------------- MODULE MCPositionBook ----------------------------
(* Instances of PositionBook for TLC. *)
EXTENDS PositionBook

CONSTANTS p1, p2, c1, c2, c3, m1, m2
=============================================================================
