------------------------------- MODULE MCNseFeed -------------------------------
(* The instance of NseFeed for TLC: two polls that overlap. *)
EXTENDS NseFeed

CONSTANTS a, b
=============================================================================
