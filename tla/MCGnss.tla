------------------------------- MODULE MCGnss -------------------------------
(* Gnss for TLC: two positions to tell apart.                                *)
EXTENDS Gnss
CONSTANTS p1, p2
MCPositions == {p1, p2}
=============================================================================
