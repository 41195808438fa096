----------------------------- MODULE MCPileGps -----------------------------
(* PileGps for TLC: two samples make an average.                            *)
EXTENDS PileGps
=============================================================================
