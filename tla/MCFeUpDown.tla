----------------------------- MODULE MCFeUpDown -----------------------------
(* FeUpDown for TLC: it is finite as it stands.                             *)
EXTENDS FeUpDown
=============================================================================
