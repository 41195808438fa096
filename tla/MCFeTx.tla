------------------------------- MODULE MCFeTx -------------------------------
(* FeTx for TLC: a ring of four slots, packets of one or two descriptors.   *)
EXTENDS FeTx

MCTxNums == {1, 2}
=============================================================================
