------------------------------- MODULE MCFeRx -------------------------------
(* FeRx for TLC: four slots, one buffer to spare, two frames to tell apart.  *)
EXTENDS FeRx
CONSTANTS f1, f2, b1, b2, b3, b4, b5
MCFrames == {f1, f2}
MCBuffers == {b1, b2, b3, b4, b5}
=============================================================================
