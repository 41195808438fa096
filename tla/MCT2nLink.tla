----------------------------- MODULE MCT2nLink ------------------------------
(* T2nLink for TLC.                                                         *)
EXTENDS T2nLink

CONSTANTS e1, e2

MCEndpoints == {e1, e2}
MCReqEndpoints == {e2}
=============================================================================
