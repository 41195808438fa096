-------------------------- MODULE MCMotorDebounce --------------------------
(* MotorDebounce for TLC: the channel with an overload range and one without. *)
EXTENDS MotorDebounce

MCMessage == <<2, 3>>
MCDebounce == <<3, 3, 2>>
MCReportMin == <<1, 2, -1>>
=============================================================================
