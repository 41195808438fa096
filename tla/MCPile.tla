------------------------------- MODULE MCPile -------------------------------
(* PileRecords for TLC.  Debouncing is MotorDebounce's: here every sample   *)
(* that counts switches at once, and a message has one sample a channel.    *)
EXTENDS PileRecords

CONSTANTS a, b

MCDebounce == <<1, 1, 1>>
MCReportMin == <<0, 1, -1>>

MCFillWalk == <<1, 3>>
MCRam == <<2>>
=============================================================================
