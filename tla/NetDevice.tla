----------------------------- MODULE NetDevice ------------------------------
(***************************************************************************)
(* What the network core may expect of a driver's ndo_open and ndo_stop,   *)
(* and of the driver's own resets: the abstract specification that         *)
(* FeUpDown implements.  One operation at a time takes the device apart,   *)
(* puts it together, or both; only a device that is down is left halted,   *)
(* unless starting it has failed.  A device that is asked to stop while it *)
(* is halted is stuck for good, and with it the lock.                      *)
(***************************************************************************)
VARIABLES
    up,        \* the core takes the device for running
    busy,      \* an operation holds the lock
    phase,     \* halted, serving, or between the two
    stuck      \* the operation will never end

deviceVars == <<up, busy, phase, stuck>>

DeviceInit == ~up /\ ~busy /\ phase = "halted" /\ ~stuck

Begin ==
    /\ ~busy /\ busy'
    /\ up' \in BOOLEAN
    /\ UNCHANGED <<phase, stuck>>

Running == busy /\ ~stuck

TakeApart ==
    /\ Running /\ phase = "serving"
    /\ phase' = "half"
    /\ UNCHANGED <<up, busy, stuck>>

\* The operation ends here only if the device is to be down.
Halt ==
    /\ Running /\ phase = "half"
    /\ phase' = "halted"
    /\ up => busy'
    /\ UNCHANGED <<up, stuck>>

PutTogether ==
    /\ Running /\ phase = "halted" /\ up
    /\ phase' = "half"
    /\ UNCHANGED <<up, busy, stuck>>

Serve ==
    /\ Running /\ phase = "half" /\ up
    /\ phase' = "serving"
    /\ ~busy'
    /\ UNCHANGED <<up, stuck>>

\* Starting fails: the operation ends, or goes on to close the device.
Fail ==
    /\ Running /\ phase = "halted" /\ up
    /\ up' \in BOOLEAN
    /\ busy' => ~up'
    /\ UNCHANGED <<phase, stuck>>

GetStuck ==
    /\ Running /\ phase = "halted"
    /\ stuck'
    /\ UNCHANGED <<up, busy, phase>>

DeviceNext ==
    Begin \/ TakeApart \/ Halt \/ PutTogether \/ Serve \/ Fail \/ GetStuck

\* An operation ends, or is stuck.
DeviceSpec ==
    /\ DeviceInit /\ [][DeviceNext]_deviceVars
    /\ busy ~> (~busy \/ stuck)
=============================================================================
