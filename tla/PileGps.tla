------------------------------ MODULE PileGps ------------------------------
(***************************************************************************)
(* Where the pile stands: the measurement with two antennas on one         *)
(* receiver (the gps handlers of pile_LS.lua, ant_change of libs/          *)
(* mx_rtk.lua and the GPS part of the 1 s interval).                       *)
(*                                                                         *)
(* A request (pile_location_req = 1) averages SAMPLES positions on the     *)
(* antenna in use, switches to the other one, averages there too and takes *)
(* the middle.  Switching takes two GPIO writes 500 ms apart; gps_data.    *)
(* antenna is "none" in between, and gps_data is one table that the two    *)
(* modules share.                                                          *)
(*                                                                         *)
(* Abstracted: coordinates.  Of an antenna's sums the count is kept and    *)
(* whether the average has been taken since it was last cleared; of the    *)
(* result, whether both averages went into it.                             *)
(***************************************************************************)
EXTENDS Integers, Sequences

CONSTANTS
    SAMPLES,       \* 10 positions for an average
    ANT_WAIT,      \* 90 s without fix before the interval tries the other antenna
    PENDING_MAX,   \* bound: antenna switches waiting for their second write
    GPIO_FAILS,    \* whether opening a GPIO may fail
    FIX_WHILE_OFF  \* whether positions stay fixed while both antennas are off

ASSUME GpsAssumption ==
    /\ SAMPLES \in Nat \ {0}
    /\ ANT_WAIT \in Nat
    /\ PENDING_MAX \in Nat \ {0}
    /\ {GPIO_FAILS, FIX_WHILE_OFF} \subseteq BOOLEAN

Antennas == {"left", "right"}
Other(a) == IF a = "left" THEN "right" ELSE "left"

VARIABLES
    antenna,    \* gps_data.antenna
    high,       \* antennas whose GPIO is high
    pending,    \* ant_change's 500 ms timers, oldest first
    seen,       \* gps_contex.antenna
    sums,       \* gps_contex.left, gps_contex.right
    req,        \* gps_contex.pile_location_req
    fix,        \* gps_contex.status == 4
    since,      \* seconds since last_ant_chage_time, -1 before the first
    pile        \* gps_contex.pile: "zero", from "both" antennas, or "wrong"

VARIABLE disturbed \* history: the antenna was switched for another reason than
                   \* the measurement's since the request, or a GPIO failed

gpsVars == <<antenna, high, pending, seen, sums, req, fix, since, pile, disturbed>>

Pending == [to : Antennas, old : BOOLEAN]  \* old: a second has begun since
Sum == [cnt : 0..SAMPLES, avg : BOOLEAN]
Cleared == [cnt |-> 0, avg |-> FALSE]

GpsTypeOK ==
    /\ antenna \in Antennas \cup {"none"}
    /\ high \subseteq Antennas
    /\ pending \in Seq(Pending) /\ Len(pending) <= PENDING_MAX
    /\ seen \in Antennas \cup {"none"}
    /\ sums \in [Antennas -> Sum]
    /\ req \in 0..3
    /\ fix \in BOOLEAN
    /\ since \in -1..ANT_WAIT
    /\ pile \in {"zero", "both", "wrong"}
    /\ disturbed \in BOOLEAN

\* get_ant reads the GPIOs at start.
GpsInit ==
    /\ high \in SUBSET Antennas
    /\ antenna = IF high = {"left"} THEN "left"
                 ELSE IF high = {"right"} THEN "right" ELSE "none"
    /\ pending = <<>>
    /\ seen = "none"
    /\ sums = [a \in Antennas |-> Cleared]
    /\ req = 1
    /\ fix = FALSE
    /\ since = -1
    /\ pile = "zero"
    /\ disturbed = FALSE

(***************************************************************************)
(* ant_change(): towards the antenna that is not in use, "left" if none    *)
(* is.  The other's GPIO goes low at once, its own goes high by the timer. *)
(***************************************************************************)
\* The antenna in use is not looked at.
MutTarget == "left"

Target == IF antenna = "left" THEN "right" ELSE "left"

\* The label stays until the new antenna is on.
MutAntChange(opened) ==
    /\ opened \/ GPIO_FAILS
    /\ Len(pending) < PENDING_MAX
    /\ pending' = Append(pending, [to |-> Target, old |-> FALSE])
    /\ IF opened THEN high' = high \ {Other(Target)} ELSE UNCHANGED high
    /\ UNCHANGED antenna

\* opened: the GPIO's file could be opened.
AntChange(opened) ==
    /\ opened \/ GPIO_FAILS
    /\ Len(pending) < PENDING_MAX
    /\ pending' = Append(pending, [to |-> Target, old |-> FALSE])
    /\ IF opened
       THEN high' = high \ {Other(Target)} /\ antenna' = "none"
       ELSE UNCHANGED <<high, antenna>>

\* The 500 ms are over.
AntTimer(opened) ==
    /\ pending # <<>>
    /\ opened \/ GPIO_FAILS
    /\ pending' = Tail(pending)
    /\ IF opened
       THEN high' = high \cup {Head(pending).to} /\ antenna' = Head(pending).to
       ELSE UNCHANGED <<high, antenna>>
    /\ disturbed' = (disturbed \/ ~opened)
    /\ UNCHANGED <<seen, sums, req, fix, since, pile>>

(***************************************************************************)
(* rtk_gps:on("data").                                                     *)
(***************************************************************************)
\* The averaging starts again on an antenna that was not in use, and on both
\* for a new request.
Base ==
    IF req = 1 THEN [a \in Antennas |-> Cleared]
    ELSE IF seen # antenna THEN [sums EXCEPT ![antenna] = Cleared]
    ELSE sums

\* Every sample advances the stage.
MutStage == req + 1

Stage == IF req = 1 THEN 2 ELSE req

Summed ==
    [Base EXCEPT ![antenna] =
        [cnt |-> IF @.cnt < SAMPLES THEN @.cnt + 1 ELSE @.cnt,
         avg |-> @.avg \/ @.cnt + 1 >= SAMPLES]]

\* A new request starts undisturbed if the antennas are in order.
StillDisturbed == IF req = 1 THEN pending # <<>> \/ high # {antenna} ELSE disturbed

Measuring(fixed) == fixed /\ req > 0
Averaged == Summed[antenna].cnt >= SAMPLES

\* The position is one more sample.
DataCollects ==
    /\ ~Averaged
    /\ sums' = Summed
    /\ req' = Stage
    /\ disturbed' = StillDisturbed
    /\ UNCHANGED <<antenna, high, pending, since, pile>>

\* It completes the first antenna: on to the other.
DataSwitches(opened) ==
    /\ Averaged /\ Stage = 2
    /\ sums' = Summed
    /\ AntChange(opened)
    /\ since' = 0
    /\ req' = 3
    /\ disturbed' = (StillDisturbed \/ ~opened)
    /\ UNCHANGED pile

\* It completes the second: pile_location_calculate.
DataCompletes ==
    /\ Averaged /\ Stage = 3
    /\ sums' = Summed
    /\ pile' = IF \A a \in Antennas : Summed[a].avg THEN "both" ELSE "wrong"
    /\ req' = 0
    /\ UNCHANGED <<antenna, high, pending, since, disturbed>>

\* It came from no known antenna: switch again.
DataUnknown(opened) ==
    /\ antenna = "none"
    /\ AntChange(opened)
    /\ since' = 0
    /\ disturbed' = TRUE
    /\ UNCHANGED <<sums, req, pile>>

Data(fixed, opened) ==
    /\ antenna = "none" => FIX_WHILE_OFF \/ ~fixed \/ pending = <<>>
    /\ \/ /\ Measuring(fixed)
          /\ \/ /\ antenna # "none"
                /\ DataCollects \/ DataSwitches(opened) \/ DataCompletes
             \/ DataUnknown(opened)
       \/ /\ ~Measuring(fixed)
          /\ UNCHANGED <<antenna, high, pending, sums, req, since, pile, disturbed>>
    /\ fix' = fixed
    /\ seen' = antenna'

(***************************************************************************)
(* rtk_gps:on("timeout"), after 60 GNGLL sentences without a position, so  *)
(* never within 500 ms of the data handler's own switch.                   *)
(***************************************************************************)
NoData(opened) ==
    /\ pending = <<>>
    /\ AntChange(opened)
    /\ req' = 0
    /\ disturbed' = TRUE
    /\ UNCHANGED <<seen, sums, fix, since, pile>>

(***************************************************************************)
(* The 1 s interval.  A timer of 500 ms does not outlive a second one.     *)
(***************************************************************************)
Aged(s) == [i \in 1..Len(s) |-> [s[i] EXCEPT !.old = TRUE]]
Later == IF since \in 0..(ANT_WAIT - 1) THEN since + 1 ELSE since

IntervalRequest ==
    /\ req' = IF fix /\ pile = "zero" THEN 1 ELSE req
    /\ pending' = Aged(pending)
    /\ since' = Later
    /\ UNCHANGED <<antenna, high, disturbed>>

IntervalSwitch(opened) ==
    /\ ~fix /\ since = ANT_WAIT
    /\ AntChange(opened)
    /\ since' = 0
    /\ disturbed' = TRUE
    /\ UNCHANGED req

GpsInterval(opened) ==
    /\ \A i \in 1..Len(pending) : ~pending[i].old
    /\ \/ (fix \/ since < ANT_WAIT) /\ IntervalRequest
       \/ IntervalSwitch(opened)
    /\ UNCHANGED <<seen, sums, fix, pile>>

\* A pile becomes "working" (state_change_handle), or HTTP asks for it.
Request ==
    /\ req' = 1
    /\ UNCHANGED <<antenna, high, pending, seen, sums, fix, since, pile, disturbed>>

GpsNext ==
    \/ \E fixed, opened \in BOOLEAN : Data(fixed, opened)
    \/ \E opened \in BOOLEAN : AntTimer(opened)
    \/ \E opened \in BOOLEAN : NoData(opened)
    \/ \E opened \in BOOLEAN : GpsInterval(opened)
    \/ Request

GpsSpec == GpsInit /\ [][GpsNext]_gpsVars

(***************************************************************************)
(* Properties.                                                             *)
(***************************************************************************)
\* A measurement that nothing disturbs (no rescue switch, no second switch
\* inside the 500 ms, no GPIO error since the request) puts the pile in the
\* middle of two full averages, one of each antenna, whatever was left in the
\* sums by measurements that requests and timeouts cut off before.
UndisturbedIsBoth ==
    [][ req = 3 /\ req' = 0 /\ pile' = "wrong" => disturbed \/ disturbed' ]_gpsVars

\* The positions of such a measurement are averaged under the antenna that
\* received them: gps_data.antenna, which is set in software after the second
\* GPIO write, agrees with what the GPIOs say.
LabelIsTrue == req \in {2, 3} /\ antenna # "none" /\ ~disturbed => high = {antenna}
=============================================================================
