-------------------------------- MODULE Pile --------------------------------
(***************************************************************************)
(* The pile machine of pile_LS.lua: which pile is being worked on, when it *)
(* is done, and its number in /root/last.txt.                              *)
(*                                                                         *)
(* Handlers of one event loop: the motor samples (Motor), the 1 s interval *)
(* that decides whether the pile is done, the chain of asynchronous file   *)
(* calls of save_last_pile_id, the HTTP requests, and the GPS, of which    *)
(* only what the interval reads is kept: whether the position is fixed,    *)
(* where the machine stands and where it measured the last pile.  The      *)
(* measurement itself is PileGps.  The process may die at any moment, by   *)
(* losing power or on the undefined name of line 571, and starts again     *)
(* from what the file holds.                                               *)
(*                                                                         *)
(* Abstracted: positions are members of Sites, "more than 1 m away" is     *)
(* another site; the contents of the pile reports.                         *)
(***************************************************************************)
EXTENDS Motor

CONSTANTS
    Sites,         \* places the machine can stand at
    NoSite,        \* the pile's coordinates before the first measurement, zero
    WORK_MIN,      \* 60 s a pile must have been worked on
    FILL_IDLE,     \* 20 * 50 samples without filling
    MOVE_MIN,      \* 40 samples of walking
    PILE_MAX,      \* bound: piles done
    HTTP_MAX       \* bound: HTTP requests that change state

ASSUME PileAssumption ==
    /\ NoSite \notin Sites
    /\ WORK_MIN \in Nat
    /\ {FILL_IDLE, MOVE_MIN} \subseteq 0..(DURATION_CAP - 1)
    /\ PILE_MAX \in Nat
    /\ HTTP_MAX \in Nat

VARIABLES
    status,      \* machine_context.status
    age,         \* seconds since machine_context.start_time, up to WORK_MIN
    moved,       \* machine_context.E_motor_move_times > 0
    pile_id,     \* machine_context.pile_id
    fix,         \* gps_contex.status == 4
    at,          \* where the machine stands: gps_contex.lat, lng
    pile,        \* where the last pile was measured: gps_contex.pile
    req,         \* gps_contex.pile_location_req > 0
    file,        \* pile id in /root/last.txt, 0 if it holds none
    save,        \* next call of save_last_pile_id's chain, or "none"
    https        \* HTTP requests so far

machine == <<status, age, moved, pile_id>>
gps == <<fix, at, pile, req>>
disk == <<file, save>>
pileVars == <<ctx, cur, event, status, age, moved, pile_id, fix, at, pile, req,
              file, save, https>>

Statuses == {"idle", "working"}
SaveSteps == {"none", "open", "write", "close"}

PileTypeOK ==
    /\ MotorTypeOK
    /\ status \in Statuses
    /\ age \in 0..WORK_MIN
    /\ moved \in BOOLEAN
    /\ pile_id \in 0..PILE_MAX
    /\ fix \in BOOLEAN
    /\ at \in Sites
    /\ pile \in Sites \cup {NoSite}
    /\ req \in BOOLEAN
    /\ file \in 0..PILE_MAX
    /\ save \in SaveSteps
    /\ https \in 0..HTTP_MAX

PileInit ==
    /\ MotorInit
    /\ status = "idle"
    /\ age = 0
    /\ moved = FALSE
    /\ pile_id = 0
    /\ fix = FALSE
    /\ at \in Sites
    /\ pile = NoSite
    /\ req = TRUE
    /\ file = 0
    /\ save = "none"
    /\ https = 0

(***************************************************************************)
(* Motor samples: state_change_handle.                                     *)
(***************************************************************************)
PileMessage == MessageArrives /\ UNCHANGED <<machine, gps, disk, https>>

\* Walking counts when it stops, after more than MOVE_MIN samples.
Walked(ch, c, v) == ch = 3 /\ Turns(ch, c, v) /\ c.state = 1 /\ Longer(c.duration) > MOVE_MIN

\* A reported period of the filling or ramming motor starts the pile.
StartsWork(ch, c, v) == ch # 3 /\ Reports(ch, c, v) /\ status # "working"

PileSample(ch, v) ==
    /\ Sample(ch, v)
    /\ moved' = (moved \/ Walked(ch, ctx[ch], v))
    /\ IF StartsWork(ch, ctx[ch], v)
       THEN status' = "working" /\ age' = 0 /\ req' = TRUE
       ELSE UNCHANGED <<status, age, req>>
    /\ UNCHANGED <<pile_id, fix, at, pile, disk, https>>

(***************************************************************************)
(* The 1 s interval.                                                       *)
(***************************************************************************)
Located == pile # NoSite
Far == at # pile

\* The filling motor has stood still for FILL_IDLE samples.
NotFilling == ctx[1].state = 0 /\ ctx[1].duration > FILL_IDLE

\* Walking alone does not end the pile, the filling must have stopped as well.
MutGone == fix /\ Located /\ Far /\ moved /\ NotFilling

Gone == fix /\ Located /\ Far /\ (moved \/ ctx[2].state = 0 \/ NotFilling)

Workable == status = "working" /\ age >= WORK_MIN

\* start_time stays, the clock goes on.
Older == IF age < WORK_MIN THEN age + 1 ELSE age

\* The next number is not saved.
MutWorkDone(older) ==
    /\ age' = older
    /\ status' = "idle"
    /\ pile_id' = pile_id + 1
    /\ ctx' = ResetContexts
    /\ UNCHANGED <<moved, file, save>>

\* report_pile_data, the next number, its save, and fresh motor contexts.
WorkDone(older) ==
    /\ age' = older
    /\ status' = "idle"
    /\ pile_id' = pile_id + 1
    /\ save' = "open"
    /\ ctx' = ResetContexts
    /\ UNCHANGED <<moved, file>>

\* The position is not fixed, the machine has moved and does not fill: line 571
\* calls pile_work_done, which does not exist, and the error ends the process.
Crashes == ~fix /\ moved /\ NotFilling

IntervalDone ==
    /\ cur = 0
    /\ Gone /\ Workable
    /\ pile_id < PILE_MAX
    /\ save = "none"               \* the save of a minute ago is through
    /\ WorkDone(Older)
    /\ event' = 0
    /\ UNCHANGED <<cur, gps, https>>

IntervalWait ==
    /\ cur = 0
    /\ ~(Gone /\ Workable) /\ ~Crashes
    /\ age' = Older
    /\ req' = (req \/ (fix /\ ~Located))
    /\ event' = 0
    /\ UNCHANGED <<ctx, cur, status, moved, pile_id, fix, at, pile, disk, https>>

(***************************************************************************)
(* save_last_pile_id: fs.open truncates, fs.write fills, fs.close.  Each   *)
(* call may fail, and its callback then ends the chain.                    *)
(***************************************************************************)
SaveFails == save' = "none" /\ UNCHANGED file

SaveOpen ==
    /\ save = "open"
    /\ \/ save' = "write" /\ file' = 0
       \/ SaveFails

\* The number saved is the pile that is done.
MutSaveWrite ==
    /\ save = "write"
    /\ \/ save' = "close" /\ file' = pile_id - 1
       \/ SaveFails

SaveWrite ==
    /\ save = "write"
    /\ \/ save' = "close" /\ file' = pile_id
       \/ SaveFails

SaveClose == save = "close" /\ save' = "none" /\ UNCHANGED file

PileSave ==
    /\ cur = 0
    /\ SaveOpen \/ SaveWrite \/ SaveClose
    /\ event' = 0
    /\ UNCHANGED <<ctx, cur, machine, gps, https>>

(***************************************************************************)
(* The GPS and the machine's driver, as far as the interval sees them.     *)
(***************************************************************************)
\* A position arrives: fixed or not, and the machine may have moved.
Position ==
    /\ cur = 0
    /\ fix' \in BOOLEAN
    /\ at' \in Sites
    /\ event' = 0
    /\ UNCHANGED <<ctx, cur, machine, pile, req, disk, https>>

\* pile_location_calculate: both antennas measured.
Measured ==
    /\ cur = 0
    /\ fix /\ req
    /\ pile' = at
    /\ req' = FALSE
    /\ event' = 0
    /\ UNCHANGED <<ctx, cur, machine, fix, at, disk, https>>

\* The receiver's timeout drops the request.
GpsTimeout ==
    /\ cur = 0
    /\ req' = FALSE
    /\ event' = 0
    /\ UNCHANGED <<ctx, cur, machine, fix, at, pile, disk, https>>

(***************************************************************************)
(* HTTP: /machine_ctx?report_pile_data reports the running pile and sets   *)
(* its start_time; /gps_ctx?pile_location_req sets the request.            *)
(***************************************************************************)
Http ==
    /\ cur = 0
    /\ https < HTTP_MAX
    /\ https' = https + 1
    /\ \/ age' = 0 /\ UNCHANGED req
       \/ req' \in BOOLEAN /\ UNCHANGED age
    /\ event' = 0
    /\ UNCHANGED <<ctx, cur, status, moved, pile_id, fix, at, pile, disk>>

(***************************************************************************)
(* The process dies and is started again: everything but the file is lost. *)
(***************************************************************************)
Restart ==
    /\ ctx' = [ch \in Channels |-> Stopped]
    /\ cur' = 0
    /\ event' = 0
    /\ status' = "idle"
    /\ age' = 0
    /\ moved' = FALSE
    /\ pile_id' = file
    /\ fix' = FALSE
    /\ pile' = NoSite
    /\ req' = TRUE
    /\ save' = "none"
    /\ UNCHANGED <<at, file, https>>

IntervalCrash == cur = 0 /\ Crashes /\ Restart

PowerLoss == Restart

PileNext ==
    \/ PileMessage
    \/ \E ch \in Channels, v \in Levels : PileSample(ch, v)
    \/ IntervalDone
    \/ IntervalWait
    \/ PileSave
    \/ Position
    \/ Measured
    \/ GpsTimeout
    \/ Http
    \/ IntervalCrash
    \/ PowerLoss

PileSpec == PileInit /\ [][PileNext]_pileVars
=============================================================================
