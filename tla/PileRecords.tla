---------------------------- MODULE PileRecords ----------------------------
(***************************************************************************)
(* Pile with the records it has sent as history: which number the last     *)
(* record bore, whether a save was cut off, and where the work began.      *)
(***************************************************************************)
EXTENDS Pile

VARIABLES
    last,       \* number of the latest pile record, -1 before the first
    broken,     \* a save failed or the process died inside one
    worksite    \* where the machine stood when the pile became "working"

recordVars == <<ctx, cur, event, status, age, moved, pile_id, fix, at, pile, req,
                file, save, https, last, broken, worksite>>

RecordsInit ==
    /\ PileInit
    /\ last = -1
    /\ broken = FALSE
    /\ worksite = NoSite

\* A handler that neither records a pile nor ends a save badly.
Quietly(A) == A /\ UNCHANGED <<last, broken, worksite>>

RecordedSample(ch, v) ==
    /\ PileSample(ch, v)
    /\ worksite' = IF StartsWork(ch, ctx[ch], v) THEN at ELSE worksite
    /\ UNCHANGED <<last, broken>>

RecordedDone ==
    /\ IntervalDone
    /\ last' = pile_id
    /\ worksite' = NoSite
    /\ UNCHANGED broken

RecordedSave ==
    /\ PileSave
    /\ broken' = (broken \/ (save # "close" /\ save' = "none"))
    /\ UNCHANGED <<last, worksite>>

\* Before the close the file is empty or old.
RecordedRestart ==
    /\ IntervalCrash \/ PowerLoss
    /\ broken' = (broken \/ save \in {"open", "write"})
    /\ worksite' = NoSite
    /\ UNCHANGED last

RecordsNext ==
    \/ Quietly(PileMessage)
    \/ \E ch \in Channels, v \in Levels : RecordedSample(ch, v)
    \/ RecordedDone
    \/ Quietly(IntervalWait)
    \/ RecordedSave
    \/ Quietly(Position)
    \/ Quietly(Measured)
    \/ Quietly(GpsTimeout)
    \/ Quietly(Http)
    \/ RecordedRestart

RecordsSpec == RecordsInit /\ [][RecordsNext]_recordVars

(***************************************************************************)
(* Fairness.  libuv runs due timers in every turn of its loop, so the      *)
(* interval comes up however many messages arrive; a message once begun is *)
(* handled to its end; a file call completes.                              *)
(***************************************************************************)
Interval == RecordedDone \/ Quietly(IntervalWait) \/ (RecordedRestart /\ Crashes /\ cur = 0)

FairRecordsSpec ==
    /\ RecordsSpec
    /\ SF_recordVars(Interval)
    /\ SF_recordVars(RecordedSave)
    /\ WF_recordVars(\E ch \in Channels, v \in Levels : RecordedSample(ch, v))

(***************************************************************************)
(* Properties.                                                             *)
(***************************************************************************)
TypeOK ==
    /\ PileTypeOK
    /\ last \in -1..PILE_MAX
    /\ broken \in BOOLEAN
    /\ worksite \in Sites \cup {NoSite}

\* Two piles never bear the same number: the number the next record will use is
\* above the last one recorded, through every restart, as long as no save failed
\* or was cut off between the truncating fs.open and the end of fs.write.
NumberIsFresh == ~broken => last < pile_id

\* What a restart would read is the number of the pile in hand, except while a
\* save is on its way.
FileIsCurrent == ~broken /\ save \in {"none", "close"} => file = pile_id

\* A machine whose position is fixed and stays more than 1 m from the measured
\* pile, after its walking motor has run, does not stay in the "working" state:
\* the interval ends the pile however the motors run and whatever else the loop
\* does, unless the clock of the pile is reset again and again over HTTP.
DepartureEndsPile ==
    <>[](fix /\ Located /\ Far /\ moved /\ pile_id < PILE_MAX) => []<>(status # "working")

(***************************************************************************)
(* What comments say.                                                      *)
(***************************************************************************)
\* Line 540: with a fixed position, a pile is done when the machine has moved
\* more than 1 m.
DoneAfterMoving == [][ last' # last => at # worksite ]_recordVars
=============================================================================
