----------------------------- MODULE PileProofs -----------------------------
(***************************************************************************)
(* The theorems about PileRecords, for every set of sites, every threshold *)
(* and every order of the channels' samples.                               *)
(*                                                                         *)
(* NumberIsFresh alone is not inductive: a restart takes the number from   *)
(* the file.  With FileIsCurrent it is: outside a save the file holds the  *)
(* number in hand, and a restart inside one sets broken.                   *)
(***************************************************************************)
EXTENDS PileRecords, MotorProofs

RecordsInv ==
    /\ TypeOK
    /\ \A ch \in Channels : ChannelType(ch, ctx[ch])
    /\ NumberIsFresh
    /\ FileIsCurrent

\* The bounds of the model are numbers, and NoSite is no place.
LEMMA PileConstants ==
    /\ NoSite \notin Sites /\ WORK_MIN \in Nat /\ PILE_MAX \in Nat /\ HTTP_MAX \in Nat
    /\ 0 \in 0..PILE_MAX /\ 0 \in 0..HTTP_MAX /\ 0 \in 0..WORK_MIN
BY PileAssumption DEF PileAssumption

\* What a channel's type says of MotorTypeOK.
LEMMA MotorTypeFrom ==
    ASSUME ctx \in [Channels -> Context], \A ch \in Channels : ChannelType(ch, ctx[ch]),
           cur \in 0..Len(Message), event \in 0..6
    PROVE  MotorTypeOK
BY DEF MotorTypeOK, ChannelType

\* A context that has been reset is well typed.
LEMMA StoppedType ==
    /\ Stopped \in Context
    /\ \A ch \in Channels : ChannelType(ch, Stopped)
<1>1. Stopped \in Context
  BY Thresholds DEF Stopped, Context, States
<1> QED
  BY <1>1, Thresholds DEF ChannelType, Stopped

\* All contexts after a reset.
LEMMA ResetType ==
    ASSUME NEW c, c = [ch \in Channels |-> Stopped]
    PROVE  c \in [Channels -> Context] /\ \A ch \in Channels : ChannelType(ch, c[ch])
BY StoppedType

\* The program starts in a state of the invariant.
LEMMA RecordsInvInit == RecordsInit => RecordsInv
<1> SUFFICES ASSUME RecordsInit PROVE RecordsInv
  OBVIOUS
<1> USE DEF RecordsInit, PileInit, MotorInit
<1>1. ctx \in [Channels -> Context] /\ \A ch \in Channels : ChannelType(ch, ctx[ch])
  BY ResetType
<1>2. MotorTypeOK
  BY <1>1, Thresholds, MotorTypeFrom
<1>3. /\ age \in 0..WORK_MIN /\ {pile_id, file} \subseteq 0..PILE_MAX
      /\ https \in 0..HTTP_MAX /\ last \in -1..PILE_MAX
  BY PileConstants
<1>4. /\ status \in Statuses /\ save \in SaveSteps
      /\ moved \in BOOLEAN /\ fix \in BOOLEAN /\ req \in BOOLEAN /\ broken \in BOOLEAN
      /\ at \in Sites /\ pile \in Sites \cup {NoSite} /\ worksite \in Sites \cup {NoSite}
  BY DEF Statuses, SaveSteps
<1>5. TypeOK
  BY <1>2, <1>3, <1>4 DEF TypeOK, PileTypeOK
<1> QED
  BY <1>1, <1>5 DEF RecordsInv, NumberIsFresh, FileIsCurrent

(***************************************************************************)
(* One lemma per handler.                                                  *)
(***************************************************************************)
\* Samples change the motors and open a pile, never numbers or the file.
LEMMA SampleKeepsRecords ==
    ASSUME RecordsInv, NEW ch \in Channels, NEW v \in Levels, RecordedSample(ch, v)
    PROVE  RecordsInv'
<1> USE DEF RecordsInv, TypeOK, PileTypeOK
<1>1. /\ ctx' = [ctx EXCEPT ![ch] = Sampled(ch, ctx[ch], v)]
      /\ cur # 0 /\ cur' = IF cur = Len(Message) THEN 0 ELSE cur + 1
      /\ event' = IF Reports(ch, ctx[ch], v) THEN EventId(ch, ctx[ch]) ELSE 0
      /\ moved' \in BOOLEAN
      /\ status' \in Statuses /\ age' \in 0..WORK_MIN /\ req' \in BOOLEAN
      /\ UNCHANGED <<pile_id, fix, at, pile, file, save, https, last, broken>>
      /\ worksite' \in Sites \cup {NoSite}
  <2>1. moved' \in BOOLEAN
    BY DEF RecordedSample, PileSample, Walked, Turns, Switches, Counts
  <2>2. status' \in Statuses /\ age' \in 0..WORK_MIN /\ req' \in BOOLEAN
    BY PileConstants DEF RecordedSample, PileSample, Statuses
  <2> QED
    BY <2>1, <2>2 DEF RecordedSample, PileSample, Sample, disk
<1>2. ctx \in [Channels -> Context] /\ ChannelType(ch, ctx[ch]) /\ cur \in 0..Len(Message)
  BY DEF MotorTypeOK
<1>3. ChannelType(ch, ctx'[ch])
  BY <1>1, <1>2, SampledType
<1>4. ctx' \in [Channels -> Context] /\ \A k \in Channels : ChannelType(k, ctx'[k])
  BY <1>1, <1>2, <1>3 DEF ChannelType
<1>5. cur' \in 0..Len(Message) /\ event' \in 0..6
  BY <1>1, <1>2, Thresholds, EventType
<1>6. MotorTypeOK'
  BY <1>4, <1>5 DEF MotorTypeOK, ChannelType
<1> QED
  BY <1>1, <1>4, <1>6 DEF NumberIsFresh, FileIsCurrent

\* A pile that is done takes its number with it.
LEMMA DoneKeepsRecords == RecordsInv /\ RecordedDone => RecordsInv'
<1> SUFFICES ASSUME RecordsInv, RecordedDone PROVE RecordsInv'
  OBVIOUS
<1> USE DEF RecordsInv, TypeOK, PileTypeOK
<1>1. /\ ctx' = [ch \in Channels |-> Stopped] /\ cur' = cur /\ event' = 0
      /\ pile_id < PILE_MAX /\ pile_id' = pile_id + 1 /\ last' = pile_id
      /\ status' = "idle" /\ save' = "open" /\ worksite' = NoSite
      /\ UNCHANGED <<moved, file, fix, at, pile, req, https, broken>>
  BY DEF RecordedDone, IntervalDone, WorkDone, ResetContexts, gps
<1>2. age' \in 0..WORK_MIN
  BY PileConstants DEF RecordedDone, IntervalDone, WorkDone, Older
<1>3. ctx' \in [Channels -> Context] /\ \A ch \in Channels : ChannelType(ch, ctx'[ch])
  BY <1>1, ResetType
<1>4. MotorTypeOK'
  BY <1>1, <1>3 DEF MotorTypeOK, ChannelType
<1>5. pile_id' \in 0..PILE_MAX /\ last' \in -1..PILE_MAX
  BY <1>1, PileConstants
<1>6. NumberIsFresh' /\ FileIsCurrent'
  BY <1>1 DEF NumberIsFresh, FileIsCurrent
<1> QED
  BY <1>1, <1>2, <1>3, <1>4, <1>5, <1>6 DEF Statuses, SaveSteps

\* A save that is through has written the number in hand; one that is not is broken.
LEMMA SaveKeepsRecords == RecordsInv /\ RecordedSave => RecordsInv'
<1> SUFFICES ASSUME RecordsInv, RecordedSave PROVE RecordsInv'
  OBVIOUS
<1> USE DEF RecordsInv, TypeOK, PileTypeOK
<1>1. /\ UNCHANGED <<ctx, cur, status, age, moved, pile_id, fix, at, pile, req, https,
                     last, worksite>>
      /\ event' = 0
      /\ SaveOpen \/ SaveWrite \/ SaveClose
      /\ broken' = (broken \/ (save # "close" /\ save' = "none"))
  BY DEF RecordedSave, PileSave, machine, gps
<1>2. file' \in 0..PILE_MAX /\ save' \in SaveSteps
  BY <1>1, PileConstants DEF SaveOpen, SaveWrite, SaveClose, SaveFails, SaveSteps
<1>3. MotorTypeOK'
  BY <1>1 DEF MotorTypeOK
<1>4. FileIsCurrent'
  BY <1>1 DEF FileIsCurrent, SaveOpen, SaveWrite, SaveClose, SaveFails
<1> QED
  BY <1>1, <1>2, <1>3, <1>4 DEF NumberIsFresh

\* A restart that no save is under way at finds the number in hand.
LEMMA RestartKeepsRecords == RecordsInv /\ RecordedRestart => RecordsInv'
<1> SUFFICES ASSUME RecordsInv, RecordedRestart PROVE RecordsInv'
  OBVIOUS
<1> USE DEF RecordsInv, TypeOK, PileTypeOK
<1>1. /\ ctx' = [ch \in Channels |-> Stopped] /\ cur' = 0 /\ event' = 0
      /\ status' = "idle" /\ age' = 0 /\ moved' = FALSE /\ pile_id' = file
      /\ fix' = FALSE /\ pile' = NoSite /\ req' = TRUE /\ save' = "none"
      /\ UNCHANGED <<at, file, https, last>> /\ worksite' = NoSite
      /\ broken' = (broken \/ save \in {"open", "write"})
  BY DEF RecordedRestart, IntervalCrash, PowerLoss, Restart
<1>2. ctx' \in [Channels -> Context] /\ \A ch \in Channels : ChannelType(ch, ctx'[ch])
  BY <1>1, ResetType
<1>3. MotorTypeOK'
  BY <1>1, <1>2, Thresholds DEF MotorTypeOK, ChannelType
<1>4. ~broken' => save \in {"none", "close"} /\ file = pile_id /\ last < pile_id
  BY <1>1 DEF NumberIsFresh, FileIsCurrent, SaveSteps
<1>5. NumberIsFresh' /\ FileIsCurrent'
  BY <1>1, <1>4 DEF NumberIsFresh, FileIsCurrent
<1> QED
  BY <1>1, <1>2, <1>3, <1>5, PileConstants DEF Statuses, SaveSteps

\* The handlers that touch neither numbers, file, save nor motors but by starting a message.
LEMMA OthersKeepRecords ==
    ASSUME RecordsInv,
           Quietly(PileMessage) \/ Quietly(IntervalWait) \/ Quietly(Position)
             \/ Quietly(Measured) \/ Quietly(GpsTimeout) \/ Quietly(Http)
    PROVE  RecordsInv'
<1> USE DEF RecordsInv, TypeOK, PileTypeOK, Quietly
<1>1. UNCHANGED <<ctx, status, moved, pile_id, file, save, last, broken, worksite>>
  BY DEF PileMessage, MessageArrives, IntervalWait, Position, Measured, GpsTimeout, Http,
         machine, gps, disk
<1>2. cur' \in 0..Len(Message) /\ event' = 0
  BY Thresholds DEF PileMessage, MessageArrives, IntervalWait, Position, Measured,
                    GpsTimeout, Http, MotorTypeOK
<1>3. age' \in 0..WORK_MIN
  BY PileConstants DEF PileMessage, IntervalWait, Older, Position, Measured, GpsTimeout, Http,
                       machine
<1>4. fix' \in BOOLEAN /\ at' \in Sites /\ pile' \in Sites \cup {NoSite}
  BY DEF PileMessage, IntervalWait, Position, Measured, GpsTimeout, Http, gps
<1>5. req' \in BOOLEAN
  BY DEF PileMessage, IntervalWait, Position, Measured, GpsTimeout, Http, gps, Located
<1>6. https' \in 0..HTTP_MAX
  BY PileConstants DEF PileMessage, IntervalWait, Position, Measured, GpsTimeout, Http
<1>7. MotorTypeOK'
  BY <1>1, <1>2 DEF MotorTypeOK
<1> QED
  BY <1>1, <1>3, <1>4, <1>5, <1>6, <1>7 DEF NumberIsFresh, FileIsCurrent

(***************************************************************************)
(* The theorems.                                                           *)
(***************************************************************************)
\* Every step of the event loop keeps the invariant.
LEMMA RecordsInduction == RecordsInv /\ [RecordsNext]_recordVars => RecordsInv'
<1> SUFFICES ASSUME RecordsInv, [RecordsNext]_recordVars PROVE RecordsInv'
  OBVIOUS
<1>1. ASSUME NEW ch \in Channels, NEW v \in Levels, RecordedSample(ch, v) PROVE RecordsInv'
  BY <1>1, SampleKeepsRecords
<1>2. CASE RecordedDone
  BY <1>2, DoneKeepsRecords
<1>3. CASE RecordedSave
  BY <1>3, SaveKeepsRecords
<1>4. CASE RecordedRestart
  BY <1>4, RestartKeepsRecords
<1>5. CASE Quietly(PileMessage) \/ Quietly(IntervalWait) \/ Quietly(Position)
             \/ Quietly(Measured) \/ Quietly(GpsTimeout) \/ Quietly(Http)
  BY <1>5, OthersKeepRecords
<1>6. CASE UNCHANGED recordVars
  BY <1>6 DEF recordVars, RecordsInv, TypeOK, PileTypeOK, MotorTypeOK, NumberIsFresh,
              FileIsCurrent
<1> QED
  BY <1>1, <1>2, <1>3, <1>4, <1>5, <1>6 DEF RecordsNext

\* The invariant the theorems on numbers rest on.
LEMMA RecordsInvariant == RecordsSpec => []RecordsInv
BY RecordsInvInit, RecordsInduction, PTL DEF RecordsSpec

\* The machine's state stays well typed.
THEOREM PileTypeCorrect == RecordsSpec => []TypeOK
<1>1. RecordsInv => TypeOK
  BY DEF RecordsInv
<1> QED
  BY <1>1, RecordsInvariant, PTL

\* Two piles never bear the same number unless a save failed or was cut off.
THEOREM NumbersAreFresh == RecordsSpec => []NumberIsFresh
<1>1. RecordsInv => NumberIsFresh
  BY DEF RecordsInv
<1> QED
  BY <1>1, RecordsInvariant, PTL

\* Outside a save the file holds the number of the pile in hand.
THEOREM FileStaysCurrent == RecordsSpec => []FileIsCurrent
<1>1. RecordsInv => FileIsCurrent
  BY DEF RecordsInv
<1> QED
  BY <1>1, RecordsInvariant, PTL
=============================================================================
