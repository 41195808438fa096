------------------------------ MODULE GpsProofs ------------------------------
(***************************************************************************)
(* The theorems about the position: the measurement with two antennas, for *)
(* every number of samples and whatever GPIOs and receiver do, and the     *)
(* reader of the receiver's sentences, for every size of its buffer and    *)
(* wherever the reads cut the bytes.                                       *)
(***************************************************************************)
EXTENDS PileGps, Gnss, SequenceTheorems, WellFoundedInduction, TLAPS

(***************************************************************************)
(* The measurement.  While a request is measured undisturbed, either no    *)
(* switch is pending and the label agrees with the GPIOs, or exactly one   *)
(* is and both antennas are off; and in the second half the antenna that   *)
(* is not measured has its average.                                        *)
(***************************************************************************)
\* The antenna the second half measures, or will once the timer is over.
Measured == IF pending = <<>> THEN antenna ELSE pending[1].to

Settled == pending = <<>> /\ antenna \in Antennas /\ high = {antenna}
Switching == Len(pending) = 1 /\ antenna = "none" /\ high = {}

GpsInv ==
    /\ GpsTypeOK
    /\ req \in {2, 3} /\ ~disturbed => Settled \/ Switching
    /\ req = 3 /\ ~disturbed => sums[Other(Measured)].avg

\* The queue of switches grows at its end, and loses its first.
LEMMA AppendPending ==
  ASSUME pending \in Seq(Pending), NEW p \in Pending
  PROVE  /\ Append(pending, p) \in Seq(Pending)
         /\ Len(Append(pending, p)) = Len(pending) + 1 /\ Len(pending) \in Nat
         /\ pending = <<>> => Append(pending, p)[1] = p
         /\ Append(pending, p) # <<>>
<1>1. /\ Append(pending, p) \in Seq(Pending)
      /\ Len(Append(pending, p)) = Len(pending) + 1
      /\ Append(pending, p)[Len(pending) + 1] = p
      /\ Len(pending) \in Nat
  BY AppendProperties, LenProperties
<1>2. Append(pending, p) # <<>>
  BY <1>1, EmptySeq
<1>3. pending = <<>> => Append(pending, p)[1] = p
  OBVIOUS
<1> QED
  BY <1>1, <1>2, <1>3

\* The timers run out in order.
LEMMA TailPending ==
  ASSUME pending \in Seq(Pending), pending # <<>>
  PROVE  /\ Head(pending) = pending[1] /\ pending[1] \in Pending
         /\ Tail(pending) \in Seq(Pending) /\ Len(Tail(pending)) = Len(pending) - 1
         /\ Len(pending) \in Nat \ {0}
         /\ Len(pending) = 1 => Tail(pending) = <<>>
<1>1. Len(pending) \in Nat \ {0}
  BY LenProperties, EmptySeq
<1>2. 1 \in 1..Len(pending)
  BY <1>1
<1>3. Head(pending) = pending[1] /\ pending[1] \in Pending
  BY <1>2, ElementOfSeq
<1>4. Tail(pending) \in Seq(Pending) /\ Len(Tail(pending)) = Len(pending) - 1
  BY <1>1, HeadTailProperties
<1> QED
  BY <1>1, <1>3, <1>4, EmptySeq

\* ant_change's target is always one of the two.
LEMMA TargetAntenna ==
  /\ Target \in Antennas /\ Target # antenna
  /\ \A a \in Antennas : Other(a) \in Antennas /\ Other(a) # a /\ Other(Other(a)) = a
  /\ \A a, b \in Antennas : b = a \/ b = Other(a)
BY DEF Target, Antennas, Other

\* Switching keeps labels and GPIOs to the two antennas.
LEMMA AntChangeType ==
  ASSUME GpsTypeOK, NEW opened \in BOOLEAN, AntChange(opened)
  PROVE  /\ pending' \in Seq(Pending) /\ Len(pending') <= PENDING_MAX
         /\ high' \subseteq Antennas /\ antenna' \in Antennas \cup {"none"}
<1> DEFINE p == [to |-> Target, old |-> FALSE]
<1>1. p \in Pending /\ pending \in Seq(Pending)
  BY TargetAntenna DEF Pending, GpsTypeOK
<1>2. pending' = Append(pending, p) /\ Len(pending) < PENDING_MAX
  BY DEF AntChange
<1> HIDE DEF p
<1>3. pending' \in Seq(Pending) /\ Len(pending') <= PENDING_MAX
  BY <1>1, <1>2, AppendPending, GpsAssumption DEF GpsAssumption
<1>4. high' \subseteq Antennas /\ antenna' \in Antennas \cup {"none"}
  BY DEF AntChange, GpsTypeOK
<1> QED
  BY <1>3, <1>4

\* One more sample: where it goes, and what it leaves alone.
LEMMA SummedType ==
  ASSUME GpsTypeOK, antenna \in Antennas
  PROVE  /\ Base \in [Antennas -> Sum]
         /\ Summed \in [Antennas -> Sum]
         /\ Averaged => Summed[antenna].avg
         /\ req \in {2, 3} => Summed[Other(antenna)] = sums[Other(antenna)]
<1>1. Cleared \in Sum /\ SAMPLES \in Nat \ {0}
  BY GpsAssumption DEF Cleared, Sum, GpsAssumption
<1>2. Base \in [Antennas -> Sum]
  BY <1>1 DEF Base, GpsTypeOK
<1> DEFINE b == Base[antenna]
           next == [cnt |-> IF b.cnt < SAMPLES THEN b.cnt + 1 ELSE b.cnt,
                    avg |-> b.avg \/ b.cnt + 1 >= SAMPLES]
<1>3. b \in Sum
  BY <1>2
<1>4. b.cnt \in 0..SAMPLES /\ b.avg \in BOOLEAN
  BY <1>3 DEF Sum
<1>5. (IF b.cnt < SAMPLES THEN b.cnt + 1 ELSE b.cnt) \in 0..SAMPLES
  BY <1>1, <1>4
<1>6. next \in Sum
  BY <1>4, <1>5 DEF Sum
<1>7. Summed = [Base EXCEPT ![antenna] = next]
  BY DEF Summed
<1>8. next.cnt >= SAMPLES => next.avg
  <2>1. next.cnt = (IF b.cnt < SAMPLES THEN b.cnt + 1 ELSE b.cnt)
    OBVIOUS
  <2>2. next.avg = (b.avg \/ b.cnt + 1 >= SAMPLES)
    OBVIOUS
  <2> HIDE DEF b, next
  <2>3. next.cnt >= SAMPLES => b.cnt + 1 >= SAMPLES
    BY <1>1, <1>4, <2>1
  <2> QED
    BY <2>2, <2>3
<1> HIDE DEF next, b
<1>9. Summed \in [Antennas -> Sum] /\ Summed[antenna] = next
  BY <1>2, <1>6, <1>7
<1>10. Averaged => Summed[antenna].avg
  BY <1>8, <1>9 DEF Averaged
<1>11. ASSUME req \in {2, 3}
       PROVE  Summed[Other(antenna)] = sums[Other(antenna)]
  <2>1. Other(antenna) \in Antennas /\ Other(antenna) # antenna
    BY TargetAntenna
  <2>2. Summed[Other(antenna)] = Base[Other(antenna)]
    BY <1>2, <1>7, <2>1
  <2>3. Base[Other(antenna)] = sums[Other(antenna)]
    BY <1>11, <2>1 DEF Base, GpsTypeOK
  <2> QED
    BY <2>2, <2>3
<1> QED
  BY <1>2, <1>9, <1>10, <1>11

\* A request is made at the start; nothing is averaged and nothing pending.
LEMMA StartGps == GpsInit => GpsInv
<1> SUFFICES ASSUME GpsInit PROVE GpsInv
  OBVIOUS
<1>1. /\ antenna \in Antennas \cup {"none"} /\ high \subseteq Antennas /\ seen = "none"
      /\ req = 1 /\ fix \in BOOLEAN /\ pile = "zero" /\ disturbed \in BOOLEAN
  BY DEF GpsInit, Antennas
<1>2. pending \in Seq(Pending) /\ Len(pending) <= PENDING_MAX
  <2>1. pending = <<>> /\ Len(pending) = 0
    BY DEF GpsInit
  <2> QED
    BY <2>1, GpsAssumption DEF GpsAssumption
<1>3. sums \in [Antennas -> Sum]
  <2>1. Cleared \in Sum
    BY GpsAssumption DEF GpsAssumption, Cleared, Sum
  <2> QED
    BY <2>1 DEF GpsInit
<1>4. since \in -1..ANT_WAIT
  BY GpsAssumption DEF GpsAssumption, GpsInit
<1>5. GpsTypeOK
  BY <1>1, <1>2, <1>3, <1>4 DEF GpsTypeOK
<1> QED
  BY <1>1, <1>5 DEF GpsInv

\* The types, action by action.
LEMMA DataType ==
  ASSUME GpsTypeOK, NEW fixed \in BOOLEAN, NEW opened \in BOOLEAN, Data(fixed, opened)
  PROVE  GpsTypeOK'
<1>1. fix' \in BOOLEAN
  BY DEF Data
<1>2. 0 \in -1..ANT_WAIT /\ since \in -1..ANT_WAIT
  BY GpsAssumption DEF GpsAssumption, GpsTypeOK
<1>3. StillDisturbed \in BOOLEAN
  BY DEF StillDisturbed, GpsTypeOK
<1>4. Stage \in 0..3 /\ req \in 0..3
  BY DEF Stage, GpsTypeOK
<1>5. /\ antenna' \in Antennas \cup {"none"} /\ high' \subseteq Antennas
      /\ pending' \in Seq(Pending) /\ Len(pending') <= PENDING_MAX
  <2>1. CASE AntChange(opened)
    BY <2>1, AntChangeType
  <2>2. CASE UNCHANGED <<antenna, high, pending>>
    BY <2>2 DEF GpsTypeOK
  <2> QED
    BY <2>1, <2>2 DEF Data, DataCollects, DataSwitches, DataCompletes, DataUnknown
<1>6. seen' \in Antennas \cup {"none"}
  BY <1>5 DEF Data
<1>7. sums' \in [Antennas -> Sum]
  <2>1. CASE sums' = sums
    BY <2>1 DEF GpsTypeOK
  <2>2. CASE antenna # "none" /\ sums' = Summed
    BY <2>2, SummedType DEF GpsTypeOK
  <2> QED
    BY <2>1, <2>2 DEF Data, DataCollects, DataSwitches, DataCompletes, DataUnknown
<1>8. req' \in 0..3
  BY <1>4 DEF Data, DataCollects, DataSwitches, DataCompletes, DataUnknown
<1>9. since' \in -1..ANT_WAIT
  BY <1>2 DEF Data, DataCollects, DataSwitches, DataCompletes, DataUnknown
<1>10. pile' \in {"zero", "both", "wrong"}
  BY DEF Data, DataCollects, DataSwitches, DataCompletes, DataUnknown, GpsTypeOK
<1>11. disturbed' \in BOOLEAN
  <2>1. disturbed \in BOOLEAN
    BY DEF GpsTypeOK
  <2> QED
    BY <1>3, <2>1 DEF Data, DataCollects, DataSwitches, DataCompletes, DataUnknown
<1> QED
  BY <1>1, <1>5, <1>6, <1>7, <1>8, <1>9, <1>10, <1>11 DEF GpsTypeOK

\* Likewise the handlers that take no sample.
LEMMA OtherType ==
  ASSUME GpsTypeOK, NEW opened \in BOOLEAN,
         AntTimer(opened) \/ NoData(opened) \/ GpsInterval(opened) \/ Request
  PROVE  GpsTypeOK'
<1>1. CASE AntTimer(opened)
  <2>1. /\ Head(pending).to \in Antennas /\ pending' \in Seq(Pending)
        /\ Len(pending') <= PENDING_MAX
    BY <1>1, TailPending, GpsAssumption DEF AntTimer, Pending, GpsAssumption, GpsTypeOK
  <2>2. antenna' \in Antennas \cup {"none"} /\ high' \subseteq Antennas
    BY <1>1, <2>1 DEF AntTimer, GpsTypeOK
  <2>3. disturbed' \in BOOLEAN
    BY <1>1 DEF AntTimer, GpsTypeOK
  <2> QED
    BY <1>1, <2>1, <2>2, <2>3 DEF AntTimer, GpsTypeOK
<1>2. CASE NoData(opened)
  BY <1>2, AntChangeType DEF NoData, GpsTypeOK
<1>3. CASE GpsInterval(opened)
  <2>1. ANT_WAIT \in Nat /\ Len(pending) \in Nat /\ pending \in Seq(Pending)
    BY LenProperties, GpsAssumption DEF GpsAssumption, GpsTypeOK
  <2>2. CASE IntervalRequest
    <3>1. \A i \in 1..Len(pending) : [pending[i] EXCEPT !.old = TRUE] \in Pending
      <4> SUFFICES ASSUME NEW i \in 1..Len(pending)
                   PROVE  [pending[i] EXCEPT !.old = TRUE] \in Pending
        OBVIOUS
      <4>1. pending[i] \in Pending
        BY <2>1, ElementOfSeq
      <4> QED
        BY <4>1 DEF Pending
    <3>2. Aged(pending) \in Seq(Pending) /\ Len(Aged(pending)) = Len(pending)
      BY <2>1, <3>1, IsASeq DEF Aged
    <3>3. Later \in -1..ANT_WAIT
      BY <2>1 DEF Later, GpsTypeOK
    <3>4. req' \in 0..3
      BY <2>2 DEF IntervalRequest, GpsTypeOK
    <3> QED
      BY <1>3, <2>2, <3>2, <3>3, <3>4 DEF GpsInterval, IntervalRequest, GpsTypeOK
  <2>3. CASE IntervalSwitch(opened)
    <3>1. since' \in -1..ANT_WAIT /\ disturbed' \in BOOLEAN /\ req' = req
      BY <2>1, <2>3 DEF IntervalSwitch
    <3> QED
      BY <1>3, <2>3, <3>1, AntChangeType DEF GpsInterval, IntervalSwitch, GpsTypeOK
  <2> QED
    BY <1>3, <2>2, <2>3 DEF GpsInterval
<1>4. CASE Request
  BY <1>4 DEF Request, GpsTypeOK
<1> QED
  BY <1>1, <1>2, <1>3, <1>4

\* A position that is averaged undisturbed comes from a settled antenna.
LEMMA SettledAtSample ==
  ASSUME GpsInv, req > 0, antenna \in Antennas, ~StillDisturbed
  PROVE  Settled /\ (Stage = 3 => sums[Other(antenna)].avg /\ req = 3)
<1>1. req \in {1, 2, 3}
  BY DEF GpsInv, GpsTypeOK
<1>2. CASE req = 1
  BY <1>2 DEF StillDisturbed, Settled, Stage
<1>3. CASE req \in {2, 3}
  <2>1. Settled
    BY <1>3 DEF StillDisturbed, GpsInv, Switching, Antennas
  <2>2. Stage = 3 => sums[Other(antenna)].avg /\ req = 3
    BY <1>3, <2>1 DEF Stage, GpsInv, Settled, Measured, StillDisturbed
  <2> QED
    BY <2>1, <2>2
<1> QED
  BY <1>1, <1>2, <1>3

\* A position: the only step of the measurement itself.
LEMMA DataKeeps ==
  ASSUME GpsInv, NEW fixed \in BOOLEAN, NEW opened \in BOOLEAN, Data(fixed, opened)
  PROVE  GpsInv'
<1>1. GpsTypeOK /\ GpsTypeOK'
  BY DataType DEF GpsInv
<1>2. CASE Measuring(fixed) /\ antenna # "none" /\ DataCollects
  <2>1. antenna \in Antennas /\ req > 0 /\ req \in {1, 2, 3}
    BY <1>1, <1>2 DEF GpsTypeOK, Measuring
  <2>2. /\ sums' = Summed /\ req' = Stage /\ disturbed' = StillDisturbed
        /\ antenna' = antenna /\ high' = high /\ pending' = pending
    BY <1>2 DEF DataCollects
  <2>3. ASSUME ~disturbed'
        PROVE  Settled' /\ (req' = 3 => sums'[Other(antenna)].avg)
    <3>1. Settled /\ (Stage = 3 => sums[Other(antenna)].avg /\ req = 3)
      BY <2>1, <2>2, <2>3, SettledAtSample
    <3>2. req = 3 => Summed[Other(antenna)] = sums[Other(antenna)]
      BY <1>1, <2>1, SummedType
    <3> QED
      BY <2>2, <3>1, <3>2 DEF Settled
  <2> QED
    BY <1>1, <2>2, <2>3 DEF GpsInv, Settled, Measured
<1>3. CASE Measuring(fixed) /\ antenna # "none" /\ DataSwitches(opened)
  <2>1. antenna \in Antennas /\ req > 0
    BY <1>1, <1>3 DEF GpsTypeOK, Measuring
  <2>2. /\ sums' = Summed /\ Averaged /\ disturbed' = (StillDisturbed \/ ~opened)
        /\ AntChange(opened)
    BY <1>3 DEF DataSwitches
  <2>3. ASSUME ~disturbed'
        PROVE  Switching' /\ sums'[Other(Measured')].avg
    <3>1. Settled /\ opened
      BY <2>1, <2>2, <2>3, SettledAtSample
    <3> DEFINE p == [to |-> Target, old |-> FALSE]
    <3>2. p \in Pending /\ p.to = Other(antenna)
      BY <2>1, TargetAntenna DEF Pending, Target, Other, Antennas
    <3>3. pending' = Append(pending, p) /\ high' = high \ {Other(Target)} /\ antenna' = "none"
      BY <2>2, <3>1 DEF AntChange
    <3> HIDE DEF p
    <3>4. pending \in Seq(Pending) /\ Len(pending) = 0
      BY <1>1, <3>1 DEF GpsTypeOK, Settled
    <3>5. Len(pending') = 1 /\ pending'[1] = p /\ pending' # <<>>
      BY <3>1, <3>2, <3>3, <3>4, AppendPending DEF Settled
    <3>6. Target = Other(antenna) /\ Other(Target) = antenna /\ Other(Measured') = antenna
      BY <2>1, <3>2, <3>5, TargetAntenna DEF Measured, Target, Other, Antennas
    <3>7. Summed[antenna].avg
      BY <1>1, <2>1, <2>2, SummedType
    <3> QED
      BY <2>2, <3>1, <3>3, <3>5, <3>6, <3>7 DEF Switching, Settled
  <2> QED
    BY <1>1, <2>3 DEF GpsInv
<1>4. CASE Measuring(fixed) /\ antenna # "none" /\ DataCompletes
  BY <1>1, <1>4 DEF DataCompletes, GpsInv
<1>5. CASE Measuring(fixed) /\ DataUnknown(opened)
  BY <1>1, <1>5 DEF DataUnknown, GpsInv
<1>6. CASE UNCHANGED <<antenna, high, pending, sums, req, since, pile, disturbed>>
  BY <1>1, <1>6 DEF GpsInv, Settled, Switching, Measured
<1> QED
  BY <1>2, <1>3, <1>4, <1>5, <1>6 DEF Data

\* The second write ends a switch.
LEMMA TimerKeeps ==
  ASSUME GpsInv, NEW opened \in BOOLEAN, AntTimer(opened)
  PROVE  GpsInv'
<1>1. GpsTypeOK /\ GpsTypeOK'
  BY OtherType DEF GpsInv
<1>2. pending # <<>> /\ pending \in Seq(Pending)
  BY <1>1 DEF AntTimer, GpsTypeOK
<1>3. ASSUME req' \in {2, 3}, ~disturbed'
      PROVE  Settled' /\ (req' = 3 => sums'[Other(Measured')].avg)
  <2>1. /\ opened /\ req' = req /\ sums' = sums /\ ~disturbed /\ pending' = Tail(pending)
        /\ high' = high \cup {Head(pending).to} /\ antenna' = Head(pending).to
    BY <1>3 DEF AntTimer
  <2>2. Switching
    BY <1>2, <1>3, <2>1 DEF GpsInv, Settled
  <2>3. pending' = <<>> /\ Head(pending) = pending[1] /\ pending[1].to \in Antennas
    BY <1>2, <2>1, <2>2, TailPending DEF Switching, Pending
  <2>4. Measured = antenna' /\ Measured' = antenna'
    BY <1>2, <2>1, <2>3 DEF Measured
  <2>5. req = 3 => sums[Other(Measured)].avg
    BY <2>1 DEF GpsInv
  <2> QED
    BY <2>1, <2>2, <2>3, <2>4, <2>5 DEF Settled, Switching
<1> QED
  BY <1>1, <1>3 DEF GpsInv

\* The interval ages the timers and may ask anew.
LEMMA IntervalKeeps ==
  ASSUME GpsInv, NEW opened \in BOOLEAN, GpsInterval(opened)
  PROVE  GpsInv'
<1>1. GpsTypeOK /\ GpsTypeOK'
  BY OtherType DEF GpsInv
<1>2. CASE IntervalSwitch(opened)
  BY <1>1, <1>2 DEF IntervalSwitch, GpsInv
<1>3. CASE IntervalRequest
  <2>1. /\ req' \in {1, req} /\ pending' = Aged(pending) /\ antenna' = antenna /\ high' = high
        /\ disturbed' = disturbed /\ sums' = sums
    BY <1>3 DEF IntervalRequest, GpsInterval
  <2>2. pending \in Seq(Pending) /\ Len(pending) \in Nat
    BY <1>1, LenProperties DEF GpsTypeOK, Pending
  <2>3. Len(Aged(pending)) = Len(pending)
    BY <2>2 DEF Aged
  <2>4. pending = <<>> <=> pending' = <<>>
    BY <1>1, <2>1, <2>2, <2>3, EmptySeq DEF GpsTypeOK
  <2>5. ASSUME pending # <<>>
        PROVE  pending'[1].to = pending[1].to
    <3>1. 1 \in 1..Len(pending) /\ pending[1] \in Pending
      BY <2>2, <2>5, TailPending
    <3>2. pending'[1] = [pending[1] EXCEPT !.old = TRUE]
      BY <2>1, <2>2, <3>1 DEF Aged
    <3> QED
      BY <3>1, <3>2 DEF Pending
  <2>6. Measured' = Measured
    BY <2>1, <2>4, <2>5 DEF Measured
  <2>7. Settled => Settled'
    BY <2>1, <2>4 DEF Settled
  <2>8. Switching => Switching'
    BY <2>1, <2>3 DEF Switching
  <2> QED
    BY <1>1, <2>1, <2>6, <2>7, <2>8 DEF GpsInv
<1> QED
  BY <1>2, <1>3 DEF GpsInterval

\* GpsInv is inductive.
LEMMA StepGps == GpsInv /\ [GpsNext]_gpsVars => GpsInv'
<1> SUFFICES ASSUME GpsInv, [GpsNext]_gpsVars PROVE GpsInv'
  OBVIOUS
<1>1. CASE \E fixed, opened \in BOOLEAN : Data(fixed, opened)
  BY <1>1, DataKeeps
<1>2. CASE \E opened \in BOOLEAN : AntTimer(opened)
  BY <1>2, TimerKeeps
<1>3. CASE \E opened \in BOOLEAN : NoData(opened)
  <2>1. GpsTypeOK'
    BY <1>3, OtherType DEF GpsInv
  <2> QED
    BY <1>3, <2>1 DEF NoData, GpsInv
<1>4. CASE \E opened \in BOOLEAN : GpsInterval(opened)
  BY <1>4, IntervalKeeps
<1>5. CASE Request
  <2>1. GpsTypeOK'
    BY <1>5, OtherType DEF GpsInv
  <2> QED
    BY <1>5, <2>1 DEF Request, GpsInv
<1>6. CASE UNCHANGED gpsVars
  BY <1>6 DEF gpsVars, GpsInv, GpsTypeOK, Settled, Switching, Measured
<1> QED
  BY <1>1, <1>2, <1>3, <1>4, <1>5, <1>6 DEF GpsNext

\* So it always holds.
LEMMA InductiveGps == GpsSpec => []GpsInv
BY StartGps, StepGps, PTL DEF GpsSpec

\* The state of the measurement keeps its types: the counts of both antennas stay
\* within SAMPLES however often requests and timeouts cut a measurement off.
THEOREM GpsTypeCorrect == GpsSpec => []GpsTypeOK
<1>1. GpsInv => GpsTypeOK
  BY DEF GpsInv
<1> QED
  BY InductiveGps, <1>1, PTL

\* rtk_gps:on("data"): an undisturbed measurement averages positions under the
\* antenna that is on.
THEOREM LabelAgreesWithGpio == GpsSpec => []LabelIsTrue
<1>1. GpsInv => LabelIsTrue
  BY DEF GpsInv, LabelIsTrue, Settled, Switching
<1> QED
  BY InductiveGps, <1>1, PTL

\* pile_location_calculate: what an undisturbed measurement stores is the middle of
\* two full averages, one of each antenna.
THEOREM MiddleOfBoth == GpsSpec => UndisturbedIsBoth
<1> DEFINE Justly == req = 3 /\ req' = 0 /\ pile' = "wrong" => disturbed \/ disturbed'
<1>1. GpsInv /\ [GpsNext]_gpsVars => [Justly]_gpsVars
  <2> SUFFICES ASSUME GpsInv, [GpsNext]_gpsVars, req = 3, req' = 0, pile' = "wrong"
               PROVE  disturbed \/ disturbed'
    OBVIOUS
  <2>1. CASE \E fixed, opened \in BOOLEAN : Data(fixed, opened)
    <3>1. PICK fixed \in BOOLEAN, opened \in BOOLEAN : Data(fixed, opened)
      BY <2>1
    <3>2. CASE antenna # "none" /\ DataCompletes
      <4>1. antenna \in Antennas /\ GpsTypeOK
        BY <3>2 DEF GpsInv, GpsTypeOK
      <4>2. \E a \in Antennas : ~Summed[a].avg
        BY <3>2 DEF DataCompletes
      <4>3. Summed[antenna].avg /\ Summed[Other(antenna)] = sums[Other(antenna)]
        BY <3>2, <4>1, SummedType DEF DataCompletes
      <4>4. ~sums[Other(antenna)].avg
        BY <4>1, <4>2, <4>3, TargetAntenna
      <4>5. ~StillDisturbed <=> ~disturbed
        BY DEF StillDisturbed
      <4> QED
        BY <4>1, <4>4, <4>5, SettledAtSample DEF Stage
    <3> QED
      BY <3>1, <3>2 DEF Data, DataCollects, DataSwitches, DataUnknown, Stage
  <2> QED
    BY <2>1 DEF GpsNext, AntTimer, NoData, GpsInterval, IntervalRequest, IntervalSwitch,
                Request, gpsVars
<1> QED
  BY InductiveGps, <1>1, PTL DEF GpsSpec, UndisturbedIsBoth

(***************************************************************************)
(* The reader.  What it has is the end of what the receiver has sent:      *)
(* Stream says how the bytes in it and the next ones follow each other.    *)
(* While nothing is lost or damaged, it begins where the last sentence     *)
(* taken has ended (Continues).                                            *)
(***************************************************************************)
Follows(a, b) ==
    /\ a = Dollar => b \in Text
    /\ a \in Text => b \in {Newline, Noise}
    /\ a \in {Newline, Noise} => b = Dollar

\* The feed goes on after s, with the sentence that follows.
FeedFollows(s, f) ==
    /\ f.byte \in {Dollar, f.text, Newline, Noise}
    /\ Len(s) > 0 => Follows(s[Len(s)], f.byte)
    /\ Len(s) > 0 /\ f.byte \in {Newline, Noise} => s[Len(s)] = f.text
    /\ Len(s) > 1 /\ f.byte = Dollar /\ s[Len(s) - 1] \in Text => f.text \in After(s[Len(s) - 1])
    /\ Len(s) > 2 /\ f.byte = f.text /\ s[Len(s) - 2] \in Text => f.text \in After(s[Len(s) - 2])

Stream(s, f) ==
    /\ \A k \in 1..(Len(s) - 1) : Follows(s[k], s[k + 1])
    /\ \A k \in 1..(Len(s) - 3) : s[k] \in Text => s[k + 3] \in After(s[k])
    /\ FeedFollows(s, f)

\* s and the feed go on after the sentence last.
Continues(s, f, last) ==
    /\ IF Len(s) > 0 THEN s[1] = Dollar ELSE f.byte = Dollar
    /\ IF Len(s) > 1 THEN s[2] \in After(last) ELSE f.text \in After(last)

Last == <<parsed, gps_data.position>>

GnssInv ==
    /\ GnssTypeOK
    /\ at = "scan" => chunk = <<>> /\ pos + Len(rxbuf) <= RXBUF
    /\ Stream(Unhandled, feed)
    /\ ~harmed => Last \in Text /\ Continues(Unhandled, feed, Last)
    /\ EpochTrue

Feed == [byte : Byte, text : Text]

\* The bytes can be told apart.
LEMMA BytesDiffer ==
  /\ Dollar # Newline /\ Dollar # Noise /\ Newline # Noise
  /\ Dollar \notin Text /\ Newline \notin Text /\ Noise \notin Text
BY DEF Dollar, Newline, Noise, Text

\* A sentence is its kind and its epoch.
LEMMA TextType ==
  /\ \A t \in Text : t[1] \in Talks /\ t[2] \in Epochs /\ t = <<t[1], t[2]>>
  /\ \A talk \in Talks, e \in Epochs :
        <<talk, e>> \in Text /\ <<talk, e>>[1] = talk /\ <<talk, e>>[2] = e
BY DEF Text

\* Which sentence follows which, and for which epoch.
LEMMA AfterType ==
  ASSUME NEW t \in Text, NEW u \in After(t)
  PROVE  /\ u \in Text
         /\ u[1] # "RMC" => u[2] = t[2]
         /\ u[1] = "GGA" => t[1] = "RMC"
<1>1. t[1] \in Talks /\ t[2] \in Epochs
  BY TextType
<1>2. CASE t[1] = "RMC"
  <2>1. u = <<"GGA", t[2]>>
    BY <1>2 DEF After
  <2> QED
    BY <1>1, <1>2, <2>1, TextType DEF Talks
<1>3. CASE t[1] = "GGA"
  <2>1. u = <<"GLL", t[2]>>
    BY <1>3 DEF After
  <2> QED
    BY <1>1, <1>3, <2>1, TextType DEF Talks
<1>4. CASE t[1] \notin {"RMC", "GGA"}
  <2>1. u \in {"RMC"} \X Epochs
    BY <1>4 DEF After
  <2>2. PICK e \in Epochs : u = <<"RMC", e>>
    BY <2>1
  <2> QED
    BY <2>2, TextType DEF Talks
<1> QED
  BY <1>2, <1>3, <1>4

\* The end of a stream is one.
LEMMA EndOfStream ==
  ASSUME NEW f, NEW s \in Seq(Byte), NEW t \in Seq(Byte), Stream(s, f), Len(t) <= Len(s),
         \A i \in 1..Len(t) : t[i] = s[Len(s) - Len(t) + i]
  PROVE  Stream(t, f)
<1> DEFINE d == Len(s) - Len(t)
<1>1. Len(s) \in Nat /\ Len(t) \in Nat /\ d \in Nat /\ Len(s) = d + Len(t)
  BY LenProperties
<1>2. \A i \in 1..Len(t) : t[i] = s[d + i]
  OBVIOUS
<1> HIDE DEF d
<1>3. ASSUME NEW k \in 1..(Len(t) - 1)
      PROVE  Follows(t[k], t[k + 1])
  <2>1. d + k \in 1..(Len(s) - 1) /\ d + (k + 1) = (d + k) + 1 /\ k \in 1..Len(t) /\ k + 1 \in 1..Len(t)
    BY <1>1
  <2>2. t[k] = s[d + k] /\ t[k + 1] = s[(d + k) + 1]
    BY <1>2, <2>1
  <2> QED
    BY <2>1, <2>2 DEF Stream
<1>4. ASSUME NEW k \in 1..(Len(t) - 3), t[k] \in Text
      PROVE  t[k + 3] \in After(t[k])
  <2>1. d + k \in 1..(Len(s) - 3) /\ d + (k + 3) = (d + k) + 3 /\ k \in 1..Len(t) /\ k + 3 \in 1..Len(t)
    BY <1>1
  <2>2. t[k] = s[d + k] /\ t[k + 3] = s[(d + k) + 3]
    BY <1>2, <2>1
  <2> QED
    BY <1>4, <2>1, <2>2 DEF Stream
<1>5. FeedFollows(t, f)
  <2>1. FeedFollows(s, f)
    BY DEF Stream
  <2>2. Len(t) > 0 => Len(s) > 0 /\ t[Len(t)] = s[Len(s)]
    BY <1>1, <1>2
  <2>3. Len(t) > 1 => Len(s) > 1 /\ t[Len(t) - 1] = s[Len(s) - 1]
    <3> SUFFICES ASSUME Len(t) > 1 PROVE Len(s) > 1 /\ t[Len(t) - 1] = s[Len(s) - 1]
      OBVIOUS
    <3>1. Len(t) - 1 \in 1..Len(t) /\ d + (Len(t) - 1) = Len(s) - 1
      BY <1>1
    <3> QED
      BY <1>1, <1>2, <3>1
  <2>4. Len(t) > 2 => Len(s) > 2 /\ t[Len(t) - 2] = s[Len(s) - 2]
    <3> SUFFICES ASSUME Len(t) > 2 PROVE Len(s) > 2 /\ t[Len(t) - 2] = s[Len(s) - 2]
      OBVIOUS
    <3>1. Len(t) - 2 \in 1..Len(t) /\ d + (Len(t) - 2) = Len(s) - 2 /\ Len(s) > 2
      BY <1>1
    <3>2. t[Len(t) - 2] = s[d + (Len(t) - 2)]
      BY <1>2, <3>1
    <3> QED
      BY <3>1, <3>2
  <2> QED
    BY <2>1, <2>2, <2>3, <2>4 DEF FeedFollows
<1> QED
  BY <1>3, <1>4, <1>5 DEF Stream

\* A byte more is one byte less to come.
LEMMA LongerStream ==
  ASSUME NEW f \in Feed, NEW s \in Seq(Byte), NEW g \in Following(f), Stream(s, f)
  PROVE  /\ g \in Feed
         /\ Stream(Append(s, f.byte), g)
<1> DEFINE t == Append(s, f.byte)
           n == Len(s)
<1>1. n \in Nat /\ f.byte \in Byte /\ f.text \in Text
  BY LenProperties DEF Feed
<1>2. t \in Seq(Byte) /\ Len(t) = n + 1 /\ t[n + 1] = f.byte /\ \A i \in 1..n : t[i] = s[i]
  BY <1>1, AppendProperties
<1>3. FeedFollows(s, f)
  BY DEF Stream
<1>4. \/ f.byte = Dollar /\ g.byte = f.text /\ g.text = f.text
      \/ f.byte = f.text /\ f.byte # Dollar /\ g.byte \in {Newline, Noise} /\ g.text = f.text
      \/ f.byte \in {Newline, Noise} /\ g.byte = Dollar /\ g.text \in After(f.text)
  <2>1. f.byte \in {Dollar, f.text, Newline, Noise}
    BY <1>3 DEF FeedFollows
  <2> QED
    BY <1>1, <2>1, BytesDiffer DEF Following, Feed
<1>5. g \in Feed
  <2>1. \A t1 \in After(f.text) : t1 \in Text
    BY <1>1, AfterType
  <2> QED
    BY <1>1, <2>1 DEF Following, Feed, Byte
<1> HIDE DEF t, n
<1>6. ASSUME NEW k \in 1..(Len(t) - 1)
      PROVE  Follows(t[k], t[k + 1])
  <2>1. CASE k = n
    BY <1>1, <1>2, <1>3, <2>1 DEF FeedFollows, n
  <2>2. CASE k # n
    <3>1. k \in 1..(n - 1) /\ k \in 1..n /\ k + 1 \in 1..n
      BY <1>1, <1>2, <2>2
    <3> QED
      BY <1>2, <3>1 DEF Stream, n
  <2> QED
    BY <2>1, <2>2
<1>7. ASSUME NEW k \in 1..(Len(t) - 3), t[k] \in Text
      PROVE  t[k + 3] \in After(t[k])
  <2>1. CASE k = n - 2
    <3>1. n > 2 /\ k \in 1..n /\ k + 3 = n + 1
      BY <1>1, <1>2, <2>1
    <3>2. s[n - 2] \in Text /\ t[k] = s[n - 2] /\ t[k + 3] = f.byte
      BY <1>2, <1>7, <2>1, <3>1
    <3>3. Follows(s[n - 2], s[n - 1]) /\ Follows(s[n - 1], s[n])
      <4>1. n - 2 \in 1..(n - 1) /\ n - 1 \in 1..(n - 1) /\ (n - 2) + 1 = n - 1 /\ (n - 1) + 1 = n
        BY <1>1, <3>1
      <4> QED
        BY <4>1 DEF Stream, n
    <3>4. s[n] = Dollar
      BY <3>2, <3>3, BytesDiffer DEF Follows
    <3>5. f.byte \in Text
      <4>1. n > 0 /\ Follows(s[n], f.byte)
        BY <1>1, <1>3, <3>1 DEF FeedFollows, n
      <4> QED
        BY <3>4, <4>1 DEF Follows
    <3>6. f.byte = f.text
      BY <1>3, <3>5, BytesDiffer DEF FeedFollows
    <3> QED
      BY <1>3, <3>1, <3>2, <3>6 DEF FeedFollows, n
  <2>2. CASE k # n - 2
    <3>1. k \in 1..(n - 3) /\ k \in 1..n /\ k + 3 \in 1..n
      BY <1>1, <1>2, <2>2
    <3> QED
      BY <1>2, <1>7, <3>1 DEF Stream, n
  <2> QED
    BY <2>1, <2>2
<1>8. FeedFollows(t, g)
  <2>1. Len(t) > 0 /\ t[Len(t)] = f.byte
    BY <1>1, <1>2
  <2>2. CASE f.byte = Dollar /\ g.byte = f.text /\ g.text = f.text
    <3>1. g.byte \in Text /\ g.byte \notin {Dollar, Newline, Noise}
      BY <1>1, <2>2, BytesDiffer
    <3>2. Len(t) > 2 /\ t[Len(t) - 2] \in Text => g.text \in After(t[Len(t) - 2])
      <4> SUFFICES ASSUME Len(t) > 2, t[Len(t) - 2] \in Text
                   PROVE  g.text \in After(t[Len(t) - 2])
        OBVIOUS
      <4>1. n > 1 /\ Len(t) - 2 = n - 1 /\ n - 1 \in 1..n
        BY <1>1, <1>2
      <4>2. t[Len(t) - 2] = s[n - 1]
        BY <1>2, <4>1
      <4> QED
        BY <1>3, <2>2, <4>1, <4>2 DEF FeedFollows, n
    <3>3. Follows(f.byte, g.byte)
      BY <2>2, <3>1, BytesDiffer DEF Follows
    <3> QED
      BY <2>1, <2>2, <3>1, <3>2, <3>3 DEF FeedFollows
  <2>3. CASE f.byte = f.text /\ f.byte # Dollar /\ g.byte \in {Newline, Noise} /\ g.text = f.text
    <3>1. f.byte \in Text /\ f.byte # Dollar /\ g.byte # Dollar /\ g.byte # g.text
      BY <1>1, <2>3, BytesDiffer
    <3>2. Follows(f.byte, g.byte)
      BY <2>3, <3>1, BytesDiffer DEF Follows
    <3> QED
      BY <2>1, <2>3, <3>1, <3>2 DEF FeedFollows
  <2>4. CASE f.byte \in {Newline, Noise} /\ g.byte = Dollar /\ g.text \in After(f.text)
    <3>1. /\ f.byte \notin Text /\ f.byte # Dollar
          /\ g.byte \notin {Newline, Noise} /\ g.text \in Text /\ g.byte # g.text
      BY <1>1, <2>4, BytesDiffer, AfterType
    <3>2. Len(t) > 1 => t[Len(t) - 1] = f.text
      <4> SUFFICES ASSUME Len(t) > 1 PROVE t[Len(t) - 1] = f.text
        OBVIOUS
      <4>1. n > 0 /\ Len(t) - 1 = n /\ n \in 1..n
        BY <1>1, <1>2
      <4> QED
        BY <1>2, <1>3, <2>4, <4>1 DEF FeedFollows, n
    <3>3. Follows(f.byte, g.byte)
      BY <2>4, <3>1, BytesDiffer DEF Follows
    <3> QED
      BY <2>1, <2>4, <3>1, <3>2, <3>3 DEF FeedFollows
  <2> QED
    BY <1>4, <2>2, <2>3, <2>4
<1> QED
  BY <1>5, <1>6, <1>7, <1>8 DEF Stream, t

\* A byte more does not change where the stream begins.
LEMMA LongerContinues ==
  ASSUME NEW f \in Feed, NEW s \in Seq(Byte), NEW g \in Following(f), Stream(s, f),
         NEW last \in Text, Continues(s, f, last)
  PROVE  Continues(Append(s, f.byte), g, last)
<1> DEFINE t == Append(s, f.byte)
           n == Len(s)
<1>1. n \in Nat /\ f.byte \in Byte /\ f.text \in Text
  BY LenProperties DEF Feed
<1>2. t \in Seq(Byte) /\ Len(t) = n + 1 /\ t[n + 1] = f.byte /\ \A i \in 1..n : t[i] = s[i]
  BY <1>1, AppendProperties
<1>3. FeedFollows(s, f)
  BY DEF Stream
<1> HIDE DEF t, n
<1>4. CASE n = 0
  <2>1. f.byte = Dollar /\ f.text \in After(last)
    BY <1>4 DEF Continues, n
  <2>2. g.text = f.text
    BY <1>1, <2>1 DEF Following, Feed
  <2> QED
    BY <1>2, <1>4, <2>1, <2>2 DEF Continues, t
<1>5. CASE n = 1
  <2>1. s[1] = Dollar /\ f.text \in After(last)
    BY <1>5 DEF Continues, n
  <2>2. f.byte \in Text
    BY <1>3, <1>5, <2>1 DEF FeedFollows, Follows, n
  <2>3. f.byte = f.text
    BY <1>3, <2>2, BytesDiffer DEF FeedFollows
  <2> QED
    BY <1>2, <1>5, <2>1, <2>3 DEF Continues, t
<1>6. CASE n > 1
  <2>1. s[1] = Dollar /\ s[2] \in After(last)
    BY <1>1, <1>6 DEF Continues, n
  <2>2. t[1] = s[1] /\ t[2] = s[2] /\ Len(t) > 1
    BY <1>1, <1>2, <1>6
  <2> QED
    BY <2>1, <2>2 DEF Continues, t
<1> QED
  BY <1>1, <1>4, <1>5, <1>6

\* Nor does it matter, once an undamaged sentence is taken, what was in front of it.
LEMMA NextSentence ==
  ASSUME NEW f \in Feed, NEW s \in Seq(Byte), NEW t \in Seq(Byte), Stream(s, f),
         s[2] \in Text, s[3] = Newline,
         NEW n \in Nat, Len(t) = n, Len(s) = n + 3, \A i \in 1..n : t[i] = s[3 + i]
  PROVE  Continues(t, f, s[2])
<1>1. FeedFollows(s, f)
  BY DEF Stream
<1>2. /\ \A k \in 1..(n + 2) : Follows(s[k], s[k + 1])
      /\ \A k \in 1..n : s[k] \in Text => s[k + 3] \in After(s[k])
  BY DEF Stream
<1>3. CASE n = 0
  <2>1. Len(s) = 3 /\ Len(s) > 0 /\ Len(s) > 1 /\ Len(s) - 1 = 2
    BY <1>3
  <2>2. Follows(s[3], f.byte)
    BY <1>1, <2>1 DEF FeedFollows
  <2>3. f.byte = Dollar
    BY <2>2 DEF Follows
  <2>4. f.text \in After(s[2])
    BY <1>1, <2>1, <2>3 DEF FeedFollows
  <2>5. Len(t) = 0
    BY <1>3
  <2> QED
    BY <2>3, <2>4, <2>5 DEF Continues
<1>4. CASE n = 1
  <2>1. Len(s) = 4 /\ Len(s) > 0 /\ Len(s) > 2 /\ Len(s) - 2 = 2
    BY <1>4
  <2>2. t[1] = s[4] /\ Len(t) = 1
    BY <1>4
  <2>3. Follows(s[3], s[4])
    BY <1>2, <1>4
  <2>4. s[4] = Dollar
    BY <2>3 DEF Follows
  <2>5. Follows(s[4], f.byte)
    BY <1>1, <2>1 DEF FeedFollows
  <2>6. f.byte \in Text
    BY <2>4, <2>5 DEF Follows
  <2>7. f.byte = f.text
    BY <1>1, <2>6, BytesDiffer DEF FeedFollows
  <2>8. f.text \in After(s[2])
    BY <1>1, <2>1, <2>7 DEF FeedFollows
  <2> QED
    BY <2>2, <2>4, <2>8 DEF Continues
<1>5. CASE n > 1
  <2>1. 1 \in 1..n /\ 2 \in 1..n /\ 3 \in 1..(n + 2) /\ Len(t) > 1 /\ Len(t) > 0
    BY <1>5
  <2>2. t[1] = s[4] /\ t[2] = s[5]
    BY <2>1
  <2>3. Follows(s[3], s[4]) /\ s[5] \in After(s[2])
    BY <1>2, <2>1
  <2>4. s[4] = Dollar
    BY <2>3 DEF Follows
  <2> QED
    BY <2>1, <2>2, <2>3, <2>4 DEF Continues
<1> QED
  BY <1>3, <1>4, <1>5

\* From(k) is the end of rxbuf, and empty behind it.
LEMMA FromEnd ==
  ASSUME rxbuf \in Seq(Byte), NEW k \in Nat \ {0}
  PROVE  /\ From(k) \in Seq(Byte)
         /\ Len(From(k)) \in Nat /\ Len(From(k)) <= Len(rxbuf)
         /\ k - 1 <= Len(rxbuf) => Len(From(k)) = Len(rxbuf) - (k - 1)
         /\ \A i \in 1..Len(From(k)) : From(k)[i] = rxbuf[(k - 1) + i]
         /\ \A i \in 1..Len(From(k)) : From(k)[i] = rxbuf[Len(rxbuf) - Len(From(k)) + i]
<1> DEFINE n == Len(rxbuf)
           t == SubSeq(rxbuf, k, n)
<1>1. n \in Nat
  BY LenProperties
<1>2. \A i \in k..n : rxbuf[i] \in Byte
  BY <1>1, ElementOfSeq
<1>3. /\ t \in Seq(Byte) /\ Len(t) = IF k <= n THEN n - k + 1 ELSE 0
      /\ \A i \in 1..(n - k + 1) : t[i] = rxbuf[k + i - 1]
  BY <1>1, <1>2, SubSeqProperties
<1>4. From(k) = t
  BY DEF From
<1> HIDE DEF t, n
<1>5. Len(t) \in Nat /\ Len(t) <= n /\ (k - 1 <= n => Len(t) = n - (k - 1))
  BY <1>1, <1>3
<1>6. ASSUME NEW i \in 1..Len(t)
      PROVE  t[i] = rxbuf[(k - 1) + i] /\ t[i] = rxbuf[n - Len(t) + i]
  <2>1. k <= n
    BY <1>1, <1>3
  <2>2. i \in 1..(n - k + 1) /\ k + i - 1 = (k - 1) + i /\ k + i - 1 = n - Len(t) + i
    BY <1>1, <1>3, <2>1
  <2> QED
    BY <1>3, <2>2
<1> QED
  BY <1>3, <1>4, <1>5, <1>6 DEF n

\* What is left after k bytes is a stream.
LEMMA FromStream ==
  ASSUME rxbuf \in Seq(Byte), NEW k \in Nat \ {0}, NEW f, Stream(rxbuf, f)
  PROVE  Stream(From(k), f)
BY FromEnd, EndOfStream

\* Between reads all there is is in rxbuf.
LEMMA NothingRead ==
  ASSUME rxbuf \in Seq(Byte), chunk = <<>>
  PROVE  Unhandled = rxbuf
BY ConcatEmptySeq DEF Unhandled

\* Nothing has come yet.
LEMMA StartGnss == GnssInit => GnssInv
<1> SUFFICES ASSUME GnssInit PROVE GnssInv
  OBVIOUS
<1>1. /\ chunk = <<>> /\ rxbuf = <<>> /\ pos = 1 /\ at = "read" /\ gps_timeout = 0
      /\ emitted = "nothing" /\ parsed = "nothing" /\ harmed = TRUE
      /\ gps_data = [position |-> NoPosition, status |-> NoPosition]
  BY DEF GnssInit
<1>2. feed \in Feed /\ feed.byte = Dollar
  BY DEF GnssInit, Feed, Byte, Text, Talks
<1>3. chunk \in Seq(Byte) /\ Len(chunk) = 0 /\ rxbuf \in Seq(Byte) /\ Len(rxbuf) = 0
  BY <1>1
<1>4. /\ 0 <= BURST /\ 0 < RXBUF /\ 1 \in 1..RXBUF /\ 0 \in 0..GLL_MAX
  BY GnssAssumption DEF GnssAssumption
<1>5. GnssTypeOK
  BY <1>1, <1>2, <1>3, <1>4 DEF GnssTypeOK, Feed, Epochs
<1>6. Unhandled = rxbuf
  BY <1>1, <1>3, NothingRead
<1>7. Stream(Unhandled, feed)
  BY <1>2, <1>3, <1>6 DEF Stream, FeedFollows
<1> QED
  BY <1>1, <1>5, <1>7 DEF GnssInv, EpochTrue

\* The poll callback.
LEMMA ArriveKeeps ==
  ASSUME GnssInv, Arrive
  PROVE  GnssInv'
<1>1. /\ at = "read" /\ Len(chunk) < BURST /\ chunk' = Append(chunk, feed.byte)
      /\ feed' \in Following(feed) /\ emitted' = "nothing" /\ at' = at
      /\ UNCHANGED <<rxbuf, pos, gps_data, gps_timeout, parsed, harmed>>
  BY DEF Arrive
<1>2. GnssTypeOK /\ feed \in Feed /\ feed.byte \in Byte /\ Stream(Unhandled, feed)
  BY DEF GnssInv, GnssTypeOK, Feed
<1>3. rxbuf \in Seq(Byte) /\ chunk \in Seq(Byte) /\ <<feed.byte>> \in Seq(Byte)
  BY <1>2 DEF GnssTypeOK
<1>4. /\ chunk' \in Seq(Byte) /\ Len(chunk') = Len(chunk) + 1
      /\ Len(chunk) \in Nat /\ BURST \in Nat
  BY <1>1, <1>2, <1>3, AppendProperties, LenProperties, GnssAssumption DEF GnssAssumption
<1>5. Unhandled \in Seq(Byte)
  BY <1>3, ConcatProperties DEF Unhandled
<1>6. Unhandled' = Append(Unhandled, feed.byte)
  <2>1. Append(chunk, feed.byte) = chunk \o <<feed.byte>>
    BY <1>2, <1>3, AppendIsConcat
  <2>2. Append(Unhandled, feed.byte) = Unhandled \o <<feed.byte>>
    BY <1>2, <1>5, AppendIsConcat
  <2>3. (rxbuf \o chunk) \o <<feed.byte>> = rxbuf \o (chunk \o <<feed.byte>>)
    BY <1>3, ConcatAssociative
  <2> QED
    BY <1>1, <2>1, <2>2, <2>3 DEF Unhandled
<1>7. feed' \in Feed /\ Stream(Unhandled', feed')
  BY <1>1, <1>2, <1>5, <1>6, LongerStream
<1>8. GnssTypeOK'
  BY <1>1, <1>2, <1>4, <1>7 DEF GnssTypeOK, Feed
<1>9. ~harmed' => Last' \in Text /\ Continues(Unhandled', feed', Last')
  <2> SUFFICES ASSUME ~harmed'
               PROVE  Last' \in Text /\ Continues(Unhandled', feed', Last')
    OBVIOUS
  <2>1. Last \in Text /\ Continues(Unhandled, feed, Last) /\ Last' = Last
    BY <1>1 DEF GnssInv, Last
  <2> QED
    BY <1>1, <1>2, <1>5, <1>6, <2>1, LongerContinues
<1>10. Stream(Unhandled, feed)'
  BY <1>7 DEF Stream, FeedFollows
<1>11. (~harmed => Last \in Text /\ Continues(Unhandled, feed, Last))'
  BY <1>9 DEF Continues
<1> QED
  BY <1>1, <1>8, <1>10, <1>11 DEF GnssInv, EpochTrue

\* The end of a read.
LEMMA ReadDoneKeeps ==
  ASSUME GnssInv, ReadDone
  PROVE  GnssInv'
<1>1. /\ at = "read" /\ chunk # <<>> /\ at' = "scan" /\ pos' = 1 /\ chunk' = <<>>
      /\ emitted' = "nothing" /\ harmed' = (harmed \/ Overflows)
      /\ rxbuf' = IF Overflows THEN chunk ELSE Unhandled
      /\ UNCHANGED <<feed, gps_data, gps_timeout, parsed>>
  BY DEF ReadDone, ReadEnds, Unhandled
<1>2. /\ GnssTypeOK /\ Stream(Unhandled, feed)
      /\ rxbuf \in Seq(Byte) /\ chunk \in Seq(Byte) /\ Len(chunk) <= BURST
  BY DEF GnssInv, GnssTypeOK
<1>3. /\ Len(rxbuf) \in Nat /\ Len(chunk) \in Nat /\ RXBUF \in Nat /\ BURST \in 1..(RXBUF - 1)
  BY <1>2, LenProperties, GnssAssumption DEF GnssAssumption
<1>4. /\ Unhandled \in Seq(Byte) /\ Len(Unhandled) = Len(rxbuf) + Len(chunk)
      /\ \A i \in 1..(Len(rxbuf) + Len(chunk)) :
            Unhandled[i] = IF i <= Len(rxbuf) THEN rxbuf[i] ELSE chunk[i - Len(rxbuf)]
  BY <1>2, ConcatProperties DEF Unhandled
<1>5. Stream(chunk, feed)
  <2>1. ASSUME NEW i \in 1..Len(chunk)
        PROVE  chunk[i] = Unhandled[Len(Unhandled) - Len(chunk) + i]
    <3>1. /\ Len(rxbuf) + i \in 1..(Len(rxbuf) + Len(chunk)) /\ ~(Len(rxbuf) + i <= Len(rxbuf))
          /\ Len(rxbuf) + i - Len(rxbuf) = i /\ Len(Unhandled) - Len(chunk) + i = Len(rxbuf) + i
      BY <1>3, <1>4
    <3>2. Unhandled[Len(rxbuf) + i] = chunk[Len(rxbuf) + i - Len(rxbuf)]
      BY <1>4, <3>1
    <3> QED
      BY <3>1, <3>2
  <2>2. Len(chunk) <= Len(Unhandled)
    BY <1>3, <1>4
  <2> QED
    BY <1>2, <1>4, <2>1, <2>2, EndOfStream
<1>6. rxbuf' \in Seq(Byte) /\ Len(rxbuf') < RXBUF /\ Len(rxbuf') \in Nat /\ 1 + Len(rxbuf') <= RXBUF
  <2>1. CASE Overflows
    BY <1>1, <1>2, <1>3, <2>1
  <2>2. CASE ~Overflows
    BY <1>1, <1>3, <1>4, <2>2 DEF Overflows
  <2> QED
    BY <2>1, <2>2
<1>7. Unhandled' = rxbuf'
  BY <1>1, <1>6, ConcatEmptySeq DEF Unhandled
<1>8. Stream(Unhandled', feed')
  BY <1>1, <1>2, <1>5, <1>7
<1>9. GnssTypeOK'
  <2>1. chunk' \in Seq(Byte) /\ Len(chunk') = 0 /\ 0 <= BURST /\ 1 \in 1..RXBUF
    BY <1>1, <1>3
  <2>2. harmed' \in BOOLEAN
    BY <1>1, <1>2 DEF GnssTypeOK
  <2> QED
    BY <1>1, <1>2, <1>6, <2>1, <2>2 DEF GnssTypeOK
<1>10. ~harmed' => Last' \in Text /\ Continues(Unhandled', feed', Last')
  <2> SUFFICES ASSUME ~harmed'
               PROVE  Last' \in Text /\ Continues(Unhandled', feed', Last')
    OBVIOUS
  <2>1. ~harmed /\ Unhandled' = Unhandled /\ feed' = feed /\ Last' = Last
    BY <1>1, <1>7 DEF Last
  <2> QED
    BY <2>1 DEF GnssInv
<1>11. Stream(Unhandled, feed)' /\ (~harmed => Last \in Text /\ Continues(Unhandled, feed, Last))'
  BY <1>8, <1>10 DEF Stream, FeedFollows, Continues
<1> QED
  BY <1>1, <1>6, <1>9, <1>11 DEF GnssInv, EpochTrue

\* A read that fails moves the buffer by a pos that is out of date.
LEMMA ReadFailsKeeps ==
  ASSUME GnssInv, ReadFails
  PROVE  GnssInv'
<1>1. /\ at = "read" /\ chunk = <<>> /\ rxbuf' = From(pos) /\ emitted' = "nothing"
      /\ harmed' = (harmed \/ rxbuf' # rxbuf)
      /\ pos' = (IF rxbuf' = <<>> THEN 1 ELSE pos)
      /\ UNCHANGED <<feed, chunk, at, gps_data, gps_timeout, parsed>>
  BY DEF ReadFails, TimesOut
<1>2. GnssTypeOK /\ Stream(Unhandled, feed) /\ rxbuf \in Seq(Byte) /\ pos \in Nat \ {0}
  BY GnssAssumption DEF GnssInv, GnssTypeOK, GnssAssumption
<1>3. Unhandled = rxbuf
  BY <1>1, <1>2, NothingRead
<1>4. rxbuf' \in Seq(Byte) /\ Len(rxbuf') \in Nat /\ Len(rxbuf') <= Len(rxbuf)
  BY <1>1, <1>2, FromEnd
<1>5. Stream(rxbuf', feed)
  BY <1>1, <1>2, <1>3, FromStream
<1>6. Unhandled' = rxbuf'
  BY <1>1, <1>4, ConcatEmptySeq DEF Unhandled
<1>7. GnssTypeOK'
  <2>1. Len(rxbuf) \in Nat /\ RXBUF \in Nat /\ Len(rxbuf) < RXBUF /\ harmed' \in BOOLEAN
    BY <1>1, <1>2, LenProperties, GnssAssumption DEF GnssTypeOK, GnssAssumption
  <2>2. Len(rxbuf') < RXBUF /\ pos' \in 1..RXBUF
    BY <1>1, <1>2, <1>4, <2>1 DEF GnssTypeOK
  <2> QED
    BY <1>1, <1>2, <1>4, <2>1, <2>2 DEF GnssTypeOK
<1>8. ~harmed' => Last' \in Text /\ Continues(Unhandled', feed', Last')
  <2> SUFFICES ASSUME ~harmed'
               PROVE  Last' \in Text /\ Continues(Unhandled', feed', Last')
    OBVIOUS
  <2>1. ~harmed /\ Unhandled' = Unhandled /\ feed' = feed /\ Last' = Last
    BY <1>1, <1>3, <1>6 DEF Last
  <2> QED
    BY <2>1 DEF GnssInv
<1>9. Stream(Unhandled', feed')
  BY <1>1, <1>5, <1>6
<1>10. Stream(Unhandled, feed)' /\ (~harmed => Last \in Text /\ Continues(Unhandled, feed, Last))'
  BY <1>8, <1>9 DEF Stream, FeedFollows, Continues
<1> QED
  BY <1>1, <1>7, <1>10 DEF GnssInv, EpochTrue

\* The loop ends with an unfinished line.
LEMMA ScanEndKeeps ==
  ASSUME GnssInv, ScanEnd
  PROVE  GnssInv'
<1>1. /\ at' = "read" /\ emitted' = "nothing" /\ pos' \in {1, pos}
      /\ UNCHANGED <<feed, chunk, rxbuf, gps_data, gps_timeout, parsed, harmed>>
  BY DEF ScanEnd
<1>2. GnssTypeOK'
  BY <1>1, GnssAssumption DEF GnssInv, GnssTypeOK, GnssAssumption
<1>3. Stream(Unhandled, feed)' /\ (~harmed => Last \in Text /\ Continues(Unhandled, feed, Last))'
  BY <1>1 DEF GnssInv, Unhandled, Stream, FeedFollows, Last, Continues
<1> QED
  BY <1>1, <1>2, <1>3 DEF GnssInv, EpochTrue

\* The first k bytes are handled.
LEMMA HandledKeeps ==
  ASSUME GnssInv, at = "scan", at' = at, chunk' = chunk, feed' = feed,
         NEW k \in 1..Len(rxbuf), Handled(k)
  PROVE  /\ chunk = <<>> /\ Unhandled = rxbuf /\ Unhandled' = rxbuf'
         /\ rxbuf' \in Seq(Byte) /\ Len(rxbuf') = Len(rxbuf) - k
         /\ \A i \in 1..Len(rxbuf') : rxbuf'[i] = rxbuf[k + i]
         /\ Len(rxbuf') < RXBUF /\ pos' \in 1..RXBUF /\ pos' + Len(rxbuf') <= RXBUF
         /\ Stream(Unhandled, feed)'
<1>1. /\ chunk = <<>> /\ pos + Len(rxbuf) <= RXBUF /\ rxbuf \in Seq(Byte)
      /\ Len(rxbuf) < RXBUF /\ pos \in 1..RXBUF /\ Stream(Unhandled, feed)
      /\ RXBUF \in Nat /\ Len(rxbuf) \in Nat
  BY LenProperties, GnssAssumption DEF GnssInv, GnssTypeOK, GnssAssumption
<1>2. rxbuf' = From(k + 1) /\ pos' = pos + k /\ k \in Nat /\ k + 1 \in Nat \ {0} /\ (k + 1) - 1 = k
  BY <1>1 DEF Handled
<1>3. /\ rxbuf' \in Seq(Byte) /\ Len(rxbuf') = Len(rxbuf) - k
      /\ \A i \in 1..Len(rxbuf') : rxbuf'[i] = rxbuf[k + i]
  <2> DEFINE m == k + 1
  <2>1. m \in Nat \ {0} /\ m - 1 = k /\ rxbuf' = From(m) /\ k <= Len(rxbuf)
    BY <1>1, <1>2
  <2> HIDE DEF m
  <2>2. /\ From(m) \in Seq(Byte)
        /\ m - 1 <= Len(rxbuf) => Len(From(m)) = Len(rxbuf) - (m - 1)
        /\ \A i \in 1..Len(From(m)) : From(m)[i] = rxbuf[(m - 1) + i]
    BY <1>1, <2>1, FromEnd
  <2> QED
    BY <2>1, <2>2
<1>4. Unhandled = rxbuf /\ Unhandled' = rxbuf'
  BY <1>1, <1>3, ConcatEmptySeq DEF Unhandled
<1>5. Stream(rxbuf', feed)
  BY <1>1, <1>2, <1>4, FromStream
<1>6. Stream(Unhandled, feed)'
  BY <1>4, <1>5 DEF Stream, FeedFollows
<1>7. Len(rxbuf') < RXBUF /\ pos' \in 1..RXBUF /\ pos' + Len(rxbuf') <= RXBUF
  BY <1>1, <1>2, <1>3
<1> QED
  BY <1>1, <1>3, <1>4, <1>6, <1>7

\* A byte that begins no sentence: the reader was out of step.
LEMMA ScanSkipKeeps ==
  ASSUME GnssInv, ScanSkip
  PROVE  GnssInv'
<1>1. /\ at = "scan" /\ Len(rxbuf) > 1 /\ ~InSync /\ Handled(1) /\ emitted' = "nothing"
      /\ UNCHANGED <<feed, chunk, at, gps_data, gps_timeout, parsed, harmed>>
  BY DEF ScanSkip
<1>2. 1 \in 1..Len(rxbuf)
  BY <1>1, LenProperties DEF GnssInv, GnssTypeOK
<1>3. /\ chunk = <<>> /\ Unhandled = rxbuf
      /\ rxbuf' \in Seq(Byte) /\ Len(rxbuf') < RXBUF
      /\ pos' \in 1..RXBUF /\ pos' + Len(rxbuf') <= RXBUF
      /\ Stream(Unhandled, feed)'
  BY <1>1, <1>2, HandledKeeps
<1>4. harmed
  <2> SUFFICES ASSUME ~harmed PROVE FALSE
    OBVIOUS
  <2>1. Last \in Text /\ Continues(rxbuf, feed, Last)
    BY <1>3 DEF GnssInv
  <2>2. rxbuf[1] = Dollar /\ rxbuf[2] \in After(Last) /\ Len(rxbuf) > 0
    BY <1>1, <1>2, <2>1 DEF Continues
  <2> QED
    BY <1>1, <2>1, <2>2, AfterType DEF InSync
<1>5. GnssTypeOK'
  BY <1>1, <1>3 DEF GnssInv, GnssTypeOK
<1> QED
  BY <1>1, <1>3, <1>4, <1>5 DEF GnssInv, EpochTrue

\* A line.  Undamaged it is the sentence that was due, or the RMC that begins anew.
LEMMA ScanLineKeeps ==
  ASSUME GnssInv, ScanLine
  PROVE  GnssInv'
<1> DEFINE text == rxbuf[2]
<1>1. PICK e \in LineEnd : Handled(e) /\ Parse(SubSeq(rxbuf, 1, e))
  BY DEF ScanLine
<1>2. /\ at = "scan" /\ InSync /\ Emit(text[1]) /\ UNCHANGED <<feed, chunk, at>>
      /\ e \in 1..Len(rxbuf) /\ rxbuf[e] = Newline /\ \A k \in 1..(e - 1) : rxbuf[k] # Newline
  BY DEF ScanLine, LineEnd
<1>3. /\ GnssTypeOK /\ rxbuf \in Seq(Byte) /\ Len(rxbuf) \in Nat /\ feed \in Feed
      /\ Len(rxbuf) > 1 /\ rxbuf[1] = Dollar /\ text \in Text /\ text[1] \in Talks
      /\ text[2] \in Epochs /\ text = <<text[1], text[2]>>
  BY <1>2, LenProperties, TextType DEF GnssInv, GnssTypeOK, InSync, Feed
<1>4. /\ chunk = <<>> /\ Unhandled = rxbuf /\ Unhandled' = rxbuf' /\ Stream(Unhandled, feed)
      /\ rxbuf' \in Seq(Byte) /\ Len(rxbuf') = Len(rxbuf) - e
      /\ \A i \in 1..Len(rxbuf') : rxbuf'[i] = rxbuf[e + i]
      /\ Len(rxbuf') < RXBUF /\ pos' \in 1..RXBUF /\ pos' + Len(rxbuf') <= RXBUF
      /\ Stream(Unhandled, feed)'
  BY <1>1, <1>2, HandledKeeps DEF GnssInv
<1> DEFINE line == SubSeq(rxbuf, 1, e)
<1>5. e \in Nat /\ e > 2 /\ Len(line) = e /\ line[2] = text
  <2>1. e # 1 /\ e # 2
    BY <1>2, <1>3, BytesDiffer
  <2>2. e \in Nat /\ e > 2 /\ \A i \in 1..e : rxbuf[i] \in Byte
    BY <1>2, <1>3, <2>1, ElementOfSeq
  <2>3. Len(line) = e /\ \A i \in 1..e : line[i] = rxbuf[i]
    BY <2>2, SubSeqProperties
  <2> QED
    BY <2>2, <2>3
<1> HIDE DEF line, text
<1>6. Parse(line)
  BY <1>1 DEF line
<1>7. CASE ~Checked(line)
  <2>1. UNCHANGED <<gps_data, parsed>> /\ harmed' = TRUE
    BY <1>6, <1>7 DEF Parse
  <2>2. emitted' \in {"nothing", "data", "timeout"} /\ gps_timeout' \in 0..GLL_MAX
    BY <1>2, <1>3, GnssAssumption DEF Emit, GnssTypeOK, GnssAssumption
  <2>3. GnssTypeOK'
    BY <1>2, <1>3, <1>4, <2>1, <2>2 DEF GnssTypeOK
  <2> QED
    BY <1>2, <1>4, <2>1, <2>3 DEF GnssInv, EpochTrue
<1>8. CASE Checked(line)
  <2>1. e = 3 /\ rxbuf[3] = Newline
    BY <1>2, <1>5, <1>8 DEF Checked
  <2>2. /\ gps_data' = CASE text[1] = "RMC" -> [gps_data EXCEPT !.position = text[2]]
                          [] text[1] = "GGA" -> [gps_data EXCEPT !.status = text[2]]
                          [] OTHER -> gps_data
        /\ parsed' = text[1] /\ harmed' = (harmed /\ text[1] # "RMC")
    BY <1>5, <1>6, <1>8 DEF Parse
  <2>3. gps_data \in [position : Epochs, status : Epochs]
    BY <1>3 DEF GnssTypeOK
  <2>4. /\ gps_data' \in [position : Epochs, status : Epochs]
        /\ text[1] = "RMC" => gps_data'.position = text[2]
        /\ text[1] # "RMC" => gps_data'.position = gps_data.position
        /\ text[1] = "GGA" => gps_data'.status = text[2]
    BY <1>3, <2>2, <2>3 DEF Talks
  <2>5. /\ emitted' \in {"nothing", "data", "timeout"} /\ gps_timeout' \in 0..GLL_MAX
        /\ emitted' = "data" => text[1] = "GGA"
    BY <1>2, <1>3, GnssAssumption DEF Emit, GnssTypeOK, GnssAssumption
  <2>6. harmed' \in BOOLEAN
    BY <1>3, <2>2 DEF GnssTypeOK
  <2>7. GnssTypeOK'
    BY <1>2, <1>3, <1>4, <2>2, <2>4, <2>5, <2>6 DEF GnssTypeOK
  <2>8. ASSUME ~harmed', text[1] # "RMC"
        PROVE  text[2] = gps_data.position
    <3>1. ~harmed
      BY <2>2, <2>8
    <3>2. Last \in Text /\ text \in After(Last)
      BY <1>3, <1>4, <3>1 DEF GnssInv, Continues, text
    <3>3. Last[2] = gps_data.position
      BY DEF Last
    <3> QED
      BY <2>8, <3>2, <3>3, AfterType
  <2>9. ~harmed' => Last' = text
    BY <1>3, <2>2, <2>4, <2>8 DEF Last
  <2>10. Continues(rxbuf', feed, text)
    <3> DEFINE n == Len(rxbuf')
    <3>1. n \in Nat /\ Len(rxbuf) = n + 3 /\ \A i \in 1..n : rxbuf'[i] = rxbuf[3 + i]
      BY <1>3, <1>4, <2>1, LenProperties
    <3>2. Stream(rxbuf, feed)
      BY <1>4
    <3> HIDE DEF n
    <3>3. n \in Nat /\ Len(rxbuf') = n
      BY <3>1 DEF n
    <3> QED
      BY <1>3, <1>4, <2>1, <3>1, <3>2, <3>3, NextSentence DEF text
  <2>11. (~harmed => Last \in Text /\ Continues(Unhandled, feed, Last))'
    <3>1. feed' = feed
      BY <1>2
    <3>2. ~harmed' => Last' \in Text /\ Continues(Unhandled', feed', Last')
      BY <1>3, <1>4, <2>9, <2>10, <3>1
    <3> QED
      BY <3>2 DEF Continues
  <2>12. EpochTrue'
    BY <2>4, <2>5, <2>8 DEF EpochTrue
  <2> QED
    BY <1>2, <1>4, <2>7, <2>11, <2>12 DEF GnssInv
<1> QED
  BY <1>7, <1>8

\* GnssInv is inductive.
LEMMA StepGnss == GnssInv /\ [GnssNext]_gnssVars => GnssInv'
<1> SUFFICES ASSUME GnssInv, [GnssNext]_gnssVars PROVE GnssInv'
  OBVIOUS
<1>1. CASE UNCHANGED gnssVars
  <2>1. UNCHANGED <<feed, chunk, rxbuf, pos, at, gps_data, gps_timeout, emitted, parsed, harmed>>
    BY <1>1 DEF gnssVars
  <2>2. GnssTypeOK' /\ EpochTrue' /\ (at = "scan" => chunk = <<>> /\ pos + Len(rxbuf) <= RXBUF)'
    BY <2>1 DEF GnssInv, GnssTypeOK, EpochTrue
  <2>3. Stream(Unhandled, feed)'
    BY <2>1 DEF GnssInv, Unhandled, Stream, FeedFollows
  <2>4. (~harmed => Last \in Text /\ Continues(Unhandled, feed, Last))'
    BY <2>1 DEF GnssInv, Unhandled, Last, Continues
  <2> QED
    BY <2>2, <2>3, <2>4 DEF GnssInv
<1> QED
  BY <1>1, ArriveKeeps, ReadDoneKeeps, ReadFailsKeeps, ScanEndKeeps, ScanSkipKeeps,
     ScanLineKeeps DEF GnssNext, Scan

\* So it always holds.
LEMMA InductiveGnss == GnssSpec => []GnssInv
BY StartGnss, StepGnss, PTL DEF GnssSpec

\* SerialPort:read and gnss_coro_body keep the buffer and its indices within
\* rxbuf.length, also when a read fails and moves it once more.
THEOREM GnssTypeCorrect == GnssSpec => []GnssTypeOK
<1>1. GnssInv => GnssTypeOK
  BY DEF GnssInv
<1> QED
  BY InductiveGnss, <1>1, PTL

\* emit("data"): coordinates and status are of one epoch unless bytes were lost or
\* damaged since the last RMC.
THEOREM PositionIsOfItsEpoch == GnssSpec => []EpochTrue
<1>1. GnssInv => EpochTrue
  BY DEF GnssInv
<1> QED
  BY InductiveGnss, <1>1, PTL

\* The loop over rxbuf: every round takes bytes out of it, or ends the loop and leaves the
\* rest; it begins only when a read is done.
ScanWearsOut ==
    [][ /\ at = "scan" => \/ at' = "scan" /\ Len(rxbuf') < Len(rxbuf)
                          \/ at' = "read" /\ rxbuf' = rxbuf
        /\ at = "read" /\ at' = "scan" => ReadDone ]_gnssVars

LEMMA HandledShrinks ==
  ASSUME GnssInv, NEW k \in 1..Len(rxbuf), Handled(k)
  PROVE  Len(rxbuf') < Len(rxbuf)
<1>1. rxbuf \in Seq(Byte) /\ Len(rxbuf) \in Nat /\ k + 1 \in Nat \ {0} /\ (k + 1) - 1 = k
  BY LenProperties DEF GnssInv, GnssTypeOK
<1>2. Len(From(k + 1)) = Len(rxbuf) - k
  BY <1>1, FromEnd
<1> QED
  BY <1>1, <1>2 DEF Handled

\* gnss_coro_body's loop comes to its end after at most Len(rxbuf) lines and bytes skipped,
\* whatever stands in the buffer.
THEOREM ScanComesToEnd == GnssSpec => ScanWearsOut
<1>1. ASSUME GnssInv, GnssNext
      PROVE  /\ at = "scan" => \/ at' = "scan" /\ Len(rxbuf') < Len(rxbuf)
                               \/ at' = "read" /\ rxbuf' = rxbuf
             /\ at = "read" /\ at' = "scan" => ReadDone
  <2>1. CASE Arrive \/ ReadFails
    BY <2>1 DEF Arrive, ReadFails, TimesOut
  <2>2. CASE ReadDone
    BY <2>2 DEF ReadDone, ReadEnds
  <2>3. CASE ScanEnd
    BY <2>3 DEF ScanEnd
  <2>4. CASE ScanSkip
    <3>1. at = "scan" /\ at' = "scan" /\ Handled(1) /\ Len(rxbuf) > 1 /\ Len(rxbuf) \in Nat
      BY <1>1, <2>4, LenProperties DEF ScanSkip, GnssInv, GnssTypeOK
    <3> QED
      BY <1>1, <3>1, HandledShrinks
  <2>5. CASE ScanLine
    <3>1. PICK e \in LineEnd : Handled(e)
      BY <2>5 DEF ScanLine
    <3>2. at = "scan" /\ at' = "scan" /\ e \in 1..Len(rxbuf)
      BY <2>5 DEF ScanLine, LineEnd
    <3> QED
      BY <1>1, <3>1, <3>2, HandledShrinks
  <2> QED
    BY <1>1, <2>1, <2>2, <2>3, <2>4, <2>5 DEF GnssNext, Scan
<1> QED
  BY <1>1, InductiveGnss, PTL DEF GnssSpec, ScanWearsOut

(***************************************************************************)
(* The sentences that are whole in a sequence of bytes.  Whole is          *)
(* recursive: that the recursion has a solution, and what it gives for     *)
(* longer and for shorter sequences, is shown by induction over the bytes, *)
(* which is nothing but the least number of a set of numbers.              *)
(***************************************************************************)
\* Every set of numbers that is not empty has a least one.
LEMMA LeastNat ==
  ASSUME NEW T, T \subseteq Nat, T # {}
  PROVE  \E x \in T : \A y \in T : x <= y
<1> DEFINE R == OpToRel(<, Nat)
<1>1. IsWellFoundedOn(R, Nat)
  BY NatLessThanWellFounded
<1>2. \A x, y \in Nat : x < y => <<x, y>> \in R
  BY DEF OpToRel
<1> HIDE DEF R
<1>3. PICK x \in T : \A y \in T : ~(<<y, x>> \in R)
  BY <1>1, WFMin
<1>4. ASSUME NEW y \in T PROVE x <= y
  <2>1. x \in Nat /\ y \in Nat
    OBVIOUS
  <2>2. ~(y < x)
    BY <1>2, <1>3, <2>1
  <2> QED
    BY <2>1, <2>2
<1> QED
  BY <1>4

\* Induction over 0..n, for a property given as a set.
LEMMA UpTo ==
  ASSUME NEW n \in Nat, NEW T, 0 \in T, \A k \in 1..n : k - 1 \in T => k \in T
  PROVE  0..n \subseteq T
<1> DEFINE B == (0..n) \ T
<1>1. SUFFICES ASSUME B # {} PROVE FALSE
  OBVIOUS
<1>2. PICK x \in B : \A y \in B : x <= y
  <2>1. B \subseteq Nat
    OBVIOUS
  <2> HIDE DEF B
  <2> QED
    BY <1>1, <2>1, LeastNat
<1>3. x \in 1..n /\ x - 1 \in 0..n /\ ~(x <= x - 1)
  BY <1>2
<1>4. x - 1 \in T
  BY <1>2, <1>3
<1> QED
  BY <1>2, <1>3, <1>4

\* What an element of WholeUpTo is made from.
UpStep(s, up, n) ==
    IF n = 0 THEN <<>>
    ELSE IF WholeAt(s, n) THEN Append(up[n - 1], s[n - 1][1]) ELSE up[n - 1]

\* The recursion has a solution.
LEMMA UpExists ==
  ASSUME NEW s \in Seq(Byte)
  PROVE  \E up : up = [n \in 0..Len(s) |-> UpStep(s, up, n)]
<1> DEFINE T == {m \in 0..Len(s) : \E up : up = [n \in 0..m |-> UpStep(s, up, n)]}
<1>1. Len(s) \in Nat
  BY LenProperties
<1>2. 0 \in T
  <2>1. [n \in 0..0 |-> <<>>] = [n \in 0..0 |-> UpStep(s, [k \in 0..0 |-> <<>>], n)]
    BY DEF UpStep
  <2> QED
    BY <1>1, <2>1
<1>3. ASSUME NEW m \in 1..Len(s), m - 1 \in T
      PROVE  m \in T
  <2>1. PICK up : up = [n \in 0..(m - 1) |-> UpStep(s, up, n)]
    BY <1>3
  <2> DEFINE new == [n \in 0..m |-> IF n = m THEN UpStep(s, up, n) ELSE up[n]]
  <2>2. \A n \in 0..m : n # m => n \in 0..(m - 1)
    BY <1>1
  <2>3. ASSUME NEW n \in 0..m PROVE UpStep(s, new, n) = new[n]
    <3>1. UpStep(s, new, n) = UpStep(s, up, n)
      <4>1. n # 0 => n - 1 \in 0..m /\ n - 1 # m
        BY <1>1
      <4> QED
        BY <4>1 DEF UpStep
    <3> QED
      BY <2>1, <2>2, <3>1
  <2>4. new = [n \in 0..m |-> UpStep(s, new, n)]
    BY <2>3
  <2> HIDE DEF new
  <2> QED
    BY <1>1, <2>4
<1>4. 0..Len(s) \subseteq T
  BY <1>1, <1>2, <1>3, UpTo
<1> QED
  BY <1>1, <1>4

\* So WholeUpTo is one.
LEMMA UpDefined ==
  ASSUME NEW s \in Seq(Byte)
  PROVE  /\ WholeUpTo(s)[0] = <<>>
         /\ \A n \in 1..Len(s) :
               WholeUpTo(s)[n] = IF WholeAt(s, n) THEN Append(WholeUpTo(s)[n - 1], s[n - 1][1])
                                                  ELSE WholeUpTo(s)[n - 1]
<1>1. Len(s) \in Nat
  BY LenProperties
<1>2. WholeUpTo(s) = CHOOSE up : up = [n \in 0..Len(s) |-> UpStep(s, up, n)]
  BY DEF WholeUpTo, UpStep
<1>3. WholeUpTo(s) = [n \in 0..Len(s) |-> UpStep(s, WholeUpTo(s), n)]
  BY <1>2, UpExists
<1>4. \A n \in 0..Len(s) : WholeUpTo(s)[n] = UpStep(s, WholeUpTo(s), n)
  BY <1>3
<1> QED
  BY <1>1, <1>4 DEF UpStep

\* It is a sequence of kinds of sentences, no more than there are bytes.
LEMMA UpType ==
  ASSUME NEW s \in Seq(Byte), NEW m \in 0..Len(s)
  PROVE  WholeUpTo(s)[m] \in Seq(Talks) /\ Len(WholeUpTo(s)[m]) <= m
<1> DEFINE up == WholeUpTo(s)
           T == {n \in 0..Len(s) : up[n] \in Seq(Talks) /\ Len(up[n]) <= n}
<1>1. Len(s) \in Nat
  BY LenProperties
<1>2. /\ up[0] = <<>>
      /\ \A n \in 1..Len(s) :
            up[n] = IF WholeAt(s, n) THEN Append(up[n - 1], s[n - 1][1]) ELSE up[n - 1]
  BY UpDefined
<1> HIDE DEF up
<1>3. 0 \in T
  <2>1. up[0] \in Seq(Talks) /\ Len(up[0]) = 0
    BY <1>2
  <2> QED
    BY <1>1, <2>1
<1>4. ASSUME NEW n \in 1..Len(s), n - 1 \in T
      PROVE  n \in T
  <2>1. up[n - 1] \in Seq(Talks) /\ Len(up[n - 1]) <= n - 1 /\ Len(up[n - 1]) \in Nat
    BY <1>4, LenProperties
  <2>2. CASE WholeAt(s, n)
    <3>1. s[n - 1][1] \in Talks
      BY <2>2, TextType DEF WholeAt
    <3>2. up[n] = Append(up[n - 1], s[n - 1][1])
      BY <1>2, <2>2
    <3>3. up[n] \in Seq(Talks) /\ Len(up[n]) = Len(up[n - 1]) + 1
      BY <2>1, <3>1, <3>2, AppendProperties
    <3> QED
      BY <1>1, <2>1, <3>3
  <2>3. CASE ~WholeAt(s, n)
    BY <1>1, <1>2, <2>1, <2>3
  <2> QED
    BY <2>2, <2>3
<1>5. m \in T
  <2> HIDE DEF T
  <2>1. 0..Len(s) \subseteq T
    BY <1>1, <1>3, <1>4, UpTo
  <2> QED
    BY <1>1, <2>1
<1> QED
  BY <1>5 DEF up

LEMMA WholeType ==
  ASSUME NEW s \in Seq(Byte)
  PROVE  Whole(s) \in Seq(Talks) /\ Len(Whole(s)) <= Len(s)
<1>1. Len(s) \in 0..Len(s)
  BY LenProperties
<1> QED
  BY <1>1, UpType DEF Whole

\* Sequences that begin alike, up to m, have the same sentences there.
LEMMA SameBeginning ==
  ASSUME NEW s \in Seq(Byte), NEW t \in Seq(Byte), NEW m \in 0..Len(s), m <= Len(t),
         \A i \in 1..m : t[i] = s[i]
  PROVE  WholeUpTo(t)[m] = WholeUpTo(s)[m]
<1> DEFINE us == WholeUpTo(s)
           ut == WholeUpTo(t)
           T == {n \in 0..m : ut[n] = us[n]}
<1>1. Len(s) \in Nat /\ Len(t) \in Nat /\ m \in Nat
  BY LenProperties
<1>2. us[0] = ut[0]
  BY UpDefined
<1>3. ASSUME NEW n \in 1..m
      PROVE  /\ us[n] = IF WholeAt(s, n) THEN Append(us[n - 1], s[n - 1][1]) ELSE us[n - 1]
             /\ ut[n] = IF WholeAt(t, n) THEN Append(ut[n - 1], t[n - 1][1]) ELSE ut[n - 1]
  <2>1. n \in 1..Len(s) /\ n \in 1..Len(t)
    BY <1>1
  <2> QED
    BY <2>1, UpDefined
<1> HIDE DEF us, ut
<1>4. 0 \in T
  BY <1>1, <1>2
<1>5. ASSUME NEW n \in 1..m, n - 1 \in T
      PROVE  n \in T
  <2>1. WholeAt(t, n) <=> WholeAt(s, n)
    BY <1>1 DEF WholeAt
  <2>2. n > 1 => t[n - 1] = s[n - 1]
    BY <1>1
  <2>3. WholeAt(s, n) => n > 1
    BY DEF WholeAt
  <2> QED
    BY <1>1, <1>3, <1>5, <2>1, <2>2, <2>3
<1>6. m \in T
  <2> HIDE DEF T
  <2>1. 0..m \subseteq T
    BY <1>1, <1>4, <1>5, UpTo
  <2> QED
    BY <1>1, <2>1
<1> QED
  BY <1>6 DEF us, ut

\* A byte more is at most a sentence more.
LEMMA WholeAppend ==
  ASSUME NEW s \in Seq(Byte), NEW b \in Byte
  PROVE  \/ Whole(Append(s, b)) = Whole(s)
         \/ \E talk \in Talks : Whole(Append(s, b)) = Append(Whole(s), talk)
<1> DEFINE t == Append(s, b)
           n == Len(s)
<1>1. /\ n \in Nat /\ t \in Seq(Byte) /\ Len(t) = n + 1
      /\ \A i \in 1..n : t[i] = s[i]
  BY AppendProperties, LenProperties
<1> HIDE DEF t
<1>2. WholeUpTo(t)[n] = WholeUpTo(s)[n]
  BY <1>1, SameBeginning
<1>3. n + 1 \in 1..Len(t) /\ (n + 1) - 1 = n
  BY <1>1
<1>4. WholeUpTo(t)[n + 1] = IF WholeAt(t, n + 1) THEN Append(WholeUpTo(t)[n], t[n][1])
                                                 ELSE WholeUpTo(t)[n]
  <2>1. \A k \in 1..Len(t) :
               WholeUpTo(t)[k] = IF WholeAt(t, k) THEN Append(WholeUpTo(t)[k - 1], t[k - 1][1])
                                                  ELSE WholeUpTo(t)[k - 1]
    BY <1>1, UpDefined
  <2> QED
    BY <1>3, <2>1
<1>5. WholeAt(t, n + 1) => t[n][1] \in Talks
  BY <1>1, TextType DEF WholeAt
<1> QED
  BY <1>1, <1>2, <1>4, <1>5 DEF Whole, t

\* None ends up to m.
LEMMA NoneUpTo ==
  ASSUME NEW s \in Seq(Byte), NEW m \in 0..Len(s), \A k \in 1..m : ~WholeAt(s, k)
  PROVE  WholeUpTo(s)[m] = <<>>
<1> DEFINE up == WholeUpTo(s)
           T == {n \in 0..m : up[n] = <<>>}
<1>1. Len(s) \in Nat /\ m \in Nat
  BY LenProperties
<1>2. up[0] = <<>> /\ \A n \in 1..m : up[n] = up[n - 1]
  <2>1. \A n \in 1..m : n \in 1..Len(s)
    BY <1>1
  <2> QED
    BY <2>1, UpDefined
<1> HIDE DEF up
<1>3. 0 \in T /\ \A n \in 1..m : n - 1 \in T => n \in T
  BY <1>1, <1>2
<1>4. m \in T
  <2> HIDE DEF T
  <2>1. 0..m \subseteq T
    BY <1>1, <1>3, UpTo
  <2> QED
    BY <1>1, <2>1
<1> QED
  BY <1>4 DEF up

\* Only the one that ends with e does.
LEMMA OneUpTo ==
  ASSUME NEW s \in Seq(Byte), NEW m \in 0..Len(s), NEW e \in 1..m, WholeAt(s, e),
         \A k \in 1..m : WholeAt(s, k) => k = e
  PROVE  WholeUpTo(s)[m] = <<s[e - 1][1]>> /\ s[e - 1][1] \in Talks
<1> DEFINE up == WholeUpTo(s)
           c == s[e - 1][1]
           T == {n \in 0..m : n < e \/ up[n] = <<c>>}
<1>1. Len(s) \in Nat /\ m \in Nat /\ e \in Nat
  BY LenProperties
<1>2. \A n \in 1..m : up[n] = IF n = e THEN Append(up[n - 1], c) ELSE up[n - 1]
  <2>1. \A n \in 1..m : n \in 1..Len(s)
    BY <1>1
  <2> QED
    BY <2>1, UpDefined
<1>3. up[e - 1] = <<>>
  <2>1. e - 1 \in 0..Len(s) /\ \A k \in 1..(e - 1) : k \in 1..m /\ k # e
    BY <1>1
  <2>2. \A k \in 1..(e - 1) : ~WholeAt(s, k)
    BY <2>1
  <2> QED
    BY <2>1, <2>2, NoneUpTo
<1> HIDE DEF up, c
<1>4. up[e] = <<c>>
  <2>1. up[e] = Append(up[e - 1], c)
    BY <1>2
  <2> QED
    BY <1>3, <2>1
<1>5. 0 \in T
  BY <1>1
<1>6. ASSUME NEW n \in 1..m, n - 1 \in T
      PROVE  n \in T
  BY <1>1, <1>2, <1>4, <1>6
<1>7. m \in T
  <2> HIDE DEF T
  <2>1. 0..m \subseteq T
    BY <1>1, <1>5, <1>6, UpTo
  <2> QED
    BY <1>1, <2>1
<1>8. c \in Talks
  BY TextType DEF WholeAt, c
<1> QED
  BY <1>1, <1>7, <1>8 DEF up, c

\* Appending to the second part is appending to the whole.
LEMMA AppendBehind ==
  ASSUME NEW S, NEW x \in Seq(S), NEW y \in Seq(S), NEW c \in S
  PROVE  Append(x \o y, c) = x \o Append(y, c)
<1>1. x \o y \in Seq(S) /\ <<c>> \in Seq(S)
  BY ConcatProperties
<1>2. Append(y, c) = y \o <<c>> /\ Append(x \o y, c) = (x \o y) \o <<c>>
  BY <1>1, AppendIsConcat
<1>3. (x \o y) \o <<c>> = x \o (y \o <<c>>)
  BY <1>1, ConcatAssociative
<1> QED
  BY <1>2, <1>3

\* The sentences of a sequence are those that end within two bytes of a cut, and those
\* behind the cut.
LEMMA WholeSplit ==
  ASSUME NEW s \in Seq(Byte), NEW t \in Seq(Byte), NEW d \in Nat, Len(s) = d + Len(t),
         \A i \in 1..Len(t) : t[i] = s[d + i]
  PROVE  LET m == IF Len(t) > 1 THEN d + 2 ELSE Len(s)
         IN  m \in 0..Len(s) /\ Whole(s) = WholeUpTo(s)[m] \o Whole(t)
<1> DEFINE us == WholeUpTo(s)
           ut == WholeUpTo(t)
<1>1. Len(s) \in Nat /\ Len(t) \in Nat
  BY LenProperties
<1>2. \A n \in 0..Len(t) : n < 3 => ut[n] = <<>>
  <2> SUFFICES ASSUME NEW n \in 0..Len(t), n < 3 PROVE ut[n] = <<>>
    OBVIOUS
  <2>1. \A k \in 1..n : ~WholeAt(t, k)
    BY <1>1 DEF WholeAt
  <2> QED
    BY <2>1, NoneUpTo
<1>3. \A n \in 0..Len(s) : us[n] \in Seq(Talks)
  BY UpType
<1>4. \A n \in 0..Len(t) : ut[n] \in Seq(Talks)
  BY UpType
<1>5. \A n \in 1..Len(t) :
         ut[n] = IF WholeAt(t, n) THEN Append(ut[n - 1], t[n - 1][1]) ELSE ut[n - 1]
  BY UpDefined
<1>6. \A n \in 1..Len(s) :
         us[n] = IF WholeAt(s, n) THEN Append(us[n - 1], s[n - 1][1]) ELSE us[n - 1]
  BY UpDefined
<1>7. Whole(s) = us[Len(s)] /\ Whole(t) = ut[Len(t)]
  BY DEF Whole
<1>10. \A x, y \in Seq(Talks) : \A c \in Talks : Append(x \o y, c) = x \o Append(y, c)
  BY AppendBehind
<1> HIDE DEF us, ut
<1>8. CASE ~(Len(t) > 1)
  <2>1. Whole(t) = <<>> /\ Len(s) \in 0..Len(s)
    BY <1>1, <1>2, <1>7, <1>8
  <2>2. us[Len(s)] \o <<>> = us[Len(s)]
    BY <1>3, <2>1, ConcatEmptySeq
  <2> QED
    BY <1>7, <1>8, <2>1, <2>2 DEF us
<1>9. CASE Len(t) > 1
  <2> DEFINE cat(n) == us[d + 2] \o ut[n]
             T == {n \in 0..Len(t) : n < 2 \/ us[d + n] = cat(n)}
  <2>1. d + 2 \in 0..Len(s) /\ us[d + 2] \in Seq(Talks)
    BY <1>1, <1>3, <1>9
  <2>7. \A n \in 1..Len(t) : n = 2 => us[d + n] = cat(n)
    <3>1. 2 \in 0..Len(t) /\ 2 < 3
      BY <1>1, <1>9
    <3>2. ut[2] = <<>>
      BY <1>2, <3>1
    <3>3. us[d + 2] \o <<>> = us[d + 2]
      BY <2>1, ConcatEmptySeq
    <3>4. us[d + 2] = cat(2)
      BY <3>2, <3>3
    <3> HIDE DEF cat
    <3> QED
      BY <3>4
  <2>8. ASSUME NEW n \in 1..Len(t), WholeAt(t, n), n > 2, us[d + (n - 1)] = cat(n - 1),
               us[d + n] = Append(us[d + (n - 1)], t[n - 1][1])
        PROVE  us[d + n] = cat(n)
    <3> DEFINE c == t[n - 1][1]
               x == us[d + 2]
               y == ut[n - 1]
    <3>1. ut[n] = Append(y, c) /\ us[d + n] = Append(x \o y, c)
      BY <1>5, <2>8
    <3>2. c \in Talks
      BY <2>8, TextType DEF WholeAt
    <3>3. x \in Seq(Talks) /\ y \in Seq(Talks)
      <4>1. n - 1 \in 0..Len(t)
        BY <1>1
      <4> QED
        BY <1>4, <2>1, <4>1
    <3>4. cat(n) = x \o ut[n]
      OBVIOUS
    <3> HIDE DEF c, x, y, cat
    <3>5. Append(x \o y, c) = x \o Append(y, c)
      BY <1>10, <3>2, <3>3
    <3> QED
      BY <3>1, <3>4, <3>5
  <2> HIDE DEF cat
  <2>2. 0 \in T
    BY <1>1
  <2>3. ASSUME NEW n \in 1..Len(t), n - 1 \in T
        PROVE  n \in T
    <3>1. CASE n < 3
      BY <1>1, <2>7, <3>1
    <3>2. CASE n > 2
      <4>1. /\ d + n \in 1..Len(s) /\ (d + n) - 1 = d + (n - 1)
            /\ (d + n) - 2 = d + (n - 2) /\ d + n > 2 /\ n - 1 \in 1..Len(t) /\ n - 2 \in 1..Len(t)
        <5> HIDE DEF T
        <5>1. n \in Nat /\ n <= Len(t) /\ d \in Nat /\ Len(s) = d + Len(t)
          BY <1>1
        <5> QED
          BY <1>1, <3>2, <5>1
      <4>2. us[d + (n - 1)] = cat(n - 1)
        BY <1>1, <2>3, <3>2
      <4>3. t[n] = s[d + n] /\ t[n - 1] = s[(d + n) - 1] /\ t[n - 2] = s[(d + n) - 2]
        BY <4>1
      <4>4. WholeAt(s, d + n) <=> WholeAt(t, n)
        BY <3>2, <4>1, <4>3 DEF WholeAt
      <4>5. CASE WholeAt(t, n)
        <5>1. us[d + n] = Append(us[d + (n - 1)], t[n - 1][1])
          BY <1>6, <4>1, <4>3, <4>4, <4>5
        <5>2. us[d + n] = cat(n)
          BY <2>8, <3>2, <4>2, <4>5, <5>1
        <5> QED
          BY <1>1, <5>2
      <4>6. CASE ~WholeAt(t, n)
        <5>1. us[d + n] = us[d + (n - 1)] /\ ut[n] = ut[n - 1]
          BY <1>5, <1>6, <4>1, <4>4, <4>6
        <5>2. cat(n) = cat(n - 1)
          BY <5>1 DEF cat
        <5> QED
          BY <1>1, <4>2, <5>1, <5>2
      <4> QED
        BY <4>5, <4>6
    <3> QED
      BY <1>1, <3>1, <3>2
  <2>4. Len(t) \in T
    <3> HIDE DEF T
    <3>1. 0..Len(t) \subseteq T
      BY <1>1, <2>2, <2>3, UpTo
    <3> QED
      BY <1>1, <3>1
  <2>5. us[Len(s)] = us[d + 2] \o ut[Len(t)]
    <3>1. us[d + Len(t)] = cat(Len(t))
      BY <1>1, <1>9, <2>4
    <3> QED
      BY <3>1 DEF cat
  <2> QED
    BY <1>7, <1>9, <2>1, <2>5 DEF us
<1> QED
  BY <1>8, <1>9

\* A cut that touches no sentence but the one that ends with e takes no other away.
LEMMA WholeCut ==
  ASSUME NEW s \in Seq(Byte), NEW t \in Seq(Byte), NEW d \in Nat, Len(s) = d + Len(t),
         \A i \in 1..Len(t) : t[i] = s[d + i],
         NEW e \in Nat, \A k \in 1..Len(s) : k <= d + 2 /\ WholeAt(s, k) => k = e
  PROVE  IF e \in 1..Len(s) /\ e <= d + 2 /\ WholeAt(s, e)
         THEN Whole(s) # <<>> /\ Head(Whole(s)) = s[e - 1][1] /\ Tail(Whole(s)) = Whole(t)
         ELSE Whole(t) = Whole(s)
<1> DEFINE m == IF Len(t) > 1 THEN d + 2 ELSE Len(s)
           c == s[e - 1][1]
<1>1. Len(s) \in Nat /\ Len(t) \in Nat
  BY LenProperties
<1>2. m \in 0..Len(s) /\ Whole(s) = WholeUpTo(s)[m] \o Whole(t)
  BY WholeSplit
<1>3. m <= d + 2 /\ \A k \in 1..Len(s) : k <= d + 2 => k \in 1..m
  BY <1>1
<1>4. Whole(t) \in Seq(Talks)
  BY WholeType
<1> HIDE DEF m
<1>5. \A k \in 1..m : WholeAt(s, k) => k = e
  BY <1>1, <1>2, <1>3
<1>6. CASE e \in 1..Len(s) /\ e <= d + 2 /\ WholeAt(s, e)
  <2>1. WholeUpTo(s)[m] = <<c>> /\ c \in Talks
    BY <1>2, <1>3, <1>5, <1>6, OneUpTo
  <2> HIDE DEF c
  <2>2. Whole(s) = <<c>> \o Whole(t)
    BY <1>2, <2>1
  <2>3. Whole(s) # <<>> /\ Head(Whole(s)) = c /\ Tail(Whole(s)) = Whole(t)
    BY <1>4, <2>1, <2>2
  <2> QED
    BY <1>6, <2>3 DEF c
<1>7. CASE ~(e \in 1..Len(s) /\ e <= d + 2 /\ WholeAt(s, e))
  <2>1. \A k \in 1..m : ~WholeAt(s, k)
    BY <1>1, <1>2, <1>3, <1>5, <1>7
  <2>2. WholeUpTo(s)[m] = <<>>
    BY <1>2, <2>1, NoneUpTo
  <2>3. Whole(s) = Whole(t)
    BY <1>2, <1>4, <2>2, ConcatEmptySeq
  <2> QED
    BY <1>7, <2>3
<1> QED
  BY <1>6, <1>7

(***************************************************************************)
(* The reader is a queue of sentences.  What a read begins with holds no   *)
(* line, so what an overflow or a second move of the buffer takes away     *)
(* holds no sentence but one that ends with the new bytes.                 *)
(***************************************************************************)
NoLineLeft == at = "read" => \A k \in 3..Len(rxbuf) : rxbuf[k] # Newline

ReaderInv == GnssInv /\ NoLineLeft

\* What a step does to the sentences in the buffer.
Stays == Whole(Unhandled') = Whole(Unhandled) /\ parsed' = parsed

Comes ==
    /\ \E talk \in Talks : Whole(Unhandled') = Append(Whole(Unhandled), talk)
    /\ Len(Whole(Unhandled)) < RXBUF + BURST
    /\ parsed' = parsed

Goes ==
    /\ Whole(Unhandled) # <<>>
    /\ Whole(Unhandled') = Tail(Whole(Unhandled))
    /\ parsed' = Head(Whole(Unhandled)) \/ (parsed' = parsed /\ harmed')

\* The bytes of a reader are a sequence of bytes.
LEMMA UnhandledType ==
  ASSUME GnssTypeOK
  PROVE  /\ Unhandled \in Seq(Byte) /\ Len(Unhandled) = Len(rxbuf) + Len(chunk)
         /\ \A i \in 1..Len(rxbuf) : Unhandled[i] = rxbuf[i]
         /\ \A i \in 1..Len(chunk) : Unhandled[Len(rxbuf) + i] = chunk[i]
         /\ rxbuf \in Seq(Byte) /\ chunk \in Seq(Byte)
         /\ Len(rxbuf) \in Nat /\ Len(chunk) \in Nat
<1>1. rxbuf \in Seq(Byte) /\ chunk \in Seq(Byte)
  BY DEF GnssTypeOK
<1>2. Len(rxbuf) \in Nat /\ Len(chunk) \in Nat
  BY <1>1, LenProperties
<1>3. /\ Unhandled \in Seq(Byte) /\ Len(Unhandled) = Len(rxbuf) + Len(chunk)
      /\ \A i \in 1..(Len(rxbuf) + Len(chunk)) :
            Unhandled[i] = IF i <= Len(rxbuf) THEN rxbuf[i] ELSE chunk[i - Len(rxbuf)]
  BY <1>1, ConcatProperties DEF Unhandled
<1>4. \A i \in 1..Len(rxbuf) : i \in 1..(Len(rxbuf) + Len(chunk)) /\ i <= Len(rxbuf)
  BY <1>2
<1>5. \A i \in 1..Len(chunk) :
         /\ Len(rxbuf) + i \in 1..(Len(rxbuf) + Len(chunk))
         /\ ~(Len(rxbuf) + i <= Len(rxbuf)) /\ (Len(rxbuf) + i) - Len(rxbuf) = i
  BY <1>2
<1> QED
  BY <1>1, <1>2, <1>3, <1>4, <1>5

\* Without a newline from the third byte on there is no sentence.
LEMMA NoSentence ==
  ASSUME NEW s \in Seq(Byte), \A k \in 3..Len(s) : s[k] # Newline
  PROVE  Whole(s) = <<>>
<1>1. Len(s) \in 0..Len(s) /\ Len(s) \in Nat
  BY LenProperties
<1>2. \A k \in 1..Len(s) : ~WholeAt(s, k)
  BY <1>1 DEF WholeAt
<1> QED
  BY <1>1, <1>2, NoneUpTo DEF Whole

\* Steps that touch neither the bytes nor parsed.
LEMMA SameStays ==
  ASSUME UNCHANGED <<rxbuf, chunk, parsed>>
  PROVE  Stays
BY DEF Stays, Unhandled

\* A byte comes, perhaps a sentence's last.
LEMMA ArriveMaps ==
  ASSUME GnssInv, Arrive
  PROVE  Stays \/ Comes
<1>1. /\ chunk' = Append(chunk, feed.byte) /\ Len(chunk) < BURST
      /\ UNCHANGED <<rxbuf, parsed>>
  BY DEF Arrive
<1>2. GnssTypeOK /\ feed.byte \in Byte
  BY DEF GnssInv, GnssTypeOK
<1>3. /\ Unhandled \in Seq(Byte) /\ Len(Unhandled) = Len(rxbuf) + Len(chunk)
      /\ rxbuf \in Seq(Byte) /\ chunk \in Seq(Byte) /\ Len(rxbuf) \in Nat /\ Len(chunk) \in Nat
  BY <1>2, UnhandledType
<1>4. Unhandled' = Append(Unhandled, feed.byte)
  <2>1. <<feed.byte>> \in Seq(Byte)
    BY <1>2
  <2>2. Append(chunk, feed.byte) = chunk \o <<feed.byte>>
    BY <1>2, <1>3, AppendIsConcat
  <2>3. Append(Unhandled, feed.byte) = Unhandled \o <<feed.byte>>
    BY <1>2, <1>3, AppendIsConcat
  <2>4. (rxbuf \o chunk) \o <<feed.byte>> = rxbuf \o (chunk \o <<feed.byte>>)
    BY <1>3, <2>1, ConcatAssociative
  <2> QED
    BY <1>1, <2>2, <2>3, <2>4 DEF Unhandled
<1>5. \/ Whole(Append(Unhandled, feed.byte)) = Whole(Unhandled)
      \/ \E talk \in Talks : Whole(Append(Unhandled, feed.byte)) = Append(Whole(Unhandled), talk)
  BY <1>2, <1>3, WholeAppend
<1>6. Len(Whole(Unhandled)) < RXBUF + BURST
  <2>1. Whole(Unhandled) \in Seq(Talks) /\ Len(Whole(Unhandled)) <= Len(Unhandled)
    BY <1>3, WholeType
  <2>2. Len(Whole(Unhandled)) \in Nat
    BY <2>1, LenProperties
  <2>3. RXBUF \in Nat /\ BURST \in Nat /\ Len(rxbuf) < RXBUF
    BY <1>2, GnssAssumption DEF GnssAssumption, GnssTypeOK
  <2> QED
    BY <1>1, <1>3, <2>1, <2>2, <2>3
<1> QED
  BY <1>1, <1>4, <1>5, <1>6 DEF Stays, Comes

\* An overflow takes what was there, and with it at most the sentence that ends with the
\* new bytes.
LEMMA ReadDoneMaps ==
  ASSUME ReaderInv, ReadDone
  PROVE  Stays \/ Goes
<1>1. /\ at = "read" /\ chunk' = <<>> /\ harmed' = (harmed \/ Overflows)
      /\ rxbuf' = IF Overflows THEN chunk ELSE Unhandled
      /\ parsed' = parsed
  BY DEF ReadDone, ReadEnds, Unhandled
<1>2. GnssTypeOK /\ \A k \in 3..Len(rxbuf) : rxbuf[k] # Newline
  BY <1>1 DEF ReaderInv, GnssInv, NoLineLeft
<1> DEFINE d == Len(rxbuf)
           e == IF WholeAt(Unhandled, d + 1) THEN d + 1 ELSE d + 2
<1>3. /\ Unhandled \in Seq(Byte) /\ Len(Unhandled) = d + Len(chunk)
      /\ \A i \in 1..d : Unhandled[i] = rxbuf[i]
      /\ \A i \in 1..Len(chunk) : chunk[i] = Unhandled[d + i]
      /\ chunk \in Seq(Byte) /\ d \in Nat /\ Len(chunk) \in Nat
  BY <1>2, UnhandledType
<1>4. CASE ~Overflows
  <2>1. Unhandled' = Unhandled
    BY <1>1, <1>3, <1>4, ConcatEmptySeq DEF Unhandled
  <2> QED
    BY <1>1, <2>1 DEF Stays
<1>5. CASE Overflows
  <2>1. Unhandled' = chunk /\ harmed' = TRUE
    BY <1>1, <1>3, <1>5, ConcatEmptySeq DEF Unhandled
  <2>2. ASSUME NEW k \in 1..Len(Unhandled), k <= d + 2, WholeAt(Unhandled, k)
        PROVE  k = e
    <3>1. k > 2 /\ Unhandled[k] = Newline /\ Unhandled[k - 1] \in Text
      BY <2>2 DEF WholeAt
    <3>2. ~(k <= d)
      <4> SUFFICES ASSUME k <= d PROVE FALSE
        OBVIOUS
      <4>1. k \in 1..d /\ k \in 3..Len(rxbuf)
        BY <1>3, <3>1
      <4> QED
        BY <1>2, <1>3, <3>1, <4>1
    <3>3. k = d + 1 \/ k = d + 2
      BY <1>3, <2>2, <3>2
    <3>4. k = d + 2 => ~WholeAt(Unhandled, d + 1)
      <4> SUFFICES ASSUME k = d + 2, WholeAt(Unhandled, d + 1) PROVE FALSE
        OBVIOUS
      <4>1. k - 1 = d + 1 /\ Unhandled[d + 1] = Newline
        BY <1>3 DEF WholeAt
      <4> QED
        BY <3>1, <4>1, BytesDiffer
    <3> QED
      BY <2>2, <3>3, <3>4
  <2>3. e \in Nat
    BY <1>3
  <2> HIDE DEF d, e
  <2>4. \/ /\ Whole(Unhandled) # <<>>
           /\ Tail(Whole(Unhandled)) = Whole(chunk)
        \/ Whole(chunk) = Whole(Unhandled)
    BY <1>3, <2>2, <2>3, WholeCut
  <2> QED
    BY <1>1, <2>1, <2>4 DEF Stays, Goes
<1> QED
  BY <1>4, <1>5

\* A read that fails finds no sentence and leaves none.
LEMMA ReadFailsMaps ==
  ASSUME ReaderInv, ReadFails
  PROVE  Stays /\ NoLineLeft'
<1>1. /\ at = "read" /\ chunk = <<>> /\ rxbuf' = From(pos)
      /\ UNCHANGED <<chunk, at, parsed>>
  BY DEF ReadFails, TimesOut
<1>2. /\ GnssTypeOK /\ rxbuf \in Seq(Byte) /\ pos \in Nat \ {0}
      /\ \A k \in 3..Len(rxbuf) : rxbuf[k] # Newline
  BY <1>1, GnssAssumption DEF ReaderInv, GnssInv, GnssTypeOK, NoLineLeft, GnssAssumption
<1>3. /\ rxbuf' \in Seq(Byte) /\ Len(rxbuf') \in Nat /\ Len(rxbuf') <= Len(rxbuf)
      /\ \A i \in 1..Len(rxbuf') : rxbuf'[i] = rxbuf[Len(rxbuf) - Len(rxbuf') + i]
      /\ Len(rxbuf) \in Nat
  BY <1>1, <1>2, FromEnd, LenProperties
<1>4. \A k \in 3..Len(rxbuf') : rxbuf'[k] # Newline
  <2> SUFFICES ASSUME NEW k \in 3..Len(rxbuf') PROVE rxbuf'[k] # Newline
    OBVIOUS
  <2>1. k \in 1..Len(rxbuf') /\ Len(rxbuf) - Len(rxbuf') + k \in 3..Len(rxbuf)
    BY <1>3
  <2> QED
    BY <1>2, <1>3, <2>1
<1>5. Unhandled = rxbuf /\ Unhandled' = rxbuf'
  BY <1>1, <1>2, <1>3, ConcatEmptySeq DEF Unhandled
<1>6. Whole(rxbuf) = <<>>
  BY <1>2, NoSentence
<1>7. Whole(rxbuf') = <<>>
  BY <1>3, <1>4, NoSentence
<1> QED
  BY <1>1, <1>4, <1>5, <1>6, <1>7 DEF Stays, NoLineLeft

\* The loop goes on until there is no line.
LEMMA ScanEndLeaves ==
  ASSUME GnssTypeOK, ScanEnd
  PROVE  NoLineLeft'
<1>1. rxbuf \in Seq(Byte) /\ rxbuf' = rxbuf /\ (Len(rxbuf) < 2 \/ LineEnd = {})
  BY DEF GnssTypeOK, ScanEnd
<1>2. Len(rxbuf) \in Nat
  BY <1>1, LenProperties
<1>3. CASE Len(rxbuf) < 2
  BY <1>1, <1>2, <1>3 DEF NoLineLeft
<1>4. CASE LineEnd = {}
  <2> DEFINE T == {k \in 1..Len(rxbuf) : rxbuf[k] = Newline}
  <2>1. T = {}
    <3> SUFFICES ASSUME T # {} PROVE FALSE
      OBVIOUS
    <3>1. T \subseteq Nat
      BY <1>2
    <3>2. PICK e \in T : \A k \in T : e <= k
      <4> HIDE DEF T
      <4> QED
        BY <3>1, LeastNat
    <3>3. \A k \in 1..(e - 1) : k \in 1..Len(rxbuf) /\ ~(e <= k)
      BY <1>2, <3>2
    <3>4. \A k \in 1..(e - 1) : rxbuf[k] # Newline
      BY <3>2, <3>3
    <3> QED
      BY <1>4, <3>2, <3>4 DEF LineEnd
  <2>2. \A k \in 3..Len(rxbuf) : k \in 1..Len(rxbuf)
    BY <1>2
  <2> QED
    BY <1>1, <2>1, <2>2 DEF NoLineLeft
<1> QED
  BY <1>1, <1>3, <1>4

\* A byte that is skipped begins no sentence.
LEMMA ScanSkipMaps ==
  ASSUME GnssInv, ScanSkip
  PROVE  Stays
<1>1. /\ at = "scan" /\ Len(rxbuf) > 1 /\ ~InSync /\ Handled(1)
      /\ UNCHANGED <<feed, chunk, at, parsed>>
  BY DEF ScanSkip
<1>2. rxbuf \in Seq(Byte) /\ Len(rxbuf) \in Nat /\ 1 \in 1..Len(rxbuf)
  BY <1>1, LenProperties DEF GnssInv, GnssTypeOK
<1>3. /\ Unhandled = rxbuf /\ Unhandled' = rxbuf'
      /\ rxbuf' \in Seq(Byte) /\ Len(rxbuf') = Len(rxbuf) - 1
      /\ \A i \in 1..Len(rxbuf') : rxbuf'[i] = rxbuf[1 + i]
  BY <1>1, <1>2, HandledKeeps
<1>4. \A k \in 1..Len(rxbuf) : k <= 1 + 2 /\ WholeAt(rxbuf, k) => k = 0
  <2> SUFFICES ASSUME NEW k \in 1..Len(rxbuf), k <= 1 + 2, WholeAt(rxbuf, k) PROVE FALSE
    OBVIOUS
  <2>1. k = 3
    BY <1>2 DEF WholeAt
  <2> QED
    BY <1>1, <2>1 DEF WholeAt, InSync
<1>5. Len(rxbuf) = 1 + Len(rxbuf') /\ 0 \notin 1..Len(rxbuf)
  BY <1>2, <1>3
<1>6. Whole(rxbuf') = Whole(rxbuf)
  BY <1>2, <1>3, <1>4, <1>5, WholeCut
<1> QED
  BY <1>1, <1>3, <1>6 DEF Stays

\* A line holds at most the sentence that ends it; what parse_nmea takes is a sentence.
LEMMA ScanLineMaps ==
  ASSUME GnssInv, ScanLine
  PROVE  Stays \/ Goes
<1>1. PICK e \in LineEnd : Handled(e) /\ Parse(SubSeq(rxbuf, 1, e))
  BY DEF ScanLine
<1>2. /\ at = "scan" /\ InSync /\ UNCHANGED <<feed, chunk, at>>
      /\ e \in 1..Len(rxbuf) /\ rxbuf[e] = Newline /\ \A k \in 1..(e - 1) : rxbuf[k] # Newline
  BY DEF ScanLine, LineEnd
<1>3. /\ rxbuf \in Seq(Byte) /\ Len(rxbuf) \in Nat /\ e \in Nat /\ Stream(rxbuf, feed)
      /\ Len(rxbuf) > 1 /\ rxbuf[1] = Dollar /\ rxbuf[2] \in Text
      /\ Unhandled = rxbuf /\ Unhandled' = rxbuf'
      /\ rxbuf' \in Seq(Byte) /\ Len(rxbuf') = Len(rxbuf) - e
      /\ \A i \in 1..Len(rxbuf') : rxbuf'[i] = rxbuf[e + i]
  BY <1>1, <1>2, HandledKeeps, LenProperties DEF GnssInv, GnssTypeOK, InSync
<1>4. e > 2
  BY <1>2, <1>3, BytesDiffer
<1>5. ASSUME NEW k \in 1..Len(rxbuf), k <= e + 2, WholeAt(rxbuf, k)
      PROVE  k = e
  <2>1. rxbuf[k] = Newline /\ rxbuf[k - 1] \in Text /\ rxbuf[k - 2] = Dollar
    BY <1>5 DEF WholeAt
  <2>2. ~(k < e)
    BY <1>2, <2>1
  <2>3. k # e + 1
    <3>1. k = e + 1 => k - 1 = e
      BY <1>3
    <3> QED
      BY <1>2, <2>1, <3>1, BytesDiffer
  <2>4. k # e + 2
    BY <1>2, <1>3, <2>1, BytesDiffer
  <2> QED
    BY <1>3, <1>5, <2>2, <2>3, <2>4
<1>6. IF WholeAt(rxbuf, e)
      THEN /\ Whole(rxbuf) # <<>> /\ Head(Whole(rxbuf)) = rxbuf[e - 1][1]
           /\ Tail(Whole(rxbuf)) = Whole(rxbuf')
      ELSE Whole(rxbuf') = Whole(rxbuf)
  <2>1. Len(rxbuf) = e + Len(rxbuf') /\ e <= e + 2
    BY <1>3
  <2>2. IF e \in 1..Len(rxbuf) /\ e <= e + 2 /\ WholeAt(rxbuf, e)
        THEN /\ Whole(rxbuf) # <<>> /\ Head(Whole(rxbuf)) = rxbuf[e - 1][1]
             /\ Tail(Whole(rxbuf)) = Whole(rxbuf')
        ELSE Whole(rxbuf') = Whole(rxbuf)
    <3>1. \A k \in 1..Len(rxbuf) : k <= e + 2 /\ WholeAt(rxbuf, k) => k = e
      BY <1>5
    <3> QED
      BY <1>3, <2>1, <3>1, WholeCut
  <2> QED
    BY <1>2, <2>1, <2>2
<1> DEFINE line == SubSeq(rxbuf, 1, e)
<1>7. Len(line) = e /\ line[2] = rxbuf[2]
  <2>1. \A i \in 1..e : rxbuf[i] \in Byte
    BY <1>2, <1>3, ElementOfSeq
  <2>2. Len(line) = e /\ \A i \in 1..e : line[i] = rxbuf[i]
    BY <1>2, <1>3, <2>1, SubSeqProperties
  <2> QED
    BY <1>3, <1>4, <2>2
<1>8. Parse(line)
  BY <1>1
<1> HIDE DEF line
<1>9. CASE Checked(line)
  <2>1. e = 3 /\ parsed' = rxbuf[2][1]
    BY <1>7, <1>8, <1>9 DEF Checked, Parse
  <2>2. WholeAt(rxbuf, 3)
    BY <1>2, <1>3, <2>1 DEF WholeAt
  <2> QED
    BY <1>3, <1>6, <2>1, <2>2 DEF Goes
<1>10. CASE ~Checked(line)
  <2>1. parsed' = parsed /\ harmed' = TRUE
    BY <1>8, <1>10 DEF Parse
  <2> QED
    BY <1>3, <1>6, <2>1 DEF Stays, Goes
<1> QED
  BY <1>9, <1>10

\* What a read begins with never holds a line.
LEMMA LeavesNoLine == ReaderInv /\ [GnssNext]_gnssVars => ReaderInv'
<1> SUFFICES ASSUME ReaderInv, [GnssNext]_gnssVars PROVE ReaderInv'
  OBVIOUS
<1>1. GnssInv'
  BY StepGnss DEF ReaderInv
<1>2. NoLineLeft'
  <2>1. CASE UNCHANGED <<at, rxbuf>>
    BY <2>1 DEF ReaderInv, NoLineLeft
  <2>2. CASE at' = "scan"
    BY <2>2 DEF NoLineLeft
  <2>3. CASE ReadFails
    BY <2>3, ReadFailsMaps
  <2>4. CASE ScanEnd
    BY <2>4, ScanEndLeaves DEF ReaderInv, GnssInv
  <2>5. UNCHANGED <<at, rxbuf>> \/ at' = "scan" \/ ReadFails \/ ScanEnd
    BY DEF GnssNext, Scan, Arrive, ReadDone, ScanSkip, ScanLine, gnssVars
  <2> QED
    BY <2>1, <2>2, <2>3, <2>4, <2>5
<1> QED
  BY <1>1, <1>2 DEF ReaderInv

LEMMA InductiveReader == GnssSpec => []ReaderInv
<1>1. GnssInit => ReaderInv
  <2> SUFFICES ASSUME GnssInit PROVE ReaderInv
    OBVIOUS
  <2>1. rxbuf = <<>> /\ Len(rxbuf) = 0
    BY DEF GnssInit
  <2> QED
    BY <2>1, StartGnss DEF ReaderInv, NoLineLeft
<1> QED
  BY <1>1, LeavesNoLine, PTL DEF GnssSpec

\* Every step leaves the sentences, adds one or takes the first.
LEMMA StepSentences ==
  ASSUME ReaderInv, [GnssNext]_gnssVars
  PROVE  Stays \/ Comes \/ Goes
<1>1. GnssInv
  BY DEF ReaderInv
<1>2. CASE UNCHANGED gnssVars
  BY <1>2, SameStays DEF gnssVars
<1>3. CASE ScanEnd
  BY <1>3, SameStays DEF ScanEnd
<1> QED
  BY <1>1, <1>2, <1>3, ArriveMaps, ReadDoneMaps, ReadFailsMaps, ScanSkipMaps, ScanLineMaps
  DEF GnssNext, Scan

\* Whole is the same of a next state's bytes and in a next state.
LEMMA NextWhole == Whole(Unhandled)' = Whole(Unhandled')
BY DEF Whole, WholeUpTo, WholeAt, Unhandled

\* gnss_coro_body and parse_nmea are a queue of sentences, wherever SerialPort:read cuts,
\* fails or overflows: what is parsed is what the receiver sent, in order and each once.
THEOREM SentencesAreFifo == GnssSpec => ImplementsFifo
<1>1. GnssInit => Fifo!FifoInit
  <2> SUFFICES ASSUME GnssInit PROVE Whole(Unhandled) = <<>>
    BY DEF Fifo!FifoInit
  <2>1. rxbuf = <<>> /\ chunk = <<>> /\ rxbuf \in Seq(Byte) /\ Len(rxbuf) = 0
    BY DEF GnssInit
  <2>2. Unhandled = rxbuf
    BY <2>1, NothingRead
  <2>3. \A k \in 3..Len(rxbuf) : rxbuf[k] # Newline
    BY <2>1
  <2>4. Whole(rxbuf) = <<>>
    BY <2>1, <2>3, NoSentence
  <2> QED
    BY <2>2, <2>4
<1>2. ReaderInv /\ [GnssNext]_gnssVars => [Fifo!FifoNext]_Fifo!fifoVars
  <2> SUFFICES ASSUME ReaderInv, [GnssNext]_gnssVars PROVE [Fifo!FifoNext]_Fifo!fifoVars
    OBVIOUS
  <2>1. Stays \/ Comes \/ Goes
    BY StepSentences
  <2>2. CASE Stays
    BY <2>2, NextWhole DEF Stays, Fifo!fifoVars
  <2>3. CASE Comes
    BY <2>3, NextWhole DEF Comes, Fifo!FifoNext, Fifo!Accept
  <2>4. CASE Goes
    BY <2>4, NextWhole DEF Goes, Fifo!FifoNext, Fifo!PassUp, Fifo!Discard
  <2> QED
    BY <2>1, <2>2, <2>3, <2>4
<1> QED
  BY <1>1, <1>2, InductiveReader, PTL DEF GnssSpec, ImplementsFifo, Fifo!FifoSpec

\* A sentence that is there whole leaves by parse_nmea, unless the buffer overflowed or a
\* sentence before it was damaged.
THEOREM NoneIsDropped == GnssSpec => NoneDropped
<1>1. ASSUME ReaderInv, [GnssNext]_gnssVars, Len(Whole(Unhandled')) < Len(Whole(Unhandled))
      PROVE  harmed' \/ parsed' = Head(Whole(Unhandled))
  <2>1. Whole(Unhandled) \in Seq(Talks) /\ Len(Whole(Unhandled)) \in Nat
    <3>1. Unhandled \in Seq(Byte)
      BY <1>1, UnhandledType DEF ReaderInv, GnssInv
    <3> QED
      BY <3>1, WholeType, LenProperties
  <2>2. ~Stays
    BY <1>1, <2>1 DEF Stays
  <2>3. ~Comes
    <3> SUFFICES ASSUME NEW talk \in Talks, Whole(Unhandled') = Append(Whole(Unhandled), talk)
                 PROVE  FALSE
      BY DEF Comes
    <3>1. Len(Whole(Unhandled')) = Len(Whole(Unhandled)) + 1
      BY <2>1, AppendProperties
    <3> QED
      BY <1>1, <2>1, <3>1
  <2> QED
    BY <1>1, <2>2, <2>3, StepSentences DEF Goes
<1>2. ReaderInv /\ [GnssNext]_gnssVars
      => [ Len(Whole(Unhandled')) < Len(Whole(Unhandled)) =>
             harmed' \/ parsed' = Head(Whole(Unhandled)) ]_gnssVars
  BY <1>1
<1> QED
  BY <1>2, InductiveReader, PTL DEF GnssSpec, NoneDropped
=============================================================================
