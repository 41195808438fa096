---------------------------- MODULE MotorProofs ----------------------------
(***************************************************************************)
(* The theorems about MotorDebounce, for every debounce threshold, every   *)
(* order of the channels' samples in a message and every report length.    *)
(*                                                                         *)
(* In every state a channel can be in, one of the ranges it listens to is  *)
(* counted exactly by debounce_cnt: at the sample that brought it into     *)
(* that state this range's run was zero.  ChannelInv says so; it is        *)
(* inductive, and both Prompt and Debounced follow from it.                *)
(***************************************************************************)
EXTENDS MotorDebounce, TLAPS


(***************************************************************************)
(* A channel's context, with what MotorTypeOK does not say: only a channel *)
(* with an upper value is ever in overload.                                *)
(***************************************************************************)
ChannelType(ch, c) ==
    /\ c \in Context
    /\ c.debounce_cnt < DEBOUNCE[ch]
    /\ HasUpper(ch) \/ c.state # 2

\* The thresholds and the cap of a duration are numbers.
LEMMA Thresholds ==
    /\ \A ch \in Channels : DEBOUNCE[ch] \in Nat /\ DEBOUNCE[ch] > 0
    /\ DURATION_CAP \in Nat
    /\ Message \in Seq(Channels)
    /\ 0 \in 0..Len(Message) /\ 1 \in 0..Len(Message)
BY MotorAssumption DEF MotorAssumption

\* A duration that grows stays within its cap.
LEMMA LongerType == ASSUME NEW d \in 0..DURATION_CAP PROVE Longer(d) \in 0..DURATION_CAP
BY Thresholds DEF Longer

\* What counts in each state, and where it leads.
LEMMA StateCases ==
    ASSUME NEW ch, NEW v, NEW c
    PROVE  /\ c.state = 0 => /\ Counts(ch, c, v) <=> v \in AboveStart
                             /\ NextState(c, v) = 1
           /\ c.state = 1 => /\ Counts(ch, c, v) <=>
                                   v \in BelowStop \/ (HasUpper(ch) /\ v \in AboveUpper)
                             /\ NextState(c, v) = IF v \in BelowStop THEN 0 ELSE 2
           /\ c.state = 2 => /\ Counts(ch, c, v) <=> v \in BelowNormal
                             /\ NextState(c, v) = 1
<1>1. c.state = 0 => /\ Counts(ch, c, v) <=> v \in AboveStart
                     /\ NextState(c, v) = 1
  BY DEF Counts, NextState
<1>2. c.state = 1 => /\ Counts(ch, c, v) <=>
                           v \in BelowStop \/ (HasUpper(ch) /\ v \in AboveUpper)
                     /\ NextState(c, v) = IF v \in BelowStop THEN 0 ELSE 2
  BY DEF Counts, NextState
<1>3. c.state = 2 => /\ Counts(ch, c, v) <=> v \in BelowNormal
                     /\ NextState(c, v) = 1
  BY DEF Counts, NextState
<1> QED
  BY <1>1, <1>2, <1>3

\* The state after a sample and whether the period ends.
LEMMA SampledState ==
    ASSUME NEW ch \in Channels, NEW v \in Levels, NEW c, ChannelType(ch, c)
    PROVE  /\ ~Counts(ch, c, v) => /\ Sampled(ch, c, v).state = c.state
                                   /\ Sampled(ch, c, v).debounce_cnt = 0
           /\ Counts(ch, c, v) /\ ~Switches(ch, c, v) =>
                 /\ Sampled(ch, c, v).state = c.state
                 /\ Sampled(ch, c, v).debounce_cnt = c.debounce_cnt + 1
           /\ Switches(ch, c, v) => /\ Sampled(ch, c, v).state = NextState(c, v)
                                    /\ Sampled(ch, c, v).debounce_cnt = 0
           /\ Sampled(ch, c, v).duration =
                 IF (c.state = 0) # (Sampled(ch, c, v).state = 0) THEN 0 ELSE Longer(c.duration)
<1> DEFINE d == Longer(c.duration)
<1>1. c \in Context /\ c.state \in States /\ c.debounce_cnt \in Nat
  BY DEF ChannelType, Context
<1>2. CASE ~Counts(ch, c, v)
  <2>1. Sampled(ch, c, v) = [c EXCEPT !.duration = d, !.debounce_cnt = 0]
    BY <1>2 DEF Sampled
  <2> QED
    BY <1>1, <1>2, <2>1 DEF Context, Switches
<1>3. CASE Counts(ch, c, v) /\ ~Switches(ch, c, v)
  <2>1. Sampled(ch, c, v) = [c EXCEPT !.duration = d, !.debounce_cnt = @ + 1]
    BY <1>3 DEF Sampled
  <2> QED
    BY <1>1, <1>3, <2>1 DEF Context
<1>4. CASE Switches(ch, c, v)
  <2>1. Sampled(ch, c, v) = [state |-> NextState(c, v), debounce_cnt |-> 0,
                             duration |-> IF Turns(ch, c, v) THEN 0 ELSE d]
    BY <1>4 DEF Sampled, Switches
  <2>2. Turns(ch, c, v) <=> ((c.state = 0) # (NextState(c, v) = 0))
    BY <1>1, <1>4 DEF Turns, NextState, States
  <2> QED
    BY <1>4, <2>1, <2>2 DEF Switches
<1> QED
  BY <1>2, <1>3, <1>4 DEF Switches
\* A sample leaves a channel's context well typed, in a state it has.
LEMMA SampledType ==
    ASSUME NEW ch \in Channels, NEW v \in Levels, NEW c, ChannelType(ch, c)
    PROVE  ChannelType(ch, Sampled(ch, c, v))
<1> DEFINE d == Longer(c.duration)
           s == Sampled(ch, c, v)
<1>1. d \in 0..DURATION_CAP /\ 0 \in 0..DURATION_CAP
  BY LongerType, Thresholds DEF ChannelType, Context
<1>2. /\ DEBOUNCE[ch] \in Nat /\ DEBOUNCE[ch] > 0
      /\ c \in Context /\ c.debounce_cnt \in Nat /\ c.state \in States
      /\ c.debounce_cnt < DEBOUNCE[ch]
      /\ HasUpper(ch) \/ c.state # 2
  BY Thresholds DEF ChannelType, Context
<1>3. Switches(ch, c, v) => /\ NextState(c, v) \in States
                            /\ HasUpper(ch) \/ NextState(c, v) # 2
  BY <1>2, StateCases DEF Switches, States
<1>4. s.debounce_cnt < DEBOUNCE[ch]
  BY <1>2, SampledState DEF Switches
<1>5. HasUpper(ch) \/ s.state # 2
  BY <1>2, <1>3, SampledState
<1>6. s \in Context
  <2> HIDE DEF d
  <2>1. CASE ~Counts(ch, c, v)
    <3>1. s = [c EXCEPT !.duration = d, !.debounce_cnt = 0]
      BY <2>1 DEF Sampled, d
    <3> HIDE DEF s
    <3> QED
      BY <1>1, <1>2, <3>1 DEF Context
  <2>2. CASE Counts(ch, c, v) /\ ~Switches(ch, c, v)
    <3>1. s = [c EXCEPT !.duration = d, !.debounce_cnt = c.debounce_cnt + 1]
      BY <2>2 DEF Sampled, d
    <3> HIDE DEF s
    <3>2. c.debounce_cnt + 1 \in Nat
      BY <1>2
    <3> QED
      BY <1>1, <1>2, <3>1, <3>2 DEF Context
  <2>3. CASE Switches(ch, c, v)
    <3>1. s = [state |-> NextState(c, v), debounce_cnt |-> 0,
               duration |-> IF Turns(ch, c, v) THEN 0 ELSE d]
      BY <2>3 DEF Sampled, Switches, d
    <3> HIDE DEF s
    <3> QED
      BY <1>1, <1>3, <2>3, <3>1 DEF Context
  <2> QED
    BY <2>1, <2>2, <2>3 DEF Switches
<1> QED
  BY <1>4, <1>5, <1>6 DEF ChannelType

\* The id of a report is one of the six.
LEMMA EventType ==
    ASSUME NEW ch \in Channels, NEW c, ChannelType(ch, c)
    PROVE  EventId(ch, c) \in 0..6
<1>1. c.state \in {0, 1, 2} /\ (ch = 2 \/ c.state # 2)
  BY DEF ChannelType, Context, States, HasUpper
<1> QED
  BY <1>1 DEF EventId, Channels

(***************************************************************************)
(* Types.                                                                  *)
(***************************************************************************)
StreakType == [DOMAIN Ranges -> Nat]

DebounceTypeOK ==
    /\ ctx \in [Channels -> Context]
    /\ \A ch \in Channels : ChannelType(ch, ctx[ch])
    /\ cur \in 0..Len(Message)
    /\ event \in 0..6
    /\ streak \in [Channels -> StreakType]
    /\ period \in [Channels -> 0..DURATION_CAP]

\* The caps of the history counters are numbers.
LEMMA Caps == \A ch \in Channels : /\ StreakCap(ch) \in Nat
                                   /\ StreakCap(ch) = DEBOUNCE[ch] + DEBOUNCE[ch]
BY Thresholds DEF StreakCap

(***************************************************************************)
(* The runs against the counter.                                           *)
(***************************************************************************)
RunInv(ch, c, s) ==
    /\ \A r \in DOMAIN Ranges : s[r] <= StreakCap(ch)
    /\ s.stop <= s.normal
    /\ c.state = 0 => s.start = c.debounce_cnt
    /\ c.state = 1 => /\ c.debounce_cnt <= s.outside
                      /\ ~HasUpper(ch) => c.debounce_cnt <= s.stop /\ s.stop <= c.debounce_cnt
                      /\ s.stop <= c.debounce_cnt + DEBOUNCE[ch]
    /\ c.state = 2 => s.normal = c.debounce_cnt

ChannelInv ==
    /\ DebounceTypeOK
    /\ \A ch \in Channels : RunInv(ch, ctx[ch], streak[ch])
    /\ DurationIsPeriod

\* How one sample changes the run lengths the history keeps.
LEMMA ExtendedRuns ==
    ASSUME NEW ch \in Channels, NEW v \in Levels, streak \in [Channels -> StreakType]
    PROVE  /\ Extended(ch, v) \in StreakType
           /\ \A r \in DOMAIN Ranges :
                Extended(ch, v)[r] = IF v \notin Ranges[r] THEN 0
                                     ELSE IF streak[ch][r] < StreakCap(ch)
                                          THEN streak[ch][r] + 1 ELSE streak[ch][r]
<1>1. streak[ch] \in StreakType
  OBVIOUS
<1>2. \A r \in DOMAIN Ranges : streak[ch][r] \in Nat
  BY <1>1 DEF StreakType
<1>3. \A r \in DOMAIN Ranges :
        Extended(ch, v)[r] = IF v \notin Ranges[r] THEN 0
                             ELSE IF streak[ch][r] < StreakCap(ch)
                                  THEN streak[ch][r] + 1 ELSE streak[ch][r]
  BY DEF Extended
<1>4. \A r \in DOMAIN Ranges : Extended(ch, v)[r] \in Nat
  BY <1>2, <1>3
<1> QED
  BY <1>3, <1>4 DEF Extended, StreakType

\* The runs after a sample, range by range.
LEMMA RunsAfter ==
    ASSUME NEW ch \in Channels, NEW v \in Levels, streak \in [Channels -> StreakType],
           \A r \in DOMAIN Ranges : streak[ch][r] <= StreakCap(ch)
    PROVE  LET s == streak[ch]
               t == Extended(ch, v)
           IN /\ {s.start, s.stop, s.normal, s.outside} \subseteq Nat
              /\ {t.start, t.stop, t.normal, t.outside} \subseteq Nat
              /\ \A r \in DOMAIN Ranges : t[r] <= StreakCap(ch)
              /\ v \in AboveStart /\ s.start < StreakCap(ch) => t.start = s.start + 1
              /\ v \notin AboveStart => t.start = 0
              /\ v \in BelowStop => t.stop <= s.stop + 1
              /\ v \in BelowStop /\ s.stop < StreakCap(ch) => t.stop = s.stop + 1
              /\ v \notin BelowStop => t.stop = 0
              /\ v \in BelowNormal /\ s.normal < StreakCap(ch) => t.normal = s.normal + 1
              /\ v \notin BelowNormal => t.normal = 0
              /\ s.stop <= s.normal => t.stop <= t.normal
              /\ v \in BelowStop \cup AboveUpper /\ s.outside < StreakCap(ch) =>
                    t.outside = s.outside + 1
              /\ v \in BelowStop \cup AboveUpper /\ s.outside = StreakCap(ch) =>
                    t.outside = s.outside
<1> DEFINE s == streak[ch]
           t == Extended(ch, v)
<1>1. \A r \in DOMAIN Ranges : s[r] \in Nat /\ t[r] \in Nat
  <2>1. s \in StreakType /\ t \in StreakType
    BY ExtendedRuns
  <2> QED
    BY <2>1 DEF StreakType
<1>2. StreakCap(ch) \in Nat
  BY Caps
<1>3. {"start", "stop", "normal", "outside"} \subseteq DOMAIN Ranges
  BY DEF Ranges
<1>4. /\ Ranges["start"] = AboveStart /\ Ranges["stop"] = BelowStop
      /\ Ranges["normal"] = BelowNormal /\ Ranges["outside"] = BelowStop \cup AboveUpper
  BY DEF Ranges
<1>5. BelowStop \subseteq BelowNormal
  BY DEF BelowStop, BelowNormal
<1>6. \A r \in DOMAIN Ranges :
        t[r] = IF v \notin Ranges[r] THEN 0
               ELSE IF s[r] < StreakCap(ch) THEN s[r] + 1 ELSE s[r]
  BY ExtendedRuns
<1> HIDE DEF s, t
<1>7. \A r \in DOMAIN Ranges : t[r] <= StreakCap(ch)
  BY <1>1, <1>2, <1>6 DEF s
<1>8. \A r \in DOMAIN Ranges : s[r] <= StreakCap(ch)
  BY DEF s
<1>9. /\ {s.start, s.stop, s.normal, s.outside} \subseteq Nat
      /\ {t.start, t.stop, t.normal, t.outside} \subseteq Nat
  BY <1>1, <1>3
<1>10. /\ v \in AboveStart /\ s.start < StreakCap(ch) => t.start = s.start + 1
       /\ v \notin AboveStart => t.start = 0
  BY <1>3, <1>4, <1>6
<1>11. /\ v \in BelowStop => t.stop <= s.stop + 1
       /\ v \in BelowStop /\ s.stop < StreakCap(ch) => t.stop = s.stop + 1
       /\ v \notin BelowStop => t.stop = 0
  BY <1>2, <1>3, <1>4, <1>6, <1>9
<1>12. /\ v \in BelowNormal /\ s.normal < StreakCap(ch) => t.normal = s.normal + 1
       /\ v \notin BelowNormal => t.normal = 0
  BY <1>3, <1>4, <1>6
<1>13. s.stop <= s.normal => t.stop <= t.normal
  BY <1>2, <1>3, <1>4, <1>5, <1>6, <1>8, <1>9
<1>14. /\ v \in BelowStop \cup AboveUpper /\ s.outside < StreakCap(ch) =>
            t.outside = s.outside + 1
       /\ v \in BelowStop \cup AboveUpper /\ s.outside = StreakCap(ch) =>
            t.outside = s.outside
  BY <1>2, <1>3, <1>4, <1>6, <1>9
<1> QED
  BY <1>7, <1>9, <1>10, <1>11, <1>12, <1>13, <1>14 DEF s, t

\* The ranges a switch is decided by exclude each other as far as needed.
LEMMA Disjoint ==
    /\ AboveStart \cap BelowStop = {}
    /\ AboveUpper \cap BelowNormal = {}
    /\ BelowStop \subseteq BelowNormal
BY DEF AboveStart, BelowStop, AboveUpper, BelowNormal

\* A sample keeps the runs and the counter in step.
LEMMA RunStep ==
    ASSUME NEW ch \in Channels, NEW v \in Levels, NEW c, ChannelType(ch, c),
           streak \in [Channels -> StreakType], RunInv(ch, c, streak[ch])
    PROVE  RunInv(ch, Sampled(ch, c, v), Extended(ch, v))
<1> DEFINE D == DEBOUNCE[ch]
           s == streak[ch]
           t == Extended(ch, v)
           n == Sampled(ch, c, v)
<1>1. /\ D \in Nat /\ D > 0 /\ StreakCap(ch) = D + D
      /\ c.debounce_cnt \in Nat /\ c.debounce_cnt < D
      /\ c.state \in {0, 1, 2}
      /\ HasUpper(ch) \/ c.state # 2
  BY Thresholds, Caps DEF ChannelType, Context, States
<1>2. \A r \in DOMAIN Ranges : s[r] <= StreakCap(ch)
  BY DEF RunInv
<1>3. /\ {s.start, s.stop, s.normal, s.outside} \subseteq Nat
      /\ {t.start, t.stop, t.normal, t.outside} \subseteq Nat
      /\ \A r \in DOMAIN Ranges : t[r] <= StreakCap(ch)
      /\ s.stop <= s.normal => t.stop <= t.normal
      /\ s.outside <= StreakCap(ch)
  BY <1>2, RunsAfter DEF Ranges
<1>4. t.stop <= t.normal
  BY <1>3 DEF RunInv
<1>5. CASE c.state = 0
  <2>1. s.start = c.debounce_cnt
    BY <1>5 DEF RunInv
  <2>2. CASE v \notin AboveStart
    <3>1. n.state = 0 /\ n.debounce_cnt = 0 /\ t.start = 0
      BY <1>2, <1>5, <2>2, StateCases, SampledState, RunsAfter
    <3> QED
      BY <1>3, <1>4, <3>1 DEF RunInv
  <2>3. CASE v \in AboveStart /\ ~Switches(ch, c, v)
    <3>1. n.state = 0 /\ n.debounce_cnt = c.debounce_cnt + 1
      BY <1>5, <2>3, StateCases, SampledState
    <3>2. t.start = s.start + 1
      BY <1>1, <1>2, <2>1, <2>3, RunsAfter
    <3> QED
      BY <1>3, <1>4, <2>1, <3>1, <3>2 DEF RunInv
  <2>4. CASE v \in AboveStart /\ Switches(ch, c, v)
    <3>1. n.state = 1 /\ n.debounce_cnt = 0
      BY <1>5, <2>4, StateCases, SampledState
    <3>2. t.stop = 0
      BY <1>2, <2>4, Disjoint, RunsAfter
    <3> QED
      BY <1>1, <1>3, <1>4, <3>1, <3>2 DEF RunInv
  <2> QED
    BY <2>2, <2>3, <2>4
<1>6. CASE c.state = 1
  <2>1. /\ c.debounce_cnt <= s.outside
        /\ ~HasUpper(ch) => c.debounce_cnt = s.stop
        /\ s.stop <= c.debounce_cnt + D
    BY <1>1, <1>3, <1>6 DEF RunInv
  <2>2. CASE ~Counts(ch, c, v)
    <3>1. n.state = 1 /\ n.debounce_cnt = 0
      BY <1>6, <2>2, SampledState
    <3>2. t.stop = 0
      BY <1>2, <1>6, <2>2, StateCases, RunsAfter
    <3> QED
      BY <1>1, <1>3, <1>4, <3>1, <3>2 DEF RunInv
  <2>3. CASE Counts(ch, c, v) /\ ~Switches(ch, c, v)
    <3>1. n.state = 1 /\ n.debounce_cnt = c.debounce_cnt + 1
      BY <1>6, <2>3, SampledState
    <3>2. v \in BelowStop \cup AboveUpper /\ (~HasUpper(ch) => v \in BelowStop)
      BY <1>6, <2>3, StateCases
    <3>3. c.debounce_cnt + 1 <= t.outside
      BY <1>1, <1>2, <1>3, <2>1, <3>2, RunsAfter
    <3>4. t.stop <= c.debounce_cnt + 1 + D
      BY <1>1, <1>2, <1>3, <2>1, RunsAfter
    <3>5. ~HasUpper(ch) => t.stop = c.debounce_cnt + 1
      BY <1>1, <1>2, <2>1, <3>2, RunsAfter
    <3> QED
      BY <1>1, <1>3, <1>4, <3>1, <3>3, <3>4, <3>5 DEF RunInv
  <2>4. CASE Switches(ch, c, v) /\ v \in BelowStop
    <3>1. n.state = 0 /\ n.debounce_cnt = 0
      BY <1>6, <2>4, StateCases, SampledState
    <3>2. t.start = 0
      BY <1>2, <2>4, Disjoint, RunsAfter
    <3> QED
      BY <1>3, <1>4, <3>1, <3>2 DEF RunInv
  <2>5. CASE Switches(ch, c, v) /\ v \notin BelowStop
    <3>1. n.state = 2 /\ n.debounce_cnt = 0 /\ v \in AboveUpper
      BY <1>6, <2>5, StateCases, SampledState DEF Switches
    <3>2. t.normal = 0
      BY <1>2, <3>1, Disjoint, RunsAfter
    <3> QED
      BY <1>3, <1>4, <3>1, <3>2 DEF RunInv
  <2> QED
    BY <2>2, <2>3, <2>4, <2>5 DEF Switches
<1>7. CASE c.state = 2
  <2>1. s.normal = c.debounce_cnt
    BY <1>7 DEF RunInv
  <2>2. CASE v \notin BelowNormal
    <3>1. n.state = 2 /\ n.debounce_cnt = 0 /\ t.normal = 0
      BY <1>2, <1>7, <2>2, StateCases, SampledState, RunsAfter
    <3> QED
      BY <1>3, <1>4, <3>1 DEF RunInv
  <2>3. CASE v \in BelowNormal /\ ~Switches(ch, c, v)
    <3>1. n.state = 2 /\ n.debounce_cnt = c.debounce_cnt + 1
      BY <1>7, <2>3, StateCases, SampledState
    <3>2. t.normal = s.normal + 1
      BY <1>1, <1>2, <2>1, <2>3, RunsAfter
    <3> QED
      BY <1>3, <1>4, <2>1, <3>1, <3>2 DEF RunInv
  <2>4. CASE v \in BelowNormal /\ Switches(ch, c, v)
    <3>1. n.state = 1 /\ n.debounce_cnt = 0
      BY <1>7, <2>4, StateCases, SampledState
    <3>2. t.normal = s.normal + 1 /\ t.stop <= D
      BY <1>1, <1>2, <1>3, <1>4, <2>1, <2>4, RunsAfter
    <3>3. HasUpper(ch)
      BY <1>1, <1>7
    <3> QED
      BY <1>1, <1>3, <1>4, <3>1, <3>2, <3>3 DEF RunInv
  <2> QED
    BY <2>2, <2>3, <2>4
<1> QED
  BY <1>1, <1>5, <1>6, <1>7

(***************************************************************************)
(* The invariant.                                                          *)
(***************************************************************************)
LEMMA StoppedRun == ASSUME NEW ch \in Channels
                    PROVE  ChannelType(ch, Stopped) /\ RunInv(ch, Stopped, NoStreak)
<1>1. Stopped \in Context
  BY Thresholds DEF Stopped, Context, States
<1>2. ChannelType(ch, Stopped)
  BY <1>1, Thresholds DEF ChannelType, Stopped
<1>3. \A r \in DOMAIN Ranges : NoStreak[r] = 0
  BY DEF NoStreak
<1>4. {"start", "stop", "normal", "outside"} \subseteq DOMAIN Ranges
  BY DEF Ranges
<1>5. StreakCap(ch) \in Nat
  BY Caps
<1> QED
  BY <1>2, <1>3, <1>4, <1>5 DEF RunInv, Stopped

\* The history of a channel that has just started or was just reset.
LEMMA FreshHistory ==
    /\ NoStreak \in StreakType
    /\ 0 \in 0..DURATION_CAP
BY Thresholds DEF NoStreak, StreakType

\* Every channel starts with a history that explains its context.
LEMMA ChannelInit == DebounceInit => ChannelInv
<1> SUFFICES ASSUME DebounceInit PROVE ChannelInv
  OBVIOUS
<1> USE DEF DebounceInit, MotorInit
<1>1. DebounceTypeOK
  <2>1. ctx \in [Channels -> Context]
    BY StoppedRun DEF ChannelType
  <2>2. \A ch \in Channels : ChannelType(ch, ctx[ch])
    BY StoppedRun
  <2>3. cur \in 0..Len(Message) /\ event \in 0..6
    BY Thresholds
  <2>4. streak \in [Channels -> StreakType] /\ period \in [Channels -> 0..DURATION_CAP]
    BY FreshHistory
  <2> QED
    BY <2>1, <2>2, <2>3, <2>4 DEF DebounceTypeOK
<1>2. \A ch \in Channels : RunInv(ch, ctx[ch], streak[ch])
  BY StoppedRun
<1>3. DurationIsPeriod
  BY DEF DurationIsPeriod, Stopped
<1> QED
  BY <1>1, <1>2, <1>3 DEF ChannelInv

\* One sample keeps every channel's context explained by its history.
LEMMA SampleKeeps ==
    ASSUME ChannelInv, NEW ch \in Channels, NEW v \in Levels, DebouncedSample(ch, v)
    PROVE  ChannelInv'
<1> USE DEF ChannelInv, DebounceTypeOK
<1>1. /\ ctx' = [ctx EXCEPT ![ch] = Sampled(ch, ctx[ch], v)]
      /\ streak' = [streak EXCEPT ![ch] = Extended(ch, v)]
      /\ cur # 0 /\ cur' = IF cur = Len(Message) THEN 0 ELSE cur + 1
      /\ event' = IF Reports(ch, ctx[ch], v) THEN EventId(ch, ctx[ch]) ELSE 0
      /\ period' = [period EXCEPT ![ch] = IF (ctx[ch].state = 0) # (ctx'[ch].state = 0)
                                          THEN 0 ELSE Longer(period[ch])]
  BY DEF DebouncedSample, Sample
<1>2. ChannelType(ch, ctx[ch]) /\ RunInv(ch, ctx[ch], streak[ch])
  OBVIOUS
<1>3. ChannelType(ch, ctx'[ch]) /\ ctx'[ch] = Sampled(ch, ctx[ch], v)
  BY <1>1, <1>2, SampledType
<1>4. RunInv(ch, ctx'[ch], streak'[ch])
  BY <1>1, <1>2, <1>3, RunStep
<1>5. ctx' \in [Channels -> Context] /\ \A k \in Channels : ChannelType(k, ctx'[k])
  BY <1>1, <1>3 DEF ChannelType
<1>6. streak' \in [Channels -> StreakType]
  BY <1>1, ExtendedRuns
<1>7. \A k \in Channels : RunInv(k, ctx'[k], streak'[k])
  BY <1>1, <1>4
<1>8. period'[ch] = ctx'[ch].duration
  BY <1>1, <1>2, <1>3, SampledState DEF DurationIsPeriod
<1>9. period' \in [Channels -> 0..DURATION_CAP]
  BY <1>1, LongerType, FreshHistory
<1>10. \A k \in Channels : ctx'[k].duration = period'[k]
  BY <1>1, <1>8 DEF DurationIsPeriod
<1>11. cur' \in 0..Len(Message)
  BY <1>1, Thresholds
<1>12. event' \in 0..6
  BY <1>1, <1>2, EventType
<1> QED
  BY <1>5, <1>6, <1>7, <1>9, <1>10, <1>11, <1>12 DEF DurationIsPeriod

\* So does the reset at a pile's end.
LEMMA ResetKeeps == ChannelInv /\ DebounceReset => ChannelInv'
<1> SUFFICES ASSUME ChannelInv, DebounceReset PROVE ChannelInv'
  OBVIOUS
<1> USE DEF ChannelInv, DebounceTypeOK
<1>1. /\ ctx' = [ch \in Channels |-> Stopped] /\ cur' = cur /\ event' = 0
      /\ streak' = [ch \in Channels |-> NoStreak]
      /\ period' = [ch \in Channels |-> 0]
  BY DEF DebounceReset, PileDone, ResetContexts
<1>2. ctx' \in [Channels -> Context] /\ \A ch \in Channels : ChannelType(ch, ctx'[ch])
  BY <1>1, StoppedRun DEF ChannelType
<1>3. \A ch \in Channels : RunInv(ch, ctx'[ch], streak'[ch])
  BY <1>1, StoppedRun
<1>4. streak' \in [Channels -> StreakType] /\ period' \in [Channels -> 0..DURATION_CAP]
  BY <1>1, FreshHistory
<1>5. \A ch \in Channels : ctx'[ch].duration = period'[ch]
  BY <1>1 DEF Stopped
<1> QED
  BY <1>1, <1>2, <1>3, <1>4, <1>5 DEF DurationIsPeriod

\* Every step keeps the invariant of the channels.
LEMMA ChannelInduction == ChannelInv /\ [DebounceNext]_debounceVars => ChannelInv'
<1> SUFFICES ASSUME ChannelInv, [DebounceNext]_debounceVars PROVE ChannelInv'
  OBVIOUS
<1>1. CASE MessageArrives /\ UNCHANGED <<streak, period>>
  <2>1. cur' = 1 /\ event' = 0 /\ UNCHANGED <<ctx, streak, period>>
    BY <1>1 DEF MessageArrives
  <2>2. 1 \in 0..Len(Message)
    BY MotorAssumption DEF MotorAssumption
  <2> QED
    BY <2>1, <2>2 DEF ChannelInv, DebounceTypeOK, DurationIsPeriod
<1>2. ASSUME NEW ch \in Channels, NEW v \in Levels, DebouncedSample(ch, v) PROVE ChannelInv'
  BY <1>2, SampleKeeps
<1>3. CASE DebounceReset
  BY <1>3, ResetKeeps
<1>4. CASE UNCHANGED debounceVars
  BY <1>4 DEF debounceVars, ChannelInv, DebounceTypeOK, DurationIsPeriod
<1> QED
  BY <1>1, <1>2, <1>3, <1>4 DEF DebounceNext

\* The invariant the theorems on motors rest on.
LEMMA ChannelInvariant == DebounceSpec => []ChannelInv
BY ChannelInit, ChannelInduction, PTL DEF DebounceSpec

(***************************************************************************)
(* The theorems.                                                           *)
(***************************************************************************)
\* The motors' contexts are well typed and no debounce counter reaches its threshold.
THEOREM MotorTypeCorrect == DebounceSpec => []MotorTypeOK
<1>1. ChannelInv => MotorTypeOK
  BY DEF ChannelInv, DebounceTypeOK, MotorTypeOK, ChannelType
<1> QED
  BY <1>1, ChannelInvariant, PTL

\* The duration in a report is the length of the whole running or stopped period.
THEOREM DurationsAreWhole == DebounceSpec => []DurationIsPeriod
<1>1. ChannelInv => DurationIsPeriod
  BY DEF ChannelInv
<1> QED
  BY <1>1, ChannelInvariant, PTL

\* A motor that has started, stopped or left its overload for the debounce time is seen to.
THEOREM DetectionIsPrompt == DebounceSpec => []Prompt
<1>1. ASSUME ChannelInv PROVE Prompt
  <2> SUFFICES ASSUME NEW ch \in Channels
               PROVE  /\ streak[ch].start >= DEBOUNCE[ch] => ctx[ch].state # 0
                      /\ streak[ch].stop >= (IF HasUpper(ch) THEN 2 ELSE 1) * DEBOUNCE[ch]
                            => ctx[ch].state = 0
                      /\ streak[ch].normal >= DEBOUNCE[ch] => ctx[ch].state # 2
    BY DEF Prompt
  <2> DEFINE D == DEBOUNCE[ch]
             s == streak[ch]
             c == ctx[ch]
  <2>1. /\ D \in Nat /\ D > 0
        /\ c.debounce_cnt \in Nat /\ c.debounce_cnt < D
        /\ c.state \in {0, 1, 2}
        /\ HasUpper(ch) \/ c.state # 2
        /\ RunInv(ch, c, s)
        /\ s \in StreakType
    BY <1>1, Thresholds DEF ChannelInv, DebounceTypeOK, ChannelType, Context, States
  <2>2. {s.start, s.stop, s.normal, s.outside} \subseteq Nat
    BY <2>1 DEF StreakType, Ranges
  <2>3. /\ c.state = 0 => s.start = c.debounce_cnt
        /\ c.state = 1 => /\ s.stop <= c.debounce_cnt + D
                          /\ ~HasUpper(ch) => s.stop <= c.debounce_cnt
        /\ c.state = 2 => s.normal = c.debounce_cnt
        /\ s.stop <= s.normal
    BY <2>1 DEF RunInv
  <2>4. s.start >= D => c.state # 0
    BY <2>1, <2>2, <2>3
  <2>5. s.normal >= D => c.state # 2
    BY <2>1, <2>2, <2>3
  <2>6. HasUpper(ch) /\ s.stop >= 2 * D => c.state = 0
    BY <2>1, <2>2, <2>3
  <2>7. ~HasUpper(ch) /\ s.stop >= 1 * D => c.state = 0
    BY <2>1, <2>2, <2>3
  <2> QED
    BY <2>4, <2>5, <2>6, <2>7
<1> QED
  BY <1>1, ChannelInvariant, PTL

\* What a sample that switches a channel has behind it.
LEMMA SwitchIsDebounced ==
    ASSUME NEW ch \in Channels, NEW v \in Levels, NEW c, ChannelType(ch, c),
           streak \in [Channels -> StreakType], RunInv(ch, c, streak[ch])
    PROVE  LET n == Sampled(ch, c, v)
               t == Extended(ch, v)
           IN /\ c.state = 0 /\ n.state # 0 => t.start >= DEBOUNCE[ch]
              /\ c.state = 2 /\ n.state # 2 => t.normal >= DEBOUNCE[ch] /\ n.state = 1
              /\ c.state = 1 /\ n.state # 1 =>
                    /\ t.outside >= DEBOUNCE[ch]
                    /\ ~HasUpper(ch) => t.stop >= DEBOUNCE[ch]
<1> DEFINE D == DEBOUNCE[ch]
           s == streak[ch]
           t == Extended(ch, v)
           n == Sampled(ch, c, v)
<1>1. /\ D \in Nat /\ D > 0 /\ StreakCap(ch) = D + D
      /\ c.debounce_cnt \in Nat /\ c.debounce_cnt < D
  BY Thresholds, Caps DEF ChannelType, Context
<1>2. \A r \in DOMAIN Ranges : s[r] <= StreakCap(ch)
  BY DEF RunInv
<1>3. /\ {s.start, s.stop, s.normal, s.outside} \subseteq Nat
      /\ {t.start, t.stop, t.normal, t.outside} \subseteq Nat
      /\ s.outside <= StreakCap(ch)
  BY <1>2, RunsAfter DEF Ranges
<1>4. n.state # c.state => Switches(ch, c, v) /\ n.state = NextState(c, v)
  BY SampledState DEF Switches
<1>5. Switches(ch, c, v) => Counts(ch, c, v) /\ c.debounce_cnt + 1 >= D
  BY DEF Switches
<1>6. c.state = 0 /\ n.state # 0 => t.start >= D
  <2> SUFFICES ASSUME c.state = 0, n.state # 0 PROVE t.start >= D
    OBVIOUS
  <2>1. v \in AboveStart /\ s.start = c.debounce_cnt
    BY <1>4, <1>5, StateCases DEF RunInv
  <2>2. t.start = s.start + 1
    BY <1>1, <1>2, <2>1, RunsAfter
  <2> QED
    BY <1>1, <1>4, <1>5, <2>1, <2>2
<1>7. c.state = 2 /\ n.state # 2 => t.normal >= D /\ n.state = 1
  <2> SUFFICES ASSUME c.state = 2, n.state # 2 PROVE t.normal >= D /\ n.state = 1
    OBVIOUS
  <2>1. v \in BelowNormal /\ s.normal = c.debounce_cnt /\ n.state = 1
    BY <1>4, <1>5, StateCases DEF RunInv
  <2>2. t.normal = s.normal + 1
    BY <1>1, <1>2, <2>1, RunsAfter
  <2> QED
    BY <1>1, <1>4, <1>5, <2>1, <2>2
<1>8. c.state = 1 /\ n.state # 1 => t.outside >= D /\ (~HasUpper(ch) => t.stop >= D)
  <2> SUFFICES ASSUME c.state = 1, n.state # 1
               PROVE  t.outside >= D /\ (~HasUpper(ch) => t.stop >= D)
    OBVIOUS
  <2>1. /\ v \in BelowStop \cup AboveUpper
        /\ ~HasUpper(ch) => v \in BelowStop
        /\ c.debounce_cnt <= s.outside
        /\ ~HasUpper(ch) => s.stop = c.debounce_cnt
    BY <1>1, <1>3, <1>4, <1>5, StateCases DEF RunInv
  <2>2. t.outside >= D
    BY <1>1, <1>2, <1>3, <1>4, <1>5, <2>1, RunsAfter
  <2>3. ~HasUpper(ch) => t.stop = s.stop + 1
    BY <1>1, <1>2, <2>1, RunsAfter
  <2> QED
    BY <1>1, <1>4, <1>5, <2>1, <2>2, <2>3
<1> QED
  BY <1>6, <1>7, <1>8

\* A channel changes state only after its debounce time's samples in a row.
THEOREM ChangesAreDebounced == DebounceSpec => Debounced
<1> DEFINE Changes(ch) ==
      /\ ctx[ch].state = 0 /\ ctx'[ch].state # 0 => streak'[ch].start >= DEBOUNCE[ch]
      /\ ctx[ch].state = 2 /\ ctx'[ch].state # 2 /\ cur # 0 =>
            streak'[ch].normal >= DEBOUNCE[ch] /\ ctx'[ch].state = 1
      /\ ctx[ch].state = 1 /\ ctx'[ch].state # 1 /\ cur # 0 =>
            /\ streak'[ch].outside >= DEBOUNCE[ch]
            /\ ~HasUpper(ch) => streak'[ch].stop >= DEBOUNCE[ch]
<1>1. ASSUME ChannelInv, DebounceNext, NEW ch \in Channels PROVE Changes(ch)
  <2>1. CASE MessageArrives
    BY <2>1 DEF MessageArrives
  <2>2. ASSUME NEW k \in Channels, NEW v \in Levels, DebouncedSample(k, v) PROVE Changes(ch)
    <3>1. /\ ctx' = [ctx EXCEPT ![k] = Sampled(k, ctx[k], v)]
          /\ streak' = [streak EXCEPT ![k] = Extended(k, v)]
      BY <2>2 DEF DebouncedSample, Sample
    <3>2. /\ ctx \in [Channels -> Context] /\ streak \in [Channels -> StreakType]
          /\ ChannelType(k, ctx[k]) /\ RunInv(k, ctx[k], streak[k])
      BY <1>1 DEF ChannelInv, DebounceTypeOK
    <3>3. CASE ch # k
      BY <3>1, <3>2, <3>3
    <3>4. CASE ch = k
      <4>1. ctx'[ch] = Sampled(ch, ctx[ch], v) /\ streak'[ch] = Extended(ch, v)
        BY <3>1, <3>2, <3>4
      <4> QED
        BY <3>2, <3>4, <4>1, SwitchIsDebounced
    <3> QED
      BY <3>3, <3>4
  <2>3. CASE DebounceReset
    <3>1. ctx'[ch].state = 0 /\ cur = 0
      BY <2>3 DEF DebounceReset, PileDone, ResetContexts, Stopped
    <3> QED
      BY <3>1
  <2> QED
    BY <1>1, <2>1, <2>2, <2>3 DEF DebounceNext
<1>2. ChannelInv /\ [DebounceNext]_debounceVars
        => [\A ch \in Channels : Changes(ch)]_debounceVars
  BY <1>1
<1>3. DebounceSpec => [][\A ch \in Channels : Changes(ch)]_debounceVars
  BY <1>2, ChannelInvariant, PTL DEF DebounceSpec
<1> QED
  BY <1>3 DEF Debounced
=============================================================================
