--------------------------- MODULE MotorDebounce ---------------------------
(***************************************************************************)
(* Motor with the recent samples of every channel as history: what the     *)
(* contexts say about the motors, measured against what was sampled.       *)
(***************************************************************************)
EXTENDS Motor

VARIABLES
    streak,   \* per channel and range: length of the run of samples in it
    period    \* per channel: samples since the motor last started or stopped

debounceVars == <<ctx, cur, event, streak, period>>

Ranges == [start |-> AboveStart, stop |-> BelowStop, upper |-> AboveUpper,
           normal |-> BelowNormal, outside |-> BelowStop \cup AboveUpper]

\* Longest run worth counting: two states to leave, one after the other.
StreakCap(ch) == 2 * DEBOUNCE[ch]

Extended(ch, v) ==
    [r \in DOMAIN Ranges |->
        IF v \notin Ranges[r] THEN 0
        ELSE IF streak[ch][r] < StreakCap(ch) THEN streak[ch][r] + 1
        ELSE streak[ch][r]]

NoStreak == [r \in DOMAIN Ranges |-> 0]

DebounceInit ==
    /\ MotorInit
    /\ streak = [ch \in Channels |-> NoStreak]
    /\ period = [ch \in Channels |-> 0]

DebouncedSample(ch, v) ==
    /\ Sample(ch, v)
    /\ streak' = [streak EXCEPT ![ch] = Extended(ch, v)]
    /\ period' = [period EXCEPT ![ch] = IF (ctx[ch].state = 0) # (ctx'[ch].state = 0)
                                        THEN 0 ELSE Longer(@)]

DebounceReset ==
    /\ PileDone
    /\ streak' = [ch \in Channels |-> NoStreak]
    /\ period' = [ch \in Channels |-> 0]

DebounceNext ==
    \/ MessageArrives /\ UNCHANGED <<streak, period>>
    \/ \E ch \in Channels, v \in Levels : DebouncedSample(ch, v)
    \/ DebounceReset

DebounceSpec == DebounceInit /\ [][DebounceNext]_debounceVars

(***************************************************************************)
(* Properties.                                                             *)
(***************************************************************************)
\* A channel changes state only after debounce_threshold samples in a row that
\* speak for it, whatever states and messages they were spread over: the counter
\* never carries samples of an earlier state into a later one.  Leaving the
\* running state is the exception the code makes: on the ramming channel stop and
\* overload samples share the counter (lines 275 and 289), so the run may mix
\* both and its last sample decides.
Debounced ==
    [][ \A ch \in Channels :
          /\ ctx[ch].state = 0 /\ ctx'[ch].state # 0 => streak'[ch].start >= DEBOUNCE[ch]
          /\ ctx[ch].state = 2 /\ ctx'[ch].state # 2 /\ cur # 0 =>
                streak'[ch].normal >= DEBOUNCE[ch] /\ ctx'[ch].state = 1
          /\ ctx[ch].state = 1 /\ ctx'[ch].state # 1 /\ cur # 0 =>
                /\ streak'[ch].outside >= DEBOUNCE[ch]
                /\ ~HasUpper(ch) => streak'[ch].stop >= DEBOUNCE[ch] ]_debounceVars

\* The detection is not only safe but prompt: enough samples in a row decide the
\* state, also when the run began in the middle of another debounce.  A motor in
\* overload needs two rounds to stop, through state 1.
Prompt ==
    \A ch \in Channels :
      /\ streak[ch].start >= DEBOUNCE[ch] => ctx[ch].state # 0
      /\ streak[ch].stop >= (IF HasUpper(ch) THEN 2 ELSE 1) * DEBOUNCE[ch] => ctx[ch].state = 0
      /\ streak[ch].normal >= DEBOUNCE[ch] => ctx[ch].state # 2

\* ctx.duration is the length of the whole running or stopped period: going into
\* and out of overload does not cut a running period in two.
DurationIsPeriod == \A ch \in Channels : ctx[ch].duration = period[ch]
=============================================================================
