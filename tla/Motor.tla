------------------------------- MODULE Motor -------------------------------
(***************************************************************************)
(* The current measurement of the pile machine's three motors: the         *)
(* bl0939 "data" handler of pile_LS.lua and the process reports that       *)
(* state_change_handle sends from it.                                      *)
(*                                                                         *)
(* A message of the sampler holds the samples of channel 1 (filling), then *)
(* those of channel 2 (ramming), then the one of channel 3 (walking).  The *)
(* handler takes them one at a time, one step each; no other handler of    *)
(* the event loop runs inside it (cur # 0).                                *)
(*                                                                         *)
(* Abstracted: a sample is one of the five ranges the thresholds cut the   *)
(* current into; active_utc, times, on_time, off_time and upper_times are  *)
(* written into reports and read nowhere else.                             *)
(***************************************************************************)
EXTENDS Integers, Sequences, FiniteSets

CONSTANTS
    Message,       \* channels of a message's samples, in order
    DEBOUNCE,      \* cfg.debounce_threshold of each channel: <<3, 3, 2>>
    REPORT_MIN,    \* durations a report must exceed: <<25, 500>>, and -1
    DURATION_CAP   \* bound: ctx.duration saturates, beyond what is compared

Channels == 1..3
Levels == {"low", "dead", "run", "load", "over"}
States == 0..2     \* stopped, running, running above upper_value

ASSUME MotorAssumption ==
    /\ Message \in Seq(Channels)
    /\ Len(Message) > 0
    /\ DEBOUNCE \in [Channels -> Nat \ {0}]
    /\ REPORT_MIN \in [Channels -> Nat \cup {-1}]
    /\ DURATION_CAP \in Nat

VARIABLES
    ctx,      \* E_motor_context
    cur,      \* position in Message of the sample in hand, 0 between messages
    event     \* id of the process record this sample reported, 0 if none

motorVars == <<ctx, cur, event>>

Context == [state : States, debounce_cnt : Nat, duration : 0..DURATION_CAP]

AboveStart == {"run", "load", "over"}    \* value > cfg.start_value
BelowStop == {"low"}                     \* value < cfg.stop_value
HasUpper(ch) == ch = 2                   \* cfg.upper_value ~= nil
AboveUpper == {"over"}                   \* value > cfg.upper_value
BelowNormal == {"low", "dead", "run"}    \* value < cfg.normal_value

MotorTypeOK ==
    /\ ctx \in [Channels -> Context]
    /\ \A ch \in Channels : ctx[ch].debounce_cnt < DEBOUNCE[ch]
    /\ cur \in 0..Len(Message)
    /\ event \in 0..6

(***************************************************************************)
(* One sample.                                                             *)
(***************************************************************************)
Longer(d) == IF d < DURATION_CAP THEN d + 1 ELSE d

\* Overload is left only when the motor stops.
MutCounts(ch, c, v) ==
    CASE c.state = 0 -> v \in AboveStart
      [] c.state = 1 -> v \in BelowStop \/ (HasUpper(ch) /\ v \in AboveUpper)
      [] c.state = 2 -> v \in BelowStop

\* The sample counts towards leaving the state the channel is in.
Counts(ch, c, v) ==
    CASE c.state = 0 -> v \in AboveStart
      [] c.state = 1 -> v \in BelowStop \/ (HasUpper(ch) /\ v \in AboveUpper)
      [] c.state = 2 -> v \in BelowNormal

MutSwitches(ch, c, v) == Counts(ch, c, v) /\ c.debounce_cnt >= DEBOUNCE[ch]
Switches(ch, c, v) == Counts(ch, c, v) /\ c.debounce_cnt + 1 >= DEBOUNCE[ch]

NextState(c, v) ==
    CASE c.state = 0 -> 1
      [] c.state = 1 -> IF v \in BelowStop THEN 0 ELSE 2
      [] c.state = 2 -> 1

\* The motor starts or stops: state_change_handle runs, and a new period begins.
Turns(ch, c, v) == Switches(ch, c, v) /\ 0 \in {c.state, NextState(c, v)}

\* The overload ends the period too.
MutSampledPeriod(ch, c, v) ==
    LET d == Longer(c.duration) IN
    IF ~Counts(ch, c, v) THEN [c EXCEPT !.duration = d, !.debounce_cnt = 0]
    ELSE IF ~Switches(ch, c, v)
         THEN [c EXCEPT !.duration = d, !.debounce_cnt = @ + 1]
         ELSE [state |-> NextState(c, v), debounce_cnt |-> 0, duration |-> 0]

Sampled(ch, c, v) ==
    LET d == Longer(c.duration) IN
    IF ~Counts(ch, c, v) THEN [c EXCEPT !.duration = d, !.debounce_cnt = 0]
    ELSE IF ~Switches(ch, c, v)
         THEN [c EXCEPT !.duration = d, !.debounce_cnt = @ + 1]
         ELSE [state |-> NextState(c, v), debounce_cnt |-> 0,
               duration |-> IF Turns(ch, c, v) THEN 0 ELSE d]

\* state_change_handle runs before the state changes: c.state is the old one,
\* c.duration the length of the period that ends.
Reports(ch, c, v) == Turns(ch, c, v) /\ Longer(c.duration) > REPORT_MIN[ch]
EventId(ch, c) == 2 * ch - 1 + c.state

(***************************************************************************)
(* The handlers.                                                           *)
(***************************************************************************)
Stopped == [state |-> 0, debounce_cnt |-> 0, duration |-> 0]

MotorInit ==
    /\ ctx = [ch \in Channels |-> Stopped]
    /\ cur = 0
    /\ event = 0

\* A line of the sampler arrives.
MessageArrives ==
    /\ cur = 0
    /\ cur' = 1
    /\ event' = 0
    /\ UNCHANGED ctx

Sample(ch, v) ==
    /\ cur # 0
    /\ ch = Message[cur]
    /\ ctx' = [ctx EXCEPT ![ch] = Sampled(ch, @, v)]
    /\ event' = IF Reports(ch, ctx[ch], v) THEN EventId(ch, ctx[ch]) ELSE 0
    /\ cur' = IF cur = Len(Message) THEN 0 ELSE cur + 1

\* The reset forgets the debounce counters.
MutResetContexts == [ch \in Channels |-> [ctx[ch] EXCEPT !.state = 0, !.duration = 0]]

\* The reset of all contexts in pile_work_done_check.
ResetContexts == [ch \in Channels |-> Stopped]

PileDone ==
    /\ cur = 0
    /\ ctx' = ResetContexts
    /\ event' = 0
    /\ UNCHANGED cur

=============================================================================
