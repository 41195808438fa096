----------------------------- MODULE FeRxProofs -----------------------------
(***************************************************************************)
(* The theorems about FeRx, for every ring size, budget and set of buffers *)
(* and frames: the hardware only writes into the ring's own buffers, and   *)
(* the ring implements FrameFifo.                                          *)
(*                                                                         *)
(* The refinement rests on RxInv: the slots with RX_DMA_DONE are those     *)
(* from the one fe_poll_rx handles next to the hardware's, and the one     *)
(* just handled; the poll's index is where its step says.                  *)
(***************************************************************************)
EXTENDS FeRx, SequenceTheorems, TLAPS

(***************************************************************************)
(* Ring arithmetic.                                                        *)
(***************************************************************************)
Ahead(i, j) == (j - i) % RING

\* The constants, as the provers want them.
LEMMA RxRing ==
    /\ RING \in Nat /\ RING > 1 /\ BUDGET \in Nat /\ BUDGET > 0
    /\ NoFrame \notin Frames
BY FeRxAssumption DEF FeRxAssumption

\* NEXT_RX_DESP_IDX goes round.
LEMMA NextRxCases ==
    ASSUME NEW i \in Slots
    PROVE  NextRx(i) \in Slots /\ NextRx(i) = IF i = RING - 1 THEN 0 ELSE i + 1
BY RxRing, SMTT(30) DEF NextRx, Slots

\* The distance from i to j, going forward.
LEMMA RxAheadCases ==
    ASSUME NEW i \in Slots, NEW j \in Slots
    PROVE  /\ Ahead(i, j) \in Slots
           /\ Ahead(i, j) = IF j >= i THEN j - i ELSE j - i + RING
BY RxRing, SMTT(30) DEF Ahead, Slots

\* Different slots are at different distances.
LEMMA AheadInjective ==
    ASSUME NEW a \in Slots, NEW i \in Slots, NEW j \in Slots
    PROVE  Ahead(a, i) = Ahead(a, j) <=> i = j
<1>1. Ahead(a, i) = IF i >= a THEN i - a ELSE i - a + RING
  BY RxAheadCases
<1>2. Ahead(a, j) = IF j >= a THEN j - a ELSE j - a + RING
  BY RxAheadCases
<1> QED
  BY <1>1, <1>2, RxRing DEF Slots

\* The next slot is one further away, unless it is a itself.
LEMMA AheadNext ==
    ASSUME NEW a \in Slots, NEW i \in Slots, NextRx(i) # a
    PROVE  Ahead(a, NextRx(i)) = Ahead(a, i) + 1
<1>1. NextRx(i) \in Slots /\ NextRx(i) = IF i = RING - 1 THEN 0 ELSE i + 1
  BY NextRxCases
<1>2. Ahead(a, i) = IF i >= a THEN i - a ELSE i - a + RING
  BY RxAheadCases
<1>3. Ahead(a, NextRx(i)) = IF NextRx(i) >= a THEN NextRx(i) - a ELSE NextRx(i) - a + RING
  BY <1>1, RxAheadCases
<1> QED
  BY <1>1, <1>2, <1>3, RxRing DEF Slots

\* Seen from the next slot every other slot is one nearer.
LEMMA AheadOfNext ==
    ASSUME NEW a \in Slots, NEW i \in Slots
    PROVE  Ahead(NextRx(a), i) = IF i = a THEN RING - 1 ELSE Ahead(a, i) - 1
<1>1. NextRx(a) \in Slots /\ NextRx(a) = IF a = RING - 1 THEN 0 ELSE a + 1
  BY NextRxCases
<1>2. Ahead(a, i) = IF i >= a THEN i - a ELSE i - a + RING
  BY RxAheadCases
<1>3. Ahead(NextRx(a), i) = IF i >= NextRx(a) THEN i - NextRx(a) ELSE i - NextRx(a) + RING
  BY <1>1, RxAheadCases
<1> QED
  BY <1>1, <1>2, <1>3, RxRing DEF Slots

\* The k-th slot from i.
LEMMA KthSlot ==
    ASSUME NEW i \in Slots, NEW k \in 1..RING
    PROVE  /\ (i + k - 1) % RING \in Slots
           /\ (i + k - 1) % RING = IF i + k - 1 < RING THEN i + k - 1 ELSE i + k - 1 - RING
BY RxRing, SMTT(30) DEF Slots

(***************************************************************************)
(* The invariant.                                                          *)
(***************************************************************************)
\* Where the poll's index and count are at each of its steps.
IndexInv ==
    /\ poll = "look" => idx = calc
    /\ poll \in {"frame", "release", "kick"} => idx = NextRx(calc) /\ done < BUDGET
    /\ poll = "frame" => frame[idx] # NoFrame
    /\ poll \in {"release", "kick"} => drx # idx

\* The slots that are done lie between the poll and the hardware.
WindowInv ==
    \A i \in Slots :
        frame[i] # NoFrame <=>
            Ahead(First, i) < Ahead(First, drx) \/ (poll = "release" /\ i = idx)

RxInv == RxTypeOK /\ BuffersOwned /\ IndexInv /\ WindowInv

LEMMA FirstIsSlot ==
    ASSUME RxTypeOK
    PROVE  First \in Slots
BY NextRxCases DEF RxTypeOK, First

\* The slot behind the hardware's is not the poll's next one, as long as there is room.
LEMMA RoomLeft ==
    ASSUME RxInv, drx # calc
    PROVE  NextRx(drx) # First
<1>1. drx \in Slots /\ calc \in Slots /\ idx \in Slots
  BY DEF RxInv, RxTypeOK
<1>2. \A i, j \in Slots : i # j => NextRx(i) # NextRx(j)
  <2> SUFFICES ASSUME NEW i \in Slots, NEW j \in Slots, i # j PROVE NextRx(i) # NextRx(j)
    OBVIOUS
  <2>1. /\ NextRx(i) = IF i = RING - 1 THEN 0 ELSE i + 1
        /\ NextRx(j) = IF j = RING - 1 THEN 0 ELSE j + 1
    BY NextRxCases
  <2> QED
    BY <2>1, RxRing DEF Slots
<1>3. First = NextRx(calc) \/ (First = NextRx(idx) /\ drx # idx)
  BY DEF First, RxInv, IndexInv
<1> QED
  BY <1>1, <1>2, <1>3

\* The hardware fills the slot behind the window.
LEMMA HwStep ==
    ASSUME RxInv, NEW f \in Frames, HwReceive(f)
    PROVE  RxInv'
<1>1. /\ drx \in Slots /\ calc \in Slots /\ idx \in Slots /\ drx # calc
      /\ frame \in [Slots -> Frames \cup {NoFrame}]
  BY DEF RxInv, RxTypeOK, HwReceive
<1>2. /\ drx' = NextRx(drx) /\ frame' = [frame EXCEPT ![drx] = f] /\ rx_int' = TRUE
      /\ calc' = calc /\ data' = data /\ held' = held /\ passed' = passed
      /\ enabled' = enabled /\ sched' = sched /\ poll' = poll /\ idx' = idx /\ done' = done
  BY DEF HwReceive, pollVars
<1>3. RxTypeOK'
  BY <1>1, <1>2, NextRxCases DEF RxInv, RxTypeOK
<1>4. BuffersOwned'
  BY <1>2 DEF RxInv, BuffersOwned, Distinct
<1>5. IndexInv'
  <2>1. poll = "frame" => frame'[idx] # NoFrame
    BY <1>1, <1>2, RxRing DEF RxInv, IndexInv
  <2>2. poll \in {"release", "kick"} => drx' # idx
    BY <1>1, <1>2, NextRxCases, RxRing DEF RxInv, IndexInv, Slots
  <2> QED
    BY <1>2, <2>1, <2>2 DEF RxInv, IndexInv
<1>6. WindowInv'
  <2>1. First \in Slots /\ First' = First
    BY <1>2, FirstIsSlot DEF RxInv, First
  <2>2. Ahead(First, NextRx(drx)) = Ahead(First, drx) + 1
    <3>1. NextRx(drx) # First
      BY <1>1, RoomLeft
    <3> QED
      BY <1>1, <2>1, <3>1, AheadNext
  <2> SUFFICES ASSUME NEW i \in Slots
               PROVE  frame'[i] # NoFrame <=>
                        Ahead(First, i) < Ahead(First, drx) + 1 \/ (poll = "release" /\ i = idx)
    BY <1>2, <2>1, <2>2 DEF WindowInv
  <2>3. Ahead(First, i) = Ahead(First, drx) <=> i = drx
    BY <1>1, <2>1, AheadInjective
  <2>4. Ahead(First, i) \in Nat /\ Ahead(First, drx) \in Nat
    BY <1>1, <2>1, RxAheadCases DEF Slots
  <2>5. CASE i = drx
    BY <1>1, <1>2, <2>3, <2>4, <2>5, RxRing
  <2>6. CASE i # drx
    BY <1>1, <1>2, <2>3, <2>4, <2>6 DEF RxInv, WindowInv
  <2> QED
    BY <2>5, <2>6
<1> QED
  BY <1>3, <1>4, <1>5, <1>6 DEF RxInv

\* A frame is handled: the window begins one slot later.
LEMMA HandleStep ==
    ASSUME RxInv, Take \/ Drop
    PROVE  RxInv'
<1>1. /\ drx \in Slots /\ calc \in Slots /\ idx \in Slots
      /\ data \in [Slots -> Buffers] /\ held \subseteq Buffers
  BY DEF RxInv, RxTypeOK
<1>2. /\ poll = "frame" /\ poll' = "release"
      /\ calc' = calc /\ drx' = drx /\ frame' = frame /\ rx_int' = rx_int
      /\ enabled' = enabled /\ sched' = sched /\ idx' = idx /\ done' = done
  BY DEF Take, Drop, ringVars, napiVars
<1>3. \/ /\ \E new \in Unused : data' = [data EXCEPT ![idx] = new]
         /\ held' = held \cup {data[idx]} /\ passed' = frame[idx]
      \/ data' = data /\ held' = held /\ passed' = passed
  BY DEF Take, Drop, ringVars
<1>4. RxTypeOK'
  BY <1>1, <1>2, <1>3 DEF RxInv, RxTypeOK, Unused, RxPolls
<1>5. BuffersOwned'
  BY <1>1, <1>3 DEF RxInv, BuffersOwned, Distinct, Unused
<1>6. First = idx /\ First' = NextRx(idx)
  BY <1>2 DEF RxInv, IndexInv, First
<1>7. drx # idx
  <2>1. Ahead(idx, idx) < Ahead(idx, drx)
    BY <1>1, <1>2, <1>6 DEF RxInv, IndexInv, WindowInv
  <2> QED
    BY <1>1, <2>1, RxAheadCases DEF Slots
<1>8. IndexInv'
  BY <1>2, <1>7 DEF RxInv, IndexInv
<1>9. WindowInv'
  <2> SUFFICES ASSUME NEW i \in Slots
               PROVE  frame[i] # NoFrame <=>
                        Ahead(NextRx(idx), i) < Ahead(NextRx(idx), drx) \/ i = idx
    BY <1>2, <1>6 DEF WindowInv
  <2>1. frame[i] # NoFrame <=> Ahead(idx, i) < Ahead(idx, drx)
    BY <1>2, <1>6 DEF RxInv, WindowInv
  <2>2. Ahead(NextRx(idx), drx) = Ahead(idx, drx) - 1
    BY <1>1, <1>7, AheadOfNext
  <2>3. Ahead(idx, drx) \in Slots /\ Ahead(idx, i) \in Slots
    BY <1>1, RxAheadCases
  <2>4. CASE i = idx
    <3>1. frame[idx] # NoFrame
      BY <1>2 DEF RxInv, IndexInv
    <3> QED
      BY <2>4, <3>1
  <2>5. CASE i # idx
    <3>1. Ahead(NextRx(idx), i) = Ahead(idx, i) - 1
      BY <1>1, <2>5, AheadOfNext
    <3> QED
      BY <2>1, <2>2, <2>3, <2>5, <3>1 DEF Slots
  <2> QED
    BY <2>4, <2>5
<1> QED
  BY <1>4, <1>5, <1>8, <1>9 DEF RxInv

\* The slot is given back: its bit, then the index.
LEMMA GiveBackStep ==
    ASSUME RxInv, Release \/ Kick
    PROVE  RxInv'
<1>1. /\ drx \in Slots /\ calc \in Slots /\ idx \in Slots /\ done \in 0..BUDGET
      /\ frame \in [Slots -> Frames \cup {NoFrame}]
  BY DEF RxInv, RxTypeOK
<1>2. CASE Release
  <2>1. /\ poll = "release" /\ poll' = "kick" /\ frame' = [frame EXCEPT ![idx] = NoFrame]
        /\ UNCHANGED <<calc, drx, data, held, passed, rx_int, enabled, sched, idx, done>>
    BY <1>2 DEF Release, napiVars
  <2>2. RxTypeOK' /\ BuffersOwned' /\ IndexInv'
    BY <1>1, <2>1 DEF RxInv, RxTypeOK, RxPolls, BuffersOwned, Distinct, IndexInv
  <2>3. First = NextRx(idx) /\ First' = First
    BY <2>1 DEF First
  <2>4. ~(Ahead(First, idx) < Ahead(First, drx))
    <3>1. Ahead(First, idx) = RING - 1
      BY <1>1, <2>3, AheadOfNext
    <3>2. Ahead(First, drx) \in Slots
      BY <1>1, <2>3, NextRxCases, RxAheadCases
    <3> QED
      BY <3>1, <3>2, RxRing DEF Slots
  <2>5. WindowInv'
    BY <1>1, <2>1, <2>3, <2>4 DEF RxInv, WindowInv
  <2> QED
    BY <2>2, <2>5 DEF RxInv
<1>3. CASE Kick
  <2>1. /\ poll = "kick" /\ poll' = "look" /\ calc' = idx /\ done' = done + 1
        /\ UNCHANGED <<drx, frame, data, held, passed, rx_int, enabled, sched, idx>>
    BY <1>3 DEF Kick, napiVars
  <2>2. done < BUDGET
    BY <2>1 DEF RxInv, IndexInv
  <2>3. RxTypeOK'
    BY <1>1, <2>1, <2>2, RxRing DEF RxInv, RxTypeOK, RxPolls
  <2>4. BuffersOwned' /\ IndexInv'
    BY <2>1 DEF RxInv, BuffersOwned, Distinct, IndexInv
  <2>5. First = NextRx(idx) /\ First' = First
    BY <2>1 DEF First
  <2>6. WindowInv'
    BY <2>1, <2>5 DEF RxInv, WindowInv
  <2> QED
    BY <2>3, <2>4, <2>6 DEF RxInv
<1> QED
  BY <1>2, <1>3

\* The ring starts empty, with all slots but one handed over.
LEMMA EmptyWindow ==
    ASSUME calc = RING - 1, drx = 0, frame = [i \in Slots |-> NoFrame],
           poll \notin {"release", "kick"}
    PROVE  WindowInv /\ First = 0 /\ Ahead(First, drx) = 0
<1>1. RING - 1 \in Slots /\ 0 \in Slots
  BY RxRing DEF Slots
<1>2. First = 0
  BY <1>1, NextRxCases DEF First
<1>3. Ahead(First, drx) = 0
  BY <1>1, <1>2, RxAheadCases
<1>4. \A i \in Slots : Ahead(First, i) \in Nat
  BY <1>1, <1>2, RxAheadCases DEF Slots
<1> QED
  BY <1>2, <1>3, <1>4 DEF WindowInv

LEMMA ReopenStep ==
    ASSUME RxInv, Reopen
    PROVE  RxInv'
<1>1. /\ poll = "idle" /\ poll' = "idle" /\ calc' = RING - 1 /\ drx' = 0
      /\ frame' = [i \in Slots |-> NoFrame] /\ enabled' = TRUE
      /\ UNCHANGED <<data, held, passed, rx_int, sched, idx, done>>
  BY DEF Reopen, pollVars
<1>2. RING - 1 \in Slots /\ 0 \in Slots
  BY RxRing DEF Slots
<1>3. RxTypeOK' /\ BuffersOwned' /\ IndexInv'
  BY <1>1, <1>2 DEF RxInv, RxTypeOK, RxPolls, BuffersOwned, Distinct, IndexInv
<1>4. WindowInv'
  <2>1. poll' \notin {"release", "kick"}
    BY <1>1
  <2>2. First' = 0
    BY <1>1, <1>2, NextRxCases, RxRing DEF First
  <2>3. Ahead(0, 0) = 0 /\ \A i \in Slots : Ahead(0, i) \in Nat
    BY <1>2, RxAheadCases DEF Slots
  <2> QED
    BY <1>1, <2>1, <2>2, <2>3 DEF WindowInv
<1> QED
  BY <1>3, <1>4 DEF RxInv

\* The other steps leave the ring alone.
LEMMA QuietStep ==
    ASSUME RxInv,
           \/ \E b \in Buffers : Free(b)
           \/ Irq \/ PollStart \/ Look \/ Ack \/ End \/ Enable \/ UNCHANGED rxVars
    PROVE  RxInv' /\ First' = First /\ UNCHANGED <<calc, drx, frame, data, passed>>
<1> USE DEF ringVars, napiVars, pollVars
<1>1. UNCHANGED <<calc, drx, frame, data, passed>> /\ held' \subseteq held
  BY DEF Free, Irq, PollStart, Look, Ack, End, Enable, rxVars
<1>2. calc \in Slots /\ idx \in Slots /\ done \in 0..BUDGET /\ NextRx(calc) \in Slots
  BY NextRxCases DEF RxInv, RxTypeOK
<1>3. /\ rx_int' \in BOOLEAN /\ enabled' \in BOOLEAN /\ sched' \in BOOLEAN
      /\ poll' \in RxPolls /\ idx' \in Slots /\ done' \in 0..BUDGET
  <2>1. 0 \in Slots /\ 0 \in 0..BUDGET
    BY RxRing DEF Slots
  <2>2. poll = "look" => NextRx(idx) \in Slots
    BY <1>2, NextRxCases
  <2> QED
    BY <1>2, <2>1, <2>2
       DEF RxInv, RxTypeOK, RxPolls, Free, Irq, PollStart, Look, Ack, End, Enable, rxVars
<1>4. RxTypeOK' /\ BuffersOwned'
  BY <1>1, <1>3 DEF RxInv, RxTypeOK, BuffersOwned, Distinct
<1>5. IndexInv'
  BY <1>1 DEF RxInv, RxTypeOK, IndexInv, RxPolls, Free, Irq, PollStart, Look, Ack, End,
              Enable, rxVars
<1>6. poll' \in {"release", "kick"} <=> poll \in {"release", "kick"}
  BY DEF Free, Irq, PollStart, Look, Ack, End, Enable, rxVars
<1>7. poll \in {"release", "kick"} => idx' = idx /\ poll' = poll
  BY DEF Free, Irq, PollStart, Look, Ack, End, Enable, rxVars
<1>8. First' = First
  BY <1>1, <1>6, <1>7 DEF First
<1>9. WindowInv'
  BY <1>1, <1>6, <1>7, <1>8 DEF RxInv, WindowInv
<1> QED
  BY <1>1, <1>4, <1>5, <1>8, <1>9 DEF RxInv

LEMMA RxInitInv ==
    ASSUME RxInit
    PROVE  RxInv
<1>1. RING - 1 \in Slots /\ 0 \in Slots /\ 0 \in 0..BUDGET
  BY RxRing DEF Slots
<1>2. RxTypeOK /\ BuffersOwned /\ IndexInv
  BY <1>1 DEF RxInit, RxTypeOK, RxPolls, BuffersOwned, IndexInv
<1>3. WindowInv
  BY EmptyWindow DEF RxInit
<1> QED
  BY <1>2, <1>3 DEF RxInv

\* The invariant that the theorems rest on.
THEOREM RxInvariant == RxSpec => []RxInv
<1>1. RxInit => RxInv
  BY RxInitInv
<1>2. RxInv /\ [RxNext]_rxVars => RxInv'
  BY HwStep, HandleStep, GiveBackStep, ReopenStep, QuietStep DEF RxNext, PollStep
<1> QED
  BY <1>1, <1>2, PTL DEF RxSpec

\* Indices stay in the ring and the count within the budget.
THEOREM RxTypeCorrect == RxSpec => []RxTypeOK
<1>1. RxInv => RxTypeOK
  BY DEF RxInv
<1> QED
  BY <1>1, RxInvariant, PTL

\* The hardware never writes into a buffer that the stack or another slot has.
THEOREM BuffersAreOwned == RxSpec => []BuffersOwned
<1>1. RxInv => BuffersOwned
  BY DEF RxInv
<1> QED
  BY <1>1, RxInvariant, PTL

(***************************************************************************)
(* The ring implements FrameFifo.                                          *)
(***************************************************************************)
\* The slots from a up to b hold a sequence of frames.
WindowSeq(a, b, fr) == [k \in 1..Ahead(a, b) |-> fr[(a + k - 1) % RING]]

LEMMA WindowIsSeq ==
    ASSUME NEW a \in Slots, NEW b \in Slots, NEW S, NEW fr \in [Slots -> S]
    PROVE  /\ WindowSeq(a, b, fr) \in Seq(S)
           /\ Len(WindowSeq(a, b, fr)) = Ahead(a, b)
           /\ \A k \in 1..Ahead(a, b) :
                WindowSeq(a, b, fr)[k] = fr[(a + k - 1) % RING]
<1> DEFINE n == Ahead(a, b)
           w == WindowSeq(a, b, fr)
<1>1. n \in Nat /\ n < RING
  <2>1. n \in Slots
    BY RxAheadCases
  <2> QED
    BY <2>1, RxRing DEF Slots
<1>2. w = [k \in 1..n |-> fr[(a + k - 1) % RING]]
  BY DEF WindowSeq
<1> HIDE DEF n, w
<1>3. \A k \in 1..n : k \in 1..RING
  BY <1>1, RxRing
<1>4. \A k \in 1..n : fr[(a + k - 1) % RING] \in S
  BY <1>3, KthSlot
<1>5. w \in [1..n -> S]
  BY <1>2, <1>4
<1>6. w \in Seq(S)
  BY <1>1, <1>5, SeqDef
<1>7. Len(w) = n
  BY <1>1, <1>5, <1>6, LenProperties
<1> QED
  BY <1>2, <1>6, <1>7 DEF n, w

LEMMA WaitingIsWindow ==
    Waiting = WindowSeq(First, drx, frame) /\ Waiting' = WindowSeq(First', drx', frame')
BY DEF Waiting, WindowSeq, Ahead

\* The hardware's slot is the one behind the last that waits.
LEMMA HwMaps ==
    ASSUME RxInv, NEW f \in Frames, HwReceive(f)
    PROVE  Fifo!Accept(f)
<1> DEFINE S == Frames \cup {NoFrame}
           n == Ahead(First, drx)
<1>1. /\ drx \in Slots /\ calc \in Slots /\ idx \in Slots /\ drx # calc
      /\ frame \in [Slots -> S]
  BY DEF RxInv, RxTypeOK, HwReceive
<1>2. /\ drx' = NextRx(drx) /\ frame' = [frame EXCEPT ![drx] = f]
      /\ passed' = passed /\ First' = First
  BY DEF HwReceive, pollVars, First
<1>4. /\ First \in Slots /\ Waiting \in Seq(S) /\ Len(Waiting) = n
      /\ \A k \in 1..n : Waiting[k] = frame[(First + k - 1) % RING]
  BY <1>1, FirstIsSlot, WindowIsSeq, WaitingIsWindow DEF RxInv
<1>5. Ahead(First, NextRx(drx)) = n + 1
  <2>1. NextRx(drx) # First
    BY <1>1, RoomLeft
  <2> QED
    BY <1>1, <1>4, <2>1, AheadNext
<1>6. n \in Nat /\ n < RING - 1
  <2>1. n \in Slots /\ n + 1 \in Slots
    BY <1>1, <1>4, <1>5, NextRxCases, RxAheadCases
  <2> QED
    BY <2>1, RxRing DEF Slots
<1>7. /\ Waiting' \in Seq(S) /\ Len(Waiting') = n + 1
      /\ \A k \in 1..(n + 1) : Waiting'[k] = frame'[(First + k - 1) % RING]
  <2>1. First' \in Slots /\ drx' \in Slots /\ frame' \in [Slots -> S]
    BY <1>1, <1>2, <1>4, NextRxCases
  <2>2. /\ Waiting' \in Seq(S) /\ Len(Waiting') = Ahead(First', drx')
        /\ \A k \in 1..Ahead(First', drx') : Waiting'[k] = frame'[(First' + k - 1) % RING]
    BY <2>1, WindowIsSeq, WaitingIsWindow
  <2> QED
    BY <1>2, <1>5, <2>2
<1>8. Waiting' = Append(Waiting, f)
  <2> DEFINE a == Append(Waiting, f)
  <2>1. /\ a \in Seq(S) /\ Len(a) = n + 1 /\ a[n + 1] = f
        /\ \A k \in 1..n : a[k] = Waiting[k]
    BY <1>4, AppendProperties
  <2> HIDE DEF a
  <2>2. ASSUME NEW k \in 1..(n + 1) PROVE Waiting'[k] = a[k]
    <3>1. k \in 1..RING
      BY <1>6, RxRing
    <3> DEFINE at == (First + k - 1) % RING
    <3>2. at \in Slots /\ at = IF First + k - 1 < RING THEN First + k - 1 ELSE First + k - 1 - RING
      BY <1>4, <3>1, KthSlot
    <3>3. n = IF drx >= First THEN drx - First ELSE drx - First + RING
      BY <1>1, <1>4, RxAheadCases
    <3> HIDE DEF at
    <3>4. at = drx <=> k = n + 1
      BY <1>1, <1>4, <1>6, <3>1, <3>2, <3>3, RxRing DEF Slots
    <3>5. Waiting'[k] = frame'[at]
      BY <1>7 DEF at
    <3>6. CASE k = n + 1
      BY <1>1, <1>2, <2>1, <3>4, <3>5, <3>6
    <3>7. CASE k # n + 1
      <4>1. k \in 1..n
        BY <1>6, <3>7
      <4>2. Waiting[k] = frame[at]
        BY <1>4, <4>1 DEF at
      <4> QED
        BY <1>1, <1>2, <2>1, <3>2, <3>4, <3>5, <3>7, <4>1, <4>2
    <3> QED
      BY <3>6, <3>7
  <2>3. Waiting' = a
    BY <1>7, <2>1, <2>2, SeqEqual
  <2> QED
    BY <2>3 DEF a
<1> QED
  BY <1>2, <1>4, <1>6, <1>8 DEF Fifo!Accept

\* The slot that is handled is the first that waits.
LEMMA HandleMaps ==
    ASSUME RxInv, Take \/ Drop
    PROVE  Fifo!PassUp \/ Fifo!Discard
<1> DEFINE S == Frames \cup {NoFrame}
           n == Ahead(idx, drx)
<1>1. drx \in Slots /\ idx \in Slots /\ frame \in [Slots -> S]
  BY DEF RxInv, RxTypeOK
<1>2. /\ First = idx /\ First' = NextRx(idx) /\ drx' = drx /\ frame' = frame
      /\ passed' = frame[idx] \/ passed' = passed
  BY DEF Take, Drop, ringVars, napiVars, RxInv, IndexInv, First
<1>3. n \in Nat /\ n > 0 /\ n < RING
  <2>1. Ahead(idx, idx) < n
    BY <1>1, <1>2 DEF RxInv, IndexInv, WindowInv, Take, Drop
  <2>2. Ahead(idx, idx) \in Slots /\ n \in Slots
    BY <1>1, RxAheadCases
  <2> QED
    BY <2>1, <2>2, RxRing DEF Slots
<1>4. /\ Waiting \in Seq(S) /\ Len(Waiting) = n
      /\ \A k \in 1..n : Waiting[k] = frame[(idx + k - 1) % RING]
  BY <1>1, <1>2, WindowIsSeq, WaitingIsWindow
<1>5. NextRx(idx) \in Slots /\ Ahead(NextRx(idx), drx) = n - 1
  <2>1. drx # idx
    BY <1>1, <1>3, RxAheadCases DEF Slots
  <2> QED
    BY <1>1, <2>1, NextRxCases, AheadOfNext
<1>6. /\ Waiting' \in Seq(S) /\ Len(Waiting') = n - 1
      /\ \A k \in 1..(n - 1) : Waiting'[k] = frame[(NextRx(idx) + k - 1) % RING]
  <2>1. Waiting' = WindowSeq(NextRx(idx), drx, frame)
    BY <1>2, WaitingIsWindow
  <2>2. /\ WindowSeq(NextRx(idx), drx, frame) \in Seq(S)
        /\ Len(WindowSeq(NextRx(idx), drx, frame)) = Ahead(NextRx(idx), drx)
        /\ \A k \in 1..Ahead(NextRx(idx), drx) :
             WindowSeq(NextRx(idx), drx, frame)[k] = frame[(NextRx(idx) + k - 1) % RING]
    BY <1>1, <1>5, WindowIsSeq
  <2> QED
    BY <1>5, <2>1, <2>2
<1> HIDE DEF n, S
<1>7. Waiting # <<>> /\ Head(Waiting) = frame[idx]
  <2>1. Waiting # <<>>
    BY <1>3, <1>4, EmptySeq
  <2>2. (idx + 1 - 1) % RING = idx
    BY <1>1, RxRing, KthSlot DEF Slots
  <2>3. Waiting[1] = frame[idx]
    BY <1>3, <1>4, <2>2
  <2> QED
    BY <1>4, <2>1, <2>3
<1>8. Waiting' = Tail(Waiting)
  <2> DEFINE t == Tail(Waiting)
  <2>1. t \in Seq(S) /\ Len(t) = n - 1 /\ \A k \in 1..(n - 1) : t[k] = Waiting[k + 1]
    BY <1>4, <1>7, HeadTailProperties
  <2> HIDE DEF t
  <2>2. ASSUME NEW k \in 1..(n - 1) PROVE Waiting'[k] = t[k]
    <3>1. k \in 1..RING /\ k + 1 \in 1..RING /\ k + 1 \in 1..n
      BY <1>3, RxRing
    <3>2. (idx + (k + 1) - 1) % RING = IF idx + (k + 1) - 1 < RING THEN idx + (k + 1) - 1
                                       ELSE idx + (k + 1) - 1 - RING
      BY <1>1, <3>1, KthSlot
    <3>3. (NextRx(idx) + k - 1) % RING
            = IF NextRx(idx) + k - 1 < RING THEN NextRx(idx) + k - 1
              ELSE NextRx(idx) + k - 1 - RING
      BY <1>5, <3>1, KthSlot
    <3>4. NextRx(idx) = IF idx = RING - 1 THEN 0 ELSE idx + 1
      BY <1>1, NextRxCases
    <3>5. (idx + (k + 1) - 1) % RING = (NextRx(idx) + k - 1) % RING
      <4>1. k \in Nat /\ k < RING - 1 /\ idx \in 0..(RING - 1)
        BY <1>1, <1>3, RxRing DEF Slots
      <4> QED
        BY <3>2, <3>3, <3>4, <4>1, RxRing
    <3>6. Waiting[k + 1] = frame[(idx + (k + 1) - 1) % RING]
      BY <1>4, <3>1
    <3> QED
      BY <1>6, <2>1, <3>5, <3>6
  <2>3. Waiting' = t
    <3>1. Len(Waiting') = Len(t) /\ \A k \in 1..Len(Waiting') : Waiting'[k] = t[k]
      BY <1>6, <2>1, <2>2
    <3> QED
      BY <1>6, <2>1, <3>1, SeqEqual
  <2> QED
    BY <2>3 DEF t
<1> QED
  BY <1>2, <1>7, <1>8 DEF Fifo!PassUp, Fifo!Discard

\* Giving the slot back, and everything that leaves the ring alone, is a stutter.
LEMMA QuietMaps ==
    ASSUME RxInv,
           \/ \E b \in Buffers : Free(b)
           \/ Irq \/ PollStart \/ Look \/ Release \/ Kick \/ Ack \/ End \/ Enable
           \/ UNCHANGED rxVars
    PROVE  UNCHANGED Fifo!fifoVars
<1>1. CASE Release
  <2> DEFINE n == Ahead(First, drx)
  <2>1. /\ First = NextRx(idx) /\ First' = First /\ drx' = drx /\ passed' = passed
        /\ frame' = [frame EXCEPT ![idx] = NoFrame]
        /\ idx \in Slots /\ drx \in Slots /\ drx # idx
        /\ frame \in [Slots -> Frames \cup {NoFrame}]
    BY <1>1 DEF Release, First, RxInv, RxTypeOK, IndexInv, napiVars
  <2>2. First \in Slots /\ n \in Slots /\ n = Ahead(idx, drx) - 1 /\ Ahead(idx, drx) \in Slots
    BY <2>1, NextRxCases, RxAheadCases, AheadOfNext
  <2>3. ASSUME NEW k \in 1..n PROVE (First + k - 1) % RING \in Slots \ {idx}
    <3>1. k \in 1..RING /\ k < RING - 1
      BY <2>2, RxRing DEF Slots
    <3>2. /\ (First + k - 1) % RING \in Slots
          /\ (First + k - 1) % RING = IF First + k - 1 < RING THEN First + k - 1
                                     ELSE First + k - 1 - RING
      BY <2>2, <3>1, KthSlot
    <3>3. First = IF idx = RING - 1 THEN 0 ELSE idx + 1
      BY <2>1, NextRxCases
    <3>4. k \in Nat /\ k > 0 /\ idx \in 0..(RING - 1)
      BY <2>1, <2>2 DEF Slots
    <3> QED
      BY <3>1, <3>2, <3>3, <3>4, RxRing
  <2>4. \A k \in 1..n : frame'[(First + k - 1) % RING] = frame[(First + k - 1) % RING]
    BY <2>1, <2>3
  <2>5. WindowSeq(First, drx, frame') = WindowSeq(First, drx, frame)
    BY <2>4 DEF WindowSeq
  <2> QED
    BY <2>1, <2>5, WaitingIsWindow DEF Fifo!fifoVars
<1>2. CASE Kick
  BY <1>2, WaitingIsWindow DEF Kick, First, napiVars, Fifo!fifoVars
<1>3. CASE ~Release /\ ~Kick
  BY <1>3, QuietStep, WaitingIsWindow DEF Fifo!fifoVars
<1> QED
  BY <1>1, <1>2, <1>3

\* A restart empties the queue.
LEMMA ReopenMaps ==
    ASSUME Reopen
    PROVE  Fifo!Empty
<1>1. 0 \in Slots /\ RING - 1 \in Slots
  BY RxRing DEF Slots
<1>2. First' = 0 /\ drx' = 0 /\ passed' = passed
  BY <1>1, NextRxCases, RxRing DEF Reopen, First, pollVars
<1>3. Ahead(First', drx') = 0
  BY <1>1, <1>2, RxAheadCases
<1>4. Waiting' = <<>>
  BY <1>3, WaitingIsWindow DEF WindowSeq
<1> QED
  BY <1>2, <1>4 DEF Fifo!Empty

\* Every step of the ring is a step of the queue, or leaves it as it is.
THEOREM RingIsFifo == RxSpec => ImplementsFifo
<1>1. RxInit => Fifo!FifoInit
  <2> SUFFICES ASSUME RxInit PROVE Waiting = <<>>
    BY DEF Fifo!FifoInit
  <2>1. Ahead(First, drx) = 0
    BY EmptyWindow DEF RxInit
  <2> QED
    BY <2>1, WaitingIsWindow DEF WindowSeq
<1>2. RxInv /\ [RxNext]_rxVars => [Fifo!FifoNext]_Fifo!fifoVars
  BY HwMaps, HandleMaps, QuietMaps, ReopenMaps DEF RxNext, PollStep, Fifo!FifoNext
<1> QED
  BY <1>1, <1>2, RxInvariant, PTL DEF RxSpec, ImplementsFifo, Fifo!FifoSpec

(***************************************************************************)
(* What RaisedIsReceived rests on, apart from fairness: the interrupt is   *)
(* never left off with no poll to turn it on, and a poll ends.             *)
(***************************************************************************)
\* Exactly one of them is due to look at the ring: the interrupt, a scheduled poll, or
\* the poll that has just completed and enables the interrupt next.
NapiHandsOver ==
    /\ enabled <=> ~sched /\ poll # "enable"
    /\ sched => poll # "enable"
    /\ poll \notin {"idle", "enable"} => sched

\* Steps this call of fe_poll has left at most; a frame takes four.
PollLeft ==
    IF poll = "idle" THEN 0
    ELSE IF poll = "enable" THEN 1
    ELSE IF poll = "end" THEN 2
    ELSE IF poll = "ack" THEN 3
    ELSE 4 * (BUDGET - done) + (IF poll = "look" THEN 4
                                ELSE IF poll = "frame" THEN 3
                                ELSE IF poll = "release" THEN 2 ELSE 1)

\* However many frames come in while it runs, fe_poll ends.
PollIsBounded ==
    [][poll # "idle" => PollLeft' < PollLeft \/ UNCHANGED pollVars]_rxVars

LEMMA HandOverStep ==
    ASSUME NapiHandsOver, sched \in BOOLEAN, enabled \in BOOLEAN, [RxNext]_rxVars
    PROVE  NapiHandsOver'
<1> USE DEF NapiHandsOver
<1>1. ASSUME \/ \E f \in Frames : HwReceive(f)
             \/ \E b \in Buffers : Free(b)
             \/ Take \/ Drop \/ Release \/ Kick \/ Look \/ Ack \/ PollStart
             \/ UNCHANGED rxVars
      PROVE  /\ enabled' = enabled /\ sched' = sched
             /\ \/ poll' = poll
                \/ poll' \notin {"idle", "enable"} /\ poll # "enable" /\ sched
  BY <1>1 DEF HwReceive, Free, Take, Drop, Release, Kick, Look, Ack, PollStart, rxVars,
              napiVars, pollVars
<1>2. CASE Irq
  BY <1>2 DEF Irq, pollVars
<1>3. CASE End
  BY <1>3 DEF End
<1>4. CASE Enable
  BY <1>4 DEF Enable
<1>5. CASE Reopen
  BY <1>5 DEF Reopen, pollVars
<1> QED
  BY <1>1, <1>2, <1>3, <1>4, <1>5 DEF RxNext, PollStep

\* The interrupt is off only while a poll is scheduled or about to enable it.
THEOREM InterruptIsKept == RxSpec => []NapiHandsOver
<1>1. RxInit => NapiHandsOver
  BY DEF RxInit, NapiHandsOver
<1>2. RxInv /\ NapiHandsOver /\ [RxNext]_rxVars => NapiHandsOver'
  BY HandOverStep DEF RxInv, RxTypeOK
<1> QED
  BY <1>1, <1>2, RxInvariant, PTL DEF RxSpec

\* Every step of fe_poll uses up one of those it has left.
LEMMA PollShrinks ==
    ASSUME RxInv, RxNext, poll # "idle"
    PROVE  PollLeft' < PollLeft \/ UNCHANGED pollVars
<1> USE DEF pollVars
<1>1. done \in Nat /\ done <= BUDGET /\ BUDGET \in Nat /\ poll \in RxPolls
  BY RxRing DEF RxInv, RxTypeOK
<1>2. PICK r \in Nat : r = BUDGET - done
  <2>1. BUDGET - done \in Nat
    BY <1>1
  <2> QED
    BY <2>1
<1>3. /\ 4 * (BUDGET - done) = 4 * r
      /\ poll = "look" => PollLeft = 4 * r + 4
      /\ poll = "frame" => PollLeft = 4 * r + 3
      /\ poll = "release" => PollLeft = 4 * r + 2
      /\ poll = "kick" => PollLeft = 4 * r + 1
  BY <1>1, <1>2 DEF PollLeft
<1>4. CASE Look
  <2>1. poll = "look" /\ poll' \in {"frame", "ack", "end"} /\ done' = done
    BY <1>4 DEF Look
  <2>2. PollLeft' \in {2, 3, 4 * (BUDGET - done) + 3}
    BY <2>1 DEF PollLeft
  <2> QED
    BY <1>2, <1>3, <2>1, <2>2
<1>5. CASE Take \/ Drop
  <2>1. poll = "frame" /\ poll' = "release" /\ done' = done
    BY <1>5 DEF Take, Drop
  <2>2. PollLeft' = 4 * (BUDGET - done) + 2
    BY <2>1 DEF PollLeft
  <2> QED
    BY <1>2, <1>3, <2>1, <2>2
<1>6. CASE Release
  <2>1. poll = "release" /\ poll' = "kick" /\ done' = done
    BY <1>6 DEF Release
  <2>2. PollLeft' = 4 * (BUDGET - done) + 1
    BY <2>1 DEF PollLeft
  <2> QED
    BY <1>2, <1>3, <2>1, <2>2
<1>7. CASE Kick
  <2>1. poll = "kick" /\ poll' = "look" /\ done' = done + 1
    BY <1>7 DEF Kick
  <2>2. PollLeft' = 4 * (BUDGET - (done + 1)) + 4
    BY <2>1 DEF PollLeft
  <2>3. 4 * (BUDGET - (done + 1)) + 4 = 4 * r
    BY <1>1, <1>2
  <2> QED
    BY <1>2, <1>3, <2>1, <2>2, <2>3
<1>8. CASE Ack \/ End \/ Enable
  <2>1. \/ poll = "ack" /\ poll' = "end"
        \/ poll = "end" /\ poll' \in {"idle", "enable"}
        \/ poll = "enable" /\ poll' = "idle"
    BY <1>8 DEF Ack, End, Enable
  <2> QED
    BY <2>1 DEF PollLeft
<1>9. CASE (\E f \in Frames : HwReceive(f)) \/ (\E b \in Buffers : Free(b)) \/ Irq
  BY <1>9 DEF HwReceive, Free, Irq
<1>10. ~PollStart /\ ~Reopen
  BY DEF PollStart, Reopen
<1> QED
  BY <1>4, <1>5, <1>6, <1>7, <1>8, <1>9, <1>10 DEF RxNext, PollStep

\* A call of fe_poll ends after at most PollLeft steps, whatever hardware and stack do.
THEOREM PollComesToEnd == RxSpec => [](PollLeft \in Nat) /\ PollIsBounded
<1>1. RxInv => PollLeft \in Nat
  <2> SUFFICES ASSUME RxInv PROVE PollLeft \in Nat
    OBVIOUS
  <2>1. BUDGET - done \in Nat
    BY RxRing DEF RxInv, RxTypeOK
  <2>2. 4 * (BUDGET - done) \in Nat
    BY <2>1
  <2> QED
    BY <2>2 DEF PollLeft
<1>2. RxInv /\ [RxNext]_rxVars
      => [poll # "idle" => PollLeft' < PollLeft \/ UNCHANGED pollVars]_rxVars
  BY PollShrinks
<1> QED
  BY <1>1, <1>2, RxInvariant, PTL DEF RxSpec, PollIsBounded
=============================================================================
