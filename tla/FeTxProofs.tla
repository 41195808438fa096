----------------------------- MODULE FeTxProofs -----------------------------
(***************************************************************************)
(* The theorems about FeTx, for every ring size, budget, packet size and   *)
(* for one or two CPUs.                                                    *)
(*                                                                         *)
(* RingIntact is not inductive.  RingInv measures every index from         *)
(* tx_free_idx and adds what holds in the middle of the two handlers: the  *)
(* room fe_start_xmit has found is still there when the descriptors are    *)
(* filled, and the poll's own indices lie between tx_free_idx and the      *)
(* hardware's.  StopInv says that fe_free_dma meets no poll in the ring.   *)
(***************************************************************************)
EXTENDS FeTx, FiniteSetTheorems, TLAPS

(***************************************************************************)
(* Ring arithmetic.                                                        *)
(***************************************************************************)
\* The constants, as the provers want them.
LEMMA RingSize ==
    /\ RING \in Nat /\ RING > 0 /\ BUDGET \in Nat /\ BUDGET > 0 /\ RX_MAX \in Nat
    /\ \A n \in TX_NUMS : n \in Nat /\ 0 < n /\ n < RING
    /\ SMP \in BOOLEAN
    /\ 0 \in Slots
BY FeTxAssumption DEF FeTxAssumption, Slots

\* NEXT_TX_DESP_IDX goes round.
LEMMA NextCases ==
    ASSUME NEW i \in Slots
    PROVE  NextIdx(i) \in Slots /\ NextIdx(i) = IF i = RING - 1 THEN 0 ELSE i + 1
BY RingSize, SMTT(30) DEF NextIdx, Slots

\* The distance from i to j, going forward.
LEMMA AheadCases ==
    ASSUME NEW i \in Slots, NEW j \in Slots
    PROVE  /\ Ahead(i, j) \in Slots
           /\ Ahead(i, j) = IF j >= i THEN j - i ELSE j - i + RING
BY RingSize, SMTT(30) DEF Ahead, Slots

\* The k-th slot behind the fill index.
LEMMA SlotCases ==
    ASSUME fill \in Slots, NEW k \in Slots
    PROVE  /\ Slot(k) \in Slots
           /\ Slot(k) = IF fill + k < RING THEN fill + k ELSE fill + k - RING
BY RingSize, SMTT(30) DEF Slot, Slots

\* The slots a packet of n descriptors takes are the next n.
LEMMA FilledSlots ==
    ASSUME fill \in Slots, NEW n \in Slots, NEW i \in Slots
    PROVE  i \in {Slot(k) : k \in 0..(n - 1)} <=> Ahead(fill, i) < n
<1>1. n \in Nat /\ \A k \in 0..(n - 1) : k \in Slots
  BY RingSize DEF Slots
<1>2. ASSUME NEW k \in 0..(n - 1), i = Slot(k) PROVE Ahead(fill, i) < n
  <2>1. /\ i = IF fill + k < RING THEN fill + k ELSE fill + k - RING
        /\ k \in Slots /\ k < n
    BY <1>1, <1>2, SlotCases
  <2>2. Ahead(fill, i) = IF i >= fill THEN i - fill ELSE i - fill + RING
    BY AheadCases
  <2> QED
    BY <1>1, <2>1, <2>2, RingSize DEF Slots
<1>3. ASSUME Ahead(fill, i) < n PROVE i \in {Slot(k) : k \in 0..(n - 1)}
  <2>1. Ahead(fill, i) \in 0..(n - 1)
    BY <1>1, <1>3, AheadCases DEF Slots
  <2>2. i = Slot(Ahead(fill, i))
    <3> DEFINE k == Ahead(fill, i)
    <3>1. k \in Slots /\ k = IF i >= fill THEN i - fill ELSE i - fill + RING
      BY AheadCases
    <3> HIDE DEF k
    <3>2. Slot(k) = IF fill + k < RING THEN fill + k ELSE fill + k - RING
      BY <3>1, SlotCases
    <3>3. i = Slot(k)
      BY <3>1, <3>2, RingSize DEF Slots
    <3> QED
      BY <3>3 DEF k
  <2> QED
    BY <2>1, <2>2
<1> QED
  BY <1>2, <1>3

(***************************************************************************)
(* Types, and the two ways fe_stop and the poll exclude each other.        *)
(***************************************************************************)
\* TypeOK but for the bound of owed, which takes OwedBalanced.
FeTyped ==
    /\ fill \in Slots /\ dtx \in Slots /\ free \in Slots /\ idx \in Slots /\ hwidx \in Slots
    /\ buf \in [Slots -> {"none", "dummy", "skb"}]
    /\ owed \in Int
    /\ xmit \in Xmits /\ need \in TX_NUMS \cup {0}
    /\ poll \in Polls /\ done \in 0..BUDGET
    /\ rxn \in 0..RX_MAX
    /\ reset \in Resets
    /\ stopped \in BOOLEAN /\ tx_int \in BOOLEAN /\ rx_int \in BOOLEAN
    /\ enabled \in BOOLEAN /\ sched \in BOOLEAN /\ again \in BOOLEAN
    /\ rx_seen \in BOOLEAN /\ pending \in BOOLEAN /\ overlap \in BOOLEAN

StopInv ==
    /\ poll \notin {"idle", "enable"} => sched
    /\ reset = "clean" =>
         /\ poll \in {"idle", "enable"} /\ sched
         /\ xmit \in {"none", "full", "oops"}
         /\ buf = [i \in Slots |-> "none"]
         /\ owed = 0

\* The program starts well typed and in order.
LEMMA FeTypedInit == Init => FeTyped /\ StopInv
<1> SUFFICES ASSUME Init PROVE FeTyped /\ StopInv
  OBVIOUS
<1> USE DEF Init
<1>1. /\ fill \in Slots /\ dtx \in Slots /\ free \in Slots /\ idx \in Slots /\ hwidx \in Slots
      /\ owed \in Int /\ done \in 0..BUDGET /\ rxn \in 0..RX_MAX
  BY RingSize
<1>2. buf \in [Slots -> {"none", "dummy", "skb"}]
  OBVIOUS
<1>3. /\ xmit \in Xmits /\ need \in TX_NUMS \cup {0}
      /\ poll \in Polls /\ reset \in Resets
  BY DEF Xmits, Polls, Resets
<1>4. /\ stopped \in BOOLEAN /\ tx_int \in BOOLEAN /\ rx_int \in BOOLEAN
      /\ enabled \in BOOLEAN /\ sched \in BOOLEAN /\ again \in BOOLEAN
      /\ rx_seen \in BOOLEAN /\ pending \in BOOLEAN /\ overlap \in BOOLEAN
  OBVIOUS
<1>5. StopInv
  BY DEF StopInv
<1> QED
  BY <1>1, <1>2, <1>3, <1>4, <1>5 DEF FeTyped

\* Every step keeps the types.
LEMMA FeTypedStep == FeTyped /\ [Next]_txVars => FeTyped'
<1> SUFFICES ASSUME FeTyped, [Next]_txVars PROVE FeTyped'
  OBVIOUS
<1> USE DEF FeTyped
<1>1. ASSUME NEW n \in TX_NUMS, XmitStart(n) PROVE FeTyped'
  BY <1>1 DEF XmitStart, intVars, pollVars, resetVars, Xmits
<1>2. CASE XmitFull
  BY <1>2 DEF XmitFull, intVars, pollVars, resetVars, Xmits
<1>3. CASE XmitMap
  <2>1. buf' \in [Slots -> {"none", "dummy", "skb"}]
    BY <1>3 DEF XmitMap, Filled
  <2> QED
    BY <1>3, <2>1 DEF XmitMap, intVars, pollVars, resetVars, Xmits
<1>4. CASE XmitMapFails
  BY <1>4 DEF XmitMapFails, intVars, pollVars, resetVars, Xmits
<1>5. CASE XmitKick
  <2>1. need \in Slots
    BY RingSize DEF Slots
  <2>2. fill' \in Slots
    BY <1>5, <2>1, SlotCases DEF XmitKick
  <2> QED
    BY <1>5, <2>2 DEF XmitKick, intVars, pollVars, resetVars, Xmits
<1>6. CASE HwSend
  <2>1. dtx' \in Slots
    BY <1>6, NextCases DEF HwSend
  <2> QED
    BY <1>6, <2>1 DEF HwSend, xmitVars, pollVars, resetVars
<1>7. CASE HwReceive
  BY <1>7, RingSize DEF HwReceive, xmitVars, pollVars, resetVars
<1>8. CASE Irq
  BY <1>8 DEF Irq, xmitVars, pollVars, resetVars
<1>9. CASE PollStart
  <2>1. poll' \in Polls /\ again' = FALSE /\ rx_seen' = rx_int
    BY <1>9 DEF PollStart, Polls
  <2>2. idx' \in Slots /\ hwidx' \in Slots /\ done' \in 0..BUDGET
    BY <1>9, RingSize DEF PollStart
  <2>3. UNCHANGED <<fill, dtx, free, buf, owed, stopped, xmitVars, intVars, rxn, resetVars>>
    BY <1>9 DEF PollStart
  <2> QED
    BY <2>1, <2>2, <2>3 DEF xmitVars, intVars, resetVars
<1>10. CASE PollReap
  <2>1. idx' \in Slots
    BY <1>10, NextCases DEF PollReap
  <2>2. done' \in 0..BUDGET
    BY <1>10, RingSize DEF PollReap, ToReap
  <2>3. buf' \in [Slots -> {"none", "dummy", "skb"}]
    BY <1>10 DEF PollReap
  <2> QED
    BY <1>10, <2>1, <2>2, <2>3 DEF PollReap, xmitVars, intVars, resetVars
<1>11. CASE PollReaped
  BY <1>11 DEF PollReaped, xmitVars, intVars, resetVars, Polls
<1>12. CASE PollCheck
  BY <1>12 DEF PollCheck, xmitVars, intVars, resetVars, Polls
<1>13. CASE PollAck
  BY <1>13 DEF PollAck, xmitVars, resetVars, Polls
<1>14. CASE PollComplete
  <2>1. owed' \in Int /\ done' \in 0..BUDGET
    BY <1>14, RingSize DEF PollComplete
  <2>2. stopped' \in BOOLEAN /\ overlap' \in BOOLEAN
    BY <1>14 DEF PollComplete
  <2> QED
    BY <1>14, <2>1, <2>2 DEF PollComplete, xmitVars, intVars, Polls
<1>15. CASE PollReceive
  BY <1>15, RingSize DEF PollReceive, xmitVars, intVars, resetVars
<1>16. CASE PollReceived
  BY <1>16 DEF PollReceived, xmitVars, intVars, resetVars, Polls
<1>17. CASE PollReceiveAck
  <2>1. rx_int' \in BOOLEAN
    BY <1>17 DEF PollReceiveAck
  <2> QED
    BY <1>17, <2>1 DEF PollReceiveAck, xmitVars, resetVars, Polls
<1>18. CASE PollEnd
  <2>1. sched' \in BOOLEAN /\ poll' \in Polls
    BY <1>18 DEF PollEnd, Polls
  <2> QED
    BY <1>18, <2>1, RingSize DEF PollEnd, xmitVars, resetVars
<1>19. CASE PollEnable
  <2>1. overlap' \in BOOLEAN
    BY <1>19 DEF PollEnable
  <2> QED
    BY <1>19, <2>1 DEF PollEnable, xmitVars, Polls
<1>20. CASE TxTimeout
  BY <1>20 DEF TxTimeout, xmitVars, intVars, pollVars, Resets
<1>21. CASE StopQueue
  BY <1>21 DEF StopQueue, xmitVars, intVars, pollVars, Resets
<1>22. CASE StopIrq
  BY <1>22 DEF StopIrq, xmitVars, pollVars, Resets
<1>23. CASE StopNapi
  BY <1>23 DEF StopNapi, xmitVars, intVars, pollVars, Resets
<1>24. CASE StopDma
  BY <1>24, RingSize DEF StopDma, pollVars, Resets, Xmits
<1>25. CASE Reopen
  BY <1>25, RingSize DEF Reopen, xmitVars, pollVars, Resets
<1>26. CASE UNCHANGED txVars
  BY <1>26 DEF txVars
<1> QED
  BY <1>1, <1>2, <1>3, <1>4, <1>5, <1>6, <1>7, <1>8, <1>9, <1>10, <1>11, <1>12, <1>13,
     <1>14, <1>15, <1>16, <1>17, <1>18, <1>19, <1>20, <1>21, <1>22, <1>23, <1>24, <1>25,
     <1>26 DEF Next, Xmit, Poll, Reset

\* Every step keeps poll and reset apart.
LEMMA StopStep == FeTyped /\ StopInv /\ [Next]_txVars => StopInv'
<1> SUFFICES ASSUME FeTyped, StopInv, [Next]_txVars PROVE StopInv'
  OBVIOUS
<1> USE DEF StopInv
<1>1. ASSUME NEW n \in TX_NUMS, XmitStart(n) PROVE StopInv'
  BY <1>1 DEF XmitStart, intVars, pollVars, resetVars
<1>2. CASE XmitFull \/ XmitMap \/ XmitMapFails \/ XmitKick
  BY <1>2 DEF XmitFull, XmitMap, XmitMapFails, XmitKick, intVars, pollVars, resetVars
<1>3. CASE HwSend \/ HwReceive \/ Irq
  BY <1>3 DEF HwSend, HwReceive, Irq, xmitVars, pollVars, resetVars
<1>4. CASE PollStart
  BY <1>4 DEF PollStart, xmitVars, intVars, resetVars
<1>5. CASE PollReap \/ PollReaped \/ PollCheck \/ PollAck \/ PollComplete
  BY <1>5 DEF PollReap, PollReaped, PollCheck, PollAck, PollComplete, xmitVars, intVars,
              resetVars
<1>6. CASE PollReceive \/ PollReceived \/ PollReceiveAck \/ PollEnd \/ PollEnable
  BY <1>6 DEF PollReceive, PollReceived, PollReceiveAck, PollEnd, PollEnable, xmitVars,
              intVars, resetVars
<1>7. CASE TxTimeout \/ StopQueue \/ StopIrq \/ StopNapi
  BY <1>7 DEF TxTimeout, StopQueue, StopIrq, StopNapi, xmitVars, intVars, pollVars
<1>8. CASE StopDma
  <2>1. /\ poll' = poll /\ poll \in {"idle", "enable"} /\ sched' = TRUE
        /\ buf' = [i \in Slots |-> "none"] /\ owed' = 0
    BY <1>8 DEF StopDma, pollVars
  <2>2. xmit' \in {"none", "full", "oops"}
    BY <1>8 DEF StopDma, FeTyped, Xmits
  <2> QED
    BY <2>1, <2>2
<1>9. CASE Reopen
  <2>1. poll' \in {"idle", "enable"} /\ reset' = "none"
    BY <1>9 DEF Reopen, pollVars
  <2> QED
    BY <2>1
<1>10. CASE UNCHANGED txVars
  BY <1>10 DEF txVars
<1> QED
  BY <1>1, <1>2, <1>3, <1>4, <1>5, <1>6, <1>7, <1>8, <1>9, <1>10
  DEF Next, Xmit, Poll, Reset

(***************************************************************************)
(* fe_stop's order of disabling.                                           *)
(***************************************************************************)
TeardownInv ==
    /\ reset \in {"queue", "irq", "napi", "clean"} /\ ~overlap => stopped /\ xmit = "none"
    /\ reset \in {"irq", "napi", "clean"} /\ ~overlap => ~enabled
    /\ xmit = "oops" => overlap

\* Every step keeps fe_stop's order: whoever opens what it has closed is in the history.
LEMMA TeardownStep == FeTyped /\ StopInv /\ TeardownInv /\ [Next]_txVars => TeardownInv'
<1> SUFFICES ASSUME FeTyped, StopInv, TeardownInv, [Next]_txVars PROVE TeardownInv'
  OBVIOUS
<1> USE DEF TeardownInv
<1>0. stopped \in BOOLEAN /\ overlap \in BOOLEAN /\ enabled \in BOOLEAN
  BY DEF FeTyped
<1>1. ASSUME NEW n \in TX_NUMS, XmitStart(n) PROVE TeardownInv'
  BY <1>1 DEF XmitStart, intVars, pollVars, resetVars
<1>2. CASE XmitFull \/ XmitMap \/ XmitMapFails \/ XmitKick
  BY <1>2 DEF XmitFull, XmitMap, XmitMapFails, XmitKick, intVars, pollVars, resetVars
<1>3. CASE HwSend \/ HwReceive \/ Irq
  BY <1>3 DEF HwSend, HwReceive, Irq, xmitVars, pollVars, resetVars
<1>4. CASE PollStart
  BY <1>4 DEF PollStart, xmitVars, intVars, resetVars
<1>5. CASE PollReap \/ PollReaped \/ PollCheck \/ PollAck
  BY <1>5 DEF PollReap, PollReaped, PollCheck, PollAck, xmitVars, intVars, resetVars
<1>6. CASE PollComplete
  <2>1. /\ UNCHANGED <<xmit, enabled, reset>> /\ poll = "complete"
        /\ stopped' = (stopped /\ done = 0)
        /\ overlap' = (overlap \/ (stopped /\ ~stopped' /\ reset \in {"queue", "irq", "napi"}))
    BY <1>6 DEF PollComplete, xmitVars, intVars
  <2>2. reset # "clean"
    BY <2>1 DEF StopInv
  <2> QED
    BY <1>0, <2>1, <2>2
<1>7. CASE PollReceive \/ PollReceived \/ PollReceiveAck \/ PollEnd
  BY <1>7 DEF PollReceive, PollReceived, PollReceiveAck, PollEnd, xmitVars, intVars, resetVars
<1>12. CASE PollEnable
  <2>1. /\ UNCHANGED <<xmit, stopped, reset>>
        /\ overlap' = (overlap \/ reset \in {"irq", "napi", "clean"})
    BY <1>12 DEF PollEnable, xmitVars
  <2> QED
    BY <1>0, <2>1
<1>8. CASE TxTimeout \/ StopQueue \/ StopIrq \/ StopNapi
  BY <1>8 DEF TxTimeout, StopQueue, StopIrq, StopNapi, xmitVars, intVars, pollVars
<1>9. CASE StopDma
  BY <1>9 DEF StopDma, pollVars
<1>10. CASE Reopen
  BY <1>10 DEF Reopen, xmitVars, pollVars
<1>11. CASE UNCHANGED txVars
  BY <1>11 DEF txVars
<1> QED
  BY <1>1, <1>2, <1>3, <1>4, <1>5, <1>6, <1>7, <1>8, <1>9, <1>10, <1>11, <1>12
  DEF Next, Xmit, Poll, Reset

(***************************************************************************)
(* The ring.                                                               *)
(***************************************************************************)
RingInv ==
    Running =>
      /\ \A i \in Slots : buf[i] # "none" <=> Held(i)
      /\ Ahead(free, dtx) <= Ahead(free, fill)
      /\ xmit \in {"map", "kick"} => need \in TX_NUMS /\ Ahead(free, fill) + need < RING
      /\ poll = "tx" => /\ Ahead(free, idx) <= Ahead(free, hwidx)
                        /\ Ahead(free, hwidx) <= Ahead(free, dtx)

\* Where the cleaned part ends and where the filled part ends, from tx_free_idx.
LEMMA Bounds ==
    ASSUME FeTyped, RingInv, Running
    PROVE  /\ First \in Slots /\ Beyond \in Slots
           /\ Ahead(free, First) <= Ahead(free, dtx)
           /\ Ahead(free, Beyond) = Ahead(free, fill) + (IF xmit = "kick" THEN need ELSE 0)
<1>1. fill \in Slots /\ dtx \in Slots /\ free \in Slots /\ idx \in Slots /\ hwidx \in Slots
  BY DEF FeTyped
<1>2. First \in Slots /\ Ahead(free, First) <= Ahead(free, dtx)
  <2>1. CASE poll = "tx"
    <3>1. /\ First = idx
          /\ Ahead(free, idx) <= Ahead(free, hwidx) /\ Ahead(free, hwidx) <= Ahead(free, dtx)
      BY <2>1 DEF First, RingInv
    <3>2. Ahead(free, idx) \in Int /\ Ahead(free, hwidx) \in Int /\ Ahead(free, dtx) \in Int
      BY <1>1, AheadCases DEF Slots
    <3> QED
      BY <1>1, <3>1, <3>2
  <2>2. CASE poll # "tx"
    <3>1. First = free /\ Ahead(free, free) = 0 /\ Ahead(free, dtx) >= 0
      BY <1>1, <2>2, AheadCases, RingSize DEF First, Slots
    <3> QED
      BY <1>1, <3>1
  <2> QED
    BY <2>1, <2>2
<1>3. Beyond \in Slots
      /\ Ahead(free, Beyond) = Ahead(free, fill) + (IF xmit = "kick" THEN need ELSE 0)
  <2>1. CASE xmit = "kick"
    <3>1. need \in Slots /\ Ahead(free, fill) + need < RING /\ Beyond = Slot(need)
      BY <2>1, RingSize DEF RingInv, Beyond, Slots
    <3>2. /\ Slot(need) \in Slots
          /\ Slot(need) = IF fill + need < RING THEN fill + need ELSE fill + need - RING
      BY <1>1, <3>1, SlotCases
    <3>3. /\ Ahead(free, fill) = IF fill >= free THEN fill - free ELSE fill - free + RING
          /\ Ahead(free, Slot(need)) =
               IF Slot(need) >= free THEN Slot(need) - free ELSE Slot(need) - free + RING
      BY <1>1, <3>2, AheadCases
    <3> QED
      BY <1>1, <2>1, <3>1, <3>2, <3>3, RingSize DEF Slots
  <2>2. CASE xmit # "kick"
    BY <1>1, <2>2, AheadCases DEF Beyond, Slots
  <2> QED
    BY <2>1, <2>2
<1> QED
  BY <1>2, <1>3

\* Held, measured from tx_free_idx.
LEMMA HeldFromFree ==
    ASSUME FeTyped, RingInv, Running, NEW i \in Slots
    PROVE  Held(i) <=> /\ Ahead(free, First) <= Ahead(free, i)
                       /\ Ahead(free, i) < Ahead(free, Beyond)
<1>1. free \in Slots /\ First \in Slots /\ Beyond \in Slots /\ fill \in Slots /\ dtx \in Slots
  BY Bounds DEF FeTyped
<1>2. /\ Ahead(free, First) = IF First >= free THEN First - free ELSE First - free + RING
      /\ Ahead(free, Beyond) = IF Beyond >= free THEN Beyond - free ELSE Beyond - free + RING
      /\ Ahead(free, i) = IF i >= free THEN i - free ELSE i - free + RING
      /\ Ahead(First, i) = IF i >= First THEN i - First ELSE i - First + RING
      /\ Ahead(First, Beyond) = IF Beyond >= First THEN Beyond - First
                                ELSE Beyond - First + RING
  BY <1>1, AheadCases
<1>3. Ahead(free, First) <= Ahead(free, Beyond)
  <2>1. /\ Ahead(free, First) <= Ahead(free, dtx) /\ Ahead(free, dtx) <= Ahead(free, fill)
        /\ Ahead(free, Beyond) = Ahead(free, fill) + (IF xmit = "kick" THEN need ELSE 0)
        /\ xmit = "kick" => need > 0
    BY Bounds, RingSize DEF RingInv
  <2>2. Ahead(free, First) \in Int /\ Ahead(free, dtx) \in Int /\ Ahead(free, fill) \in Int
    BY <1>1, AheadCases DEF Slots
  <2>3. need \in Int
    BY RingSize DEF FeTyped
  <2> QED
    BY <2>1, <2>2, <2>3
<1> QED
  BY <1>1, <1>2, <1>3, RingSize DEF Held, Slots

\* A step that moves no index and takes no packet up leaves the ring as it is.
LEMMA RingFrame ==
    ASSUME RingInv, UNCHANGED <<fill, dtx, free, buf>>,
           poll' = "tx" => poll = "tx" /\ UNCHANGED <<idx, hwidx>>,
           poll' # "tx" => poll # "tx",
           xmit' = "kick" <=> xmit = "kick",
           xmit' \in {"map", "kick"} => xmit \in {"map", "kick"} /\ need' = need,
           Running' => Running
    PROVE  RingInv'
<1> SUFFICES ASSUME Running' PROVE RingInv'
  BY DEF RingInv
<1>1. First' = First /\ Beyond' = Beyond
  BY DEF First, Beyond, Slot
<1>2. \A i \in Slots : Held(i)' <=> Held(i)
  BY <1>1 DEF Held, Ahead
<1> QED
  BY <1>2 DEF RingInv, Ahead

\* The room that was found is taken up; then it is filled; then it is handed over.
LEMMA RingXmitStart ==
    ASSUME FeTyped, RingInv, NEW n \in TX_NUMS, XmitStart(n) PROVE RingInv'
<1> SUFFICES ASSUME Running' PROVE RingInv'
  BY DEF RingInv
<1>1. /\ UNCHANGED <<fill, dtx, free, buf, poll, idx, hwidx, reset>>
      /\ xmit = "none" /\ need' = n
      /\ xmit' = IF ~HasRoom(n) THEN "full" ELSE IF reset = "clean" THEN "oops" ELSE "map"
  BY DEF XmitStart, pollVars, resetVars
<1>2. Running /\ xmit' \in {"map", "full"}
  BY <1>1 DEF Running
<1>3. First' = First /\ Beyond' = Beyond
  BY <1>1, <1>2 DEF First, Beyond
<1>4. \A i \in Slots : Held(i)' <=> Held(i)
  BY <1>3 DEF Held, Ahead
<1>5. xmit' = "map" => Ahead(free, fill) + n < RING
  <2>1. xmit' = "map" => RING - Ahead(free, fill) > n
    BY <1>1 DEF HasRoom, EmptyTxd, Used, Ahead
  <2>2. Ahead(free, fill) \in Int /\ n \in Int
    BY AheadCases, RingSize DEF FeTyped, Slots
  <2> QED
    BY <2>1, <2>2, RingSize
<1> QED
  BY <1>1, <1>2, <1>4, <1>5 DEF RingInv, Ahead

\* In fe_tx_map_dma the packet's slots are those between the fill index and its new value.
LEMMA MapSlots ==
    ASSUME FeTyped, RingInv, Running, xmit = "map", NEW i \in Slots
    PROVE  /\ i \in {Slot(k) : k \in 0..(need - 1)} <=>
                /\ Ahead(free, fill) <= Ahead(free, i)
                /\ Ahead(free, i) < Ahead(free, fill) + need
           /\ Slot(need - 1) \in {Slot(k) : k \in 0..(need - 1)}
<1>1. need \in Slots /\ need > 0 /\ Ahead(free, fill) + need < RING
  BY RingSize DEF RingInv, Slots
<1>2. fill \in Slots /\ free \in Slots
  BY DEF FeTyped
<1>3. i \in {Slot(k) : k \in 0..(need - 1)} <=> Ahead(fill, i) < need
  BY <1>1, <1>2, FilledSlots
<1>4. /\ Ahead(fill, i) = IF i >= fill THEN i - fill ELSE i - fill + RING
      /\ Ahead(free, i) = IF i >= free THEN i - free ELSE i - free + RING
      /\ Ahead(free, fill) = IF fill >= free THEN fill - free ELSE fill - free + RING
  BY <1>2, AheadCases
<1>5. Ahead(fill, i) < need <=> /\ Ahead(free, fill) <= Ahead(free, i)
                               /\ Ahead(free, i) < Ahead(free, fill) + need
  BY <1>1, <1>2, <1>4, RingSize DEF Slots
<1>6. need - 1 \in 0..(need - 1)
  BY <1>1 DEF Slots
<1> QED
  BY <1>3, <1>5, <1>6

\* fe_tx_map_dma fills exactly the slots the room was found for.
LEMMA RingXmitMap == ASSUME FeTyped, RingInv, XmitMap PROVE RingInv'
<1> SUFFICES ASSUME Running' PROVE RingInv'
  BY DEF RingInv
<1>1. /\ UNCHANGED <<fill, dtx, free, need, poll, idx, hwidx, reset>>
      /\ xmit = "map" /\ xmit' = "kick" /\ buf' = Filled(need)
  BY DEF XmitMap, pollVars, resetVars
<1>2. Running
  BY <1>1 DEF Running
<1>3. /\ need \in TX_NUMS /\ need \in Slots /\ Ahead(free, fill) + need < RING
      /\ fill \in Slots /\ free \in Slots /\ dtx \in Slots
  BY <1>1, <1>2, RingSize DEF RingInv, FeTyped, Slots
<1>4. First' = First /\ Beyond = fill /\ Beyond' = Slot(need)
  BY <1>1 DEF First, Beyond, Slot
<1>5. First \in Slots /\ Ahead(free, First) <= Ahead(free, fill)
  <2>1. /\ First \in Slots /\ Ahead(free, First) <= Ahead(free, dtx)
        /\ Ahead(free, dtx) <= Ahead(free, fill)
    BY <1>2, Bounds DEF RingInv
  <2>2. Ahead(free, First) \in Int /\ Ahead(free, dtx) \in Int /\ Ahead(free, fill) \in Int
    BY <1>3, <2>1, AheadCases DEF Slots
  <2> QED
    BY <2>1, <2>2
<1>6. ASSUME NEW i \in Slots PROVE buf'[i] # "none" <=> Held(i)'
  <2>1. buf'[i] # "none" <=> i \in {Slot(k) : k \in 0..(need - 1)} \/ buf[i] # "none"
    BY <1>1, <1>2, MapSlots DEF Filled
  <2>2. buf[i] # "none" <=> /\ Ahead(free, First) <= Ahead(free, i)
                            /\ Ahead(free, i) < Ahead(free, fill)
    BY <1>2, <1>4, HeldFromFree DEF RingInv
  <2>3. i \in {Slot(k) : k \in 0..(need - 1)} <=>
          /\ Ahead(free, fill) <= Ahead(free, i) /\ Ahead(free, i) < Ahead(free, fill) + need
    BY <1>1, <1>2, MapSlots
  <2>4. Held(i)' <=> Ahead(First, i) < Ahead(First, Slot(need))
    BY <1>4 DEF Held, Ahead
  <2>5. /\ Slot(need) \in Slots
        /\ Slot(need) = IF fill + need < RING THEN fill + need ELSE fill + need - RING
    BY <1>3, SlotCases
  <2>6. /\ Ahead(First, i) = IF i >= First THEN i - First ELSE i - First + RING
        /\ Ahead(free, i) = IF i >= free THEN i - free ELSE i - free + RING
        /\ Ahead(free, First) = IF First >= free THEN First - free ELSE First - free + RING
        /\ Ahead(free, fill) = IF fill >= free THEN fill - free ELSE fill - free + RING
        /\ Ahead(First, Slot(need)) = IF Slot(need) >= First THEN Slot(need) - First
                                      ELSE Slot(need) - First + RING
    BY <1>3, <1>5, <2>5, AheadCases
  <2>7. /\ Ahead(free, First) <= Ahead(free, i) /\ Ahead(free, i) < Ahead(free, fill) + need
        <=> Ahead(First, i) < Ahead(First, Slot(need))
    BY <1>3, <1>5, <2>5, <2>6, RingSize DEF Slots
  <2>8. need > 0 /\ Ahead(free, i) \in Int /\ Ahead(free, First) \in Int
        /\ Ahead(free, fill) \in Int /\ need \in Int
    BY <1>3, <1>5, AheadCases, RingSize DEF Slots
  <2> QED
    BY <1>5, <2>1, <2>2, <2>3, <2>4, <2>7, <2>8
<1> QED
  BY <1>1, <1>2, <1>3, <1>6 DEF RingInv, Ahead

\* Handing the slots over moves the fill index to where the packet ends.
LEMMA RingXmitKick == ASSUME FeTyped, RingInv, XmitKick PROVE RingInv'
<1> SUFFICES ASSUME Running' PROVE RingInv'
  BY DEF RingInv
<1>1. /\ UNCHANGED <<dtx, free, buf, poll, idx, hwidx, reset>>
      /\ xmit = "kick" /\ xmit' = "none" /\ fill' = Slot(need)
  BY DEF XmitKick, pollVars, resetVars
<1>2. Running
  BY <1>1 DEF Running
<1>3. First' = First /\ Beyond' = Beyond /\ fill' = Beyond
  BY <1>1 DEF First, Beyond
<1>4. \A i \in Slots : Held(i)' <=> Held(i)
  BY <1>3 DEF Held, Ahead
<1>5. Ahead(free, dtx) <= Ahead(free, Beyond)
  <2>1. /\ Ahead(free, Beyond) = Ahead(free, fill) + need /\ need > 0 /\ need \in Int
        /\ Ahead(free, dtx) <= Ahead(free, fill)
    BY <1>1, <1>2, Bounds, RingSize DEF RingInv
  <2>2. Ahead(free, dtx) \in Int /\ Ahead(free, fill) \in Int
    BY AheadCases DEF FeTyped, Slots
  <2> QED
    BY <2>1, <2>2
<1>6. Ahead(free, dtx)' = Ahead(free, dtx) /\ Ahead(free, fill)' = Ahead(free, Beyond)
  BY <1>1, <1>3 DEF Ahead
<1> QED
  BY <1>1, <1>2, <1>4, <1>5, <1>6 DEF RingInv, Ahead

\* The hardware goes one slot on, never beyond the fill index.
LEMMA RingHwSend == ASSUME FeTyped, RingInv, HwSend PROVE RingInv'
<1> SUFFICES ASSUME Running' PROVE RingInv'
  BY DEF RingInv
<1>1. /\ UNCHANGED <<fill, free, buf, xmit, need, poll, idx, hwidx, reset>>
      /\ dtx # fill /\ dtx' = NextIdx(dtx)
  BY DEF HwSend, xmitVars, pollVars, resetVars
<1>2. Running
  BY <1>1 DEF Running
<1>3. fill \in Slots /\ free \in Slots /\ dtx \in Slots /\ hwidx \in Slots
  BY DEF FeTyped
<1>4. dtx' \in Slots /\ dtx' = IF dtx = RING - 1 THEN 0 ELSE dtx + 1
  BY <1>1, <1>3, NextCases
<1>5. /\ Ahead(free, dtx) = IF dtx >= free THEN dtx - free ELSE dtx - free + RING
      /\ Ahead(free, fill) = IF fill >= free THEN fill - free ELSE fill - free + RING
      /\ Ahead(free, dtx') = IF dtx' >= free THEN dtx' - free ELSE dtx' - free + RING
  <2> DEFINE d == dtx'
  <2>1. d \in Slots
    BY <1>4
  <2> HIDE DEF d
  <2>2. Ahead(free, d) = IF d >= free THEN d - free ELSE d - free + RING
    BY <1>3, <2>1, AheadCases
  <2>3. Ahead(free, dtx') = IF dtx' >= free THEN dtx' - free ELSE dtx' - free + RING
    BY <2>2 DEF d
  <2> QED
    BY <1>3, <2>3, AheadCases
<1>6. Ahead(free, dtx) <= Ahead(free, fill)
  BY <1>2 DEF RingInv
<1>7. Ahead(free, dtx') = Ahead(free, dtx) + 1 /\ Ahead(free, dtx') <= Ahead(free, fill)
  BY <1>1, <1>3, <1>4, <1>5, <1>6, RingSize DEF Slots
<1>8. First' = First /\ Beyond' = Beyond
  BY <1>1 DEF First, Beyond, Slot
<1>9. \A i \in Slots : Held(i)' <=> Held(i)
  BY <1>8 DEF Held, Ahead
<1>10. poll = "tx" => Ahead(free, hwidx) <= Ahead(free, dtx')
  <2>1. poll = "tx" => Ahead(free, hwidx) <= Ahead(free, dtx)
    BY <1>2 DEF RingInv
  <2>2. Ahead(free, hwidx) \in Int /\ Ahead(free, dtx) \in Int
    BY <1>3, AheadCases DEF Slots
  <2> QED
    BY <1>7, <2>1, <2>2
<1>11. /\ Ahead(free, dtx)' = Ahead(free, dtx') /\ Ahead(free, fill)' = Ahead(free, fill)
       /\ Ahead(free, idx)' = Ahead(free, idx) /\ Ahead(free, hwidx)' = Ahead(free, hwidx)
  BY <1>1 DEF Ahead
<1> QED
  BY <1>1, <1>2, <1>7, <1>9, <1>10, <1>11 DEF RingInv

\* The poll starts where the last one stopped and goes as far as the hardware has come.
LEMMA RingPollStart == ASSUME FeTyped, RingInv, PollStart PROVE RingInv'
<1> SUFFICES ASSUME Running' PROVE RingInv'
  BY DEF RingInv
<1>1. /\ UNCHANGED <<fill, dtx, free, buf, xmit, need, reset>>
      /\ poll = "idle" /\ idx' = free /\ hwidx' = dtx
  BY DEF PollStart, xmitVars, resetVars
<1>2. Running
  BY <1>1 DEF Running
<1>3. First = free /\ First' = free /\ Beyond' = Beyond
  BY <1>1 DEF First, Beyond, Slot
<1>4. \A i \in Slots : Held(i)' <=> Held(i)
  BY <1>3 DEF Held, Ahead
<1>5. Ahead(free, free) = 0 /\ Ahead(free, dtx) \in Slots
  BY AheadCases DEF FeTyped, Slots
<1>6. Ahead(free, free) <= Ahead(free, dtx) /\ Ahead(free, dtx) <= Ahead(free, dtx)
  BY <1>5 DEF Slots
<1>7. /\ Ahead(free, idx)' = Ahead(free, free) /\ Ahead(free, hwidx)' = Ahead(free, dtx)
      /\ Ahead(free, dtx)' = Ahead(free, dtx) /\ Ahead(free, fill)' = Ahead(free, fill)
  BY <1>1 DEF Ahead
<1> QED
  BY <1>1, <1>2, <1>4, <1>6, <1>7 DEF RingInv

\* The slot that is cleaned is the first held one, and it has been sent.
LEMMA RingPollReap == ASSUME FeTyped, RingInv, PollReap PROVE RingInv'
<1> SUFFICES ASSUME Running' PROVE RingInv'
  BY DEF RingInv
<1>1. /\ UNCHANGED <<fill, dtx, free, xmit, need, poll, hwidx, reset>>
      /\ poll = "tx" /\ idx # hwidx
      /\ buf' = [buf EXCEPT ![idx] = "none"] /\ idx' = NextIdx(idx)
  BY DEF PollReap, ToReap, xmitVars, resetVars
<1>2. Running
  BY <1>1 DEF Running
<1>3. /\ fill \in Slots /\ free \in Slots /\ dtx \in Slots /\ hwidx \in Slots /\ idx \in Slots
      /\ buf \in [Slots -> {"none", "dummy", "skb"}]
  BY DEF FeTyped
<1>4. idx' \in Slots /\ idx' = IF idx = RING - 1 THEN 0 ELSE idx + 1
  BY <1>1, <1>3, NextCases
<1>5. Ahead(free, idx) <= Ahead(free, hwidx)
  BY <1>1, <1>2 DEF RingInv
<1>6. Ahead(free, idx') = Ahead(free, idx) + 1 /\ Ahead(free, idx') <= Ahead(free, hwidx)
  <2> DEFINE d == idx'
  <2>1. d \in Slots /\ d = IF idx = RING - 1 THEN 0 ELSE idx + 1
    BY <1>4
  <2> HIDE DEF d
  <2>2. Ahead(free, d) = IF d >= free THEN d - free ELSE d - free + RING
    BY <1>3, <2>1, AheadCases
  <2>3. /\ Ahead(free, idx) = IF idx >= free THEN idx - free ELSE idx - free + RING
        /\ Ahead(free, hwidx) = IF hwidx >= free THEN hwidx - free ELSE hwidx - free + RING
    BY <1>3, AheadCases
  <2>4. Ahead(free, d) = Ahead(free, idx) + 1 /\ Ahead(free, d) <= Ahead(free, hwidx)
    BY <1>1, <1>3, <1>5, <2>1, <2>2, <2>3, RingSize DEF Slots
  <2> QED
    BY <2>4 DEF d
<1>7. First = idx /\ First' = idx' /\ Beyond' = Beyond
  BY <1>1 DEF First, Beyond, Slot
<1>8. /\ Ahead(free, First) <= Ahead(free, dtx) /\ Beyond \in Slots
      /\ Ahead(free, Beyond) = Ahead(free, fill) + (IF xmit = "kick" THEN need ELSE 0)
  BY <1>2, Bounds
<1>9. Ahead(free, idx') <= Ahead(free, Beyond)
  <2>1. /\ Ahead(free, hwidx) <= Ahead(free, dtx) /\ Ahead(free, dtx) <= Ahead(free, fill)
        /\ xmit = "kick" => need > 0
    BY <1>1, <1>2, RingSize DEF RingInv
  <2>2. Ahead(free, hwidx) \in Int /\ Ahead(free, dtx) \in Int /\ Ahead(free, fill) \in Int
        /\ Ahead(free, idx) \in Int
    BY <1>3, AheadCases DEF Slots
  <2>3. need \in Int
    BY RingSize DEF FeTyped
  <2> QED
    BY <1>6, <1>8, <2>1, <2>2, <2>3
<1>10. ASSUME NEW i \in Slots PROVE buf'[i] # "none" <=> Held(i)'
  <2> DEFINE d == idx'
  <2>1. d \in Slots /\ Ahead(free, d) = Ahead(free, idx) + 1
        /\ Ahead(free, d) <= Ahead(free, Beyond)
    BY <1>4, <1>6, <1>9
  <2>2. Held(i)' <=> Ahead(d, i) < Ahead(d, Beyond)
    BY <1>7 DEF Held, Ahead
  <2> HIDE DEF d
  <2>3. /\ Ahead(d, i) = IF i >= d THEN i - d ELSE i - d + RING
        /\ Ahead(d, Beyond) = IF Beyond >= d THEN Beyond - d ELSE Beyond - d + RING
        /\ Ahead(free, d) = IF d >= free THEN d - free ELSE d - free + RING
        /\ Ahead(free, i) = IF i >= free THEN i - free ELSE i - free + RING
        /\ Ahead(free, Beyond) = IF Beyond >= free THEN Beyond - free
                                 ELSE Beyond - free + RING
    BY <1>3, <1>8, <2>1, AheadCases
  <2>4. Ahead(d, i) < Ahead(d, Beyond) <=> /\ Ahead(free, d) <= Ahead(free, i)
                                           /\ Ahead(free, i) < Ahead(free, Beyond)
    <3>1. i \in Slots /\ d \in Slots /\ free \in Slots /\ Beyond \in Slots
      BY <1>3, <1>8, <2>1
    <3>2. Ahead(free, d) <= Ahead(free, Beyond)
      BY <2>1
    <3> QED
      BY <2>3, <3>1, <3>2, RingSize, SMTT(60) DEF Slots
  <2>5. buf[i] # "none" <=> /\ Ahead(free, idx) <= Ahead(free, i)
                            /\ Ahead(free, i) < Ahead(free, Beyond)
    BY <1>2, <1>7, HeldFromFree DEF RingInv
  <2>6. i # idx <=> Ahead(free, i) # Ahead(free, idx)
    <3>1. Ahead(free, idx) = IF idx >= free THEN idx - free ELSE idx - free + RING
      BY <1>3, AheadCases
    <3> QED
      BY <1>3, <2>3, <3>1, RingSize DEF Slots
  <2>7. buf'[i] # "none" <=> i # idx /\ buf[i] # "none"
    BY <1>1, <1>3
  <2>8. Ahead(free, i) \in Int /\ Ahead(free, idx) \in Int
    BY <1>3, AheadCases DEF Slots
  <2>9. Ahead(free, d) <= Ahead(free, i) <=>
          Ahead(free, idx) <= Ahead(free, i) /\ Ahead(free, i) # Ahead(free, idx)
    BY <2>1, <2>8
  <2> QED
    BY <2>2, <2>4, <2>5, <2>6, <2>7, <2>9
<1>11. /\ Ahead(free, dtx)' = Ahead(free, dtx) /\ Ahead(free, fill)' = Ahead(free, fill)
       /\ Ahead(free, idx)' = Ahead(free, idx') /\ Ahead(free, hwidx)' = Ahead(free, hwidx)
  BY <1>1 DEF Ahead
<1> QED
  BY <1>1, <1>2, <1>6, <1>10, <1>11 DEF RingInv

\* tx_free_idx moves on to where the clean-up has come, and everything else comes nearer.
LEMMA RingPollReaped == ASSUME FeTyped, RingInv, PollReaped PROVE RingInv'
<1> SUFFICES ASSUME Running' PROVE RingInv'
  BY DEF RingInv
<1>1. /\ UNCHANGED <<fill, dtx, buf, xmit, need, idx, hwidx, reset>>
      /\ poll = "tx" /\ free' = idx /\ poll' # "tx"
  BY DEF PollReaped, xmitVars, resetVars
<1>2. Running
  BY <1>1 DEF Running
<1>3. fill \in Slots /\ free \in Slots /\ dtx \in Slots /\ hwidx \in Slots /\ idx \in Slots
  BY DEF FeTyped
<1>4. First' = idx /\ First = idx /\ Beyond' = Beyond
  BY <1>1 DEF First, Beyond, Slot
<1>5. \A i \in Slots : Held(i)' <=> Held(i)
  BY <1>4 DEF Held, Ahead
<1>6. /\ Ahead(free, idx) <= Ahead(free, hwidx) /\ Ahead(free, hwidx) <= Ahead(free, dtx)
      /\ Ahead(free, dtx) <= Ahead(free, fill)
  BY <1>1, <1>2 DEF RingInv
<1>7. /\ Ahead(free, idx) = IF idx >= free THEN idx - free ELSE idx - free + RING
      /\ Ahead(free, dtx) = IF dtx >= free THEN dtx - free ELSE dtx - free + RING
      /\ Ahead(free, fill) = IF fill >= free THEN fill - free ELSE fill - free + RING
      /\ Ahead(free, hwidx) \in Slots
  BY <1>3, AheadCases
<1>8. /\ Ahead(idx, dtx) = IF dtx >= idx THEN dtx - idx ELSE dtx - idx + RING
      /\ Ahead(idx, fill) = IF fill >= idx THEN fill - idx ELSE fill - idx + RING
  BY <1>3, AheadCases
<1>9. Ahead(free, idx) <= Ahead(free, dtx)
  BY <1>3, <1>6, <1>7, RingSize DEF Slots
<1>10. Ahead(idx, dtx) <= Ahead(idx, fill) /\ Ahead(idx, fill) <= Ahead(free, fill)
  BY <1>3, <1>6, <1>7, <1>8, <1>9, RingSize DEF Slots
<1>11. Ahead(free, dtx)' = Ahead(idx, dtx) /\ Ahead(free, fill)' = Ahead(idx, fill)
  BY <1>1 DEF Ahead
<1>12. xmit \in {"map", "kick"} => need \in TX_NUMS /\ Ahead(idx, fill) + need < RING
  <2>1. xmit \in {"map", "kick"} => need \in TX_NUMS /\ Ahead(free, fill) + need < RING
    BY <1>2 DEF RingInv
  <2>2. Ahead(idx, fill) \in Int /\ Ahead(free, fill) \in Int
    BY <1>3, AheadCases DEF Slots
  <2>3. need \in Int
    BY RingSize DEF FeTyped
  <2> QED
    BY <1>10, <2>1, <2>2, <2>3, RingSize
<1> QED
  BY <1>1, <1>2, <1>5, <1>10, <1>11, <1>12 DEF RingInv

\* After fe_open the ring is empty and every index is back at 0.
LEMMA RingReopen == ASSUME FeTyped, StopInv, RingInv, Reopen PROVE RingInv'
<1> SUFFICES ASSUME Running' PROVE RingInv'
  BY DEF RingInv
<1>1. /\ fill' = 0 /\ dtx' = 0 /\ free' = 0
      /\ UNCHANGED <<buf, xmit, need, poll>> /\ reset = "clean"
  BY DEF Reopen, xmitVars, pollVars
<1>2. xmit' \in {"none", "full"} /\ poll' # "tx" /\ buf' = [i \in Slots |-> "none"]
  BY <1>1 DEF StopInv, Running
<1>3. First' = 0 /\ Beyond' = 0
  BY <1>1, <1>2 DEF First, Beyond
<1>4. Ahead(0, 0) = 0
  BY RingSize, AheadCases
<1>5. \A i \in Slots : ~Held(i)'
  <2> SUFFICES ASSUME NEW i \in Slots PROVE ~Held(i)'
    OBVIOUS
  <2>1. Held(i)' <=> Ahead(0, i) < Ahead(0, 0)
    BY <1>3 DEF Held, Ahead
  <2>2. Ahead(0, i) \in Int /\ Ahead(0, i) >= 0
    BY RingSize, AheadCases DEF Slots
  <2> QED
    BY <1>4, <2>1, <2>2
<1>6. Ahead(free, dtx)' = 0 /\ Ahead(free, fill)' = 0
  BY <1>1, <1>4 DEF Ahead
<1> QED
  BY <1>2, <1>5, <1>6 DEF RingInv

\* At first the ring is empty.
LEMMA RingInit == Init => RingInv
<1> SUFFICES ASSUME Init PROVE RingInv
  OBVIOUS
<1>1. fill = 0 /\ dtx = 0 /\ free = 0 /\ xmit = "none" /\ poll = "idle"
      /\ \A i \in Slots : buf[i] = "none"
  BY DEF Init
<1>2. Ahead(0, 0) = 0
  BY RingSize, AheadCases
<1>3. First = 0 /\ Beyond = 0
  BY <1>1 DEF First, Beyond
<1>4. \A i \in Slots : ~Held(i)
  <2> SUFFICES ASSUME NEW i \in Slots PROVE ~Held(i)
    OBVIOUS
  <2>1. Ahead(0, i) \in Int /\ Ahead(0, i) >= 0
    BY RingSize, AheadCases DEF Slots
  <2> QED
    BY <1>2, <1>3, <2>1 DEF Held
<1> QED
  BY <1>1, <1>2, <1>4 DEF RingInv

\* Every step keeps the ring intact.
LEMMA RingStep == FeTyped /\ StopInv /\ RingInv /\ [Next]_txVars => RingInv'
<1> SUFFICES ASSUME FeTyped, StopInv, RingInv, [Next]_txVars PROVE RingInv'
  OBVIOUS
<1>1. ASSUME NEW n \in TX_NUMS, XmitStart(n) PROVE RingInv'
  BY <1>1, RingXmitStart
<1>2. CASE XmitFull
  BY <1>2, RingFrame DEF XmitFull, pollVars, resetVars, Running
<1>3. CASE XmitMap
  BY <1>3, RingXmitMap
<1>4. CASE XmitMapFails
  BY <1>4, RingFrame DEF XmitMapFails, pollVars, resetVars, Running
<1>5. CASE XmitKick
  BY <1>5, RingXmitKick
<1>6. CASE HwSend
  BY <1>6, RingHwSend
<1>7. CASE HwReceive
  BY <1>7, RingFrame DEF HwReceive, xmitVars, pollVars, resetVars, Running
<1>8. CASE Irq
  BY <1>8, RingFrame DEF Irq, xmitVars, pollVars, resetVars, Running
<1>9. CASE PollStart
  BY <1>9, RingPollStart
<1>10. CASE PollReap
  BY <1>10, RingPollReap
<1>11. CASE PollReaped
  BY <1>11, RingPollReaped
<1>12. CASE PollCheck
  BY <1>12, RingFrame DEF PollCheck, xmitVars, resetVars, Running
<1>13. CASE PollAck
  BY <1>13, RingFrame DEF PollAck, xmitVars, resetVars, Running
<1>14. CASE PollComplete
  BY <1>14, RingFrame DEF PollComplete, xmitVars, Running
<1>15. CASE PollReceive
  BY <1>15, RingFrame DEF PollReceive, xmitVars, resetVars, Running
<1>16. CASE PollReceived
  BY <1>16, RingFrame DEF PollReceived, xmitVars, resetVars, Running
<1>17. CASE PollReceiveAck
  BY <1>17, RingFrame DEF PollReceiveAck, xmitVars, resetVars, Running
<1>18. CASE PollEnd
  BY <1>18, RingFrame DEF PollEnd, xmitVars, resetVars, Running
<1>19. CASE PollEnable
  BY <1>19, RingFrame DEF PollEnable, xmitVars, Running
<1>20. CASE TxTimeout
  BY <1>20, RingFrame DEF TxTimeout, xmitVars, pollVars, Running
<1>21. CASE StopQueue
  BY <1>21, RingFrame DEF StopQueue, xmitVars, pollVars, Running
<1>22. CASE StopIrq
  BY <1>22, RingFrame DEF StopIrq, xmitVars, pollVars, Running
<1>23. CASE StopNapi
  BY <1>23, RingFrame DEF StopNapi, xmitVars, pollVars, Running
<1>24. CASE StopDma
  BY <1>24 DEF StopDma, RingInv, Running
<1>25. CASE Reopen
  BY <1>25, RingReopen
<1>26. CASE UNCHANGED txVars
  BY <1>26, RingFrame DEF txVars, Running
<1> QED
  BY <1>1, <1>2, <1>3, <1>4, <1>5, <1>6, <1>7, <1>8, <1>9, <1>10, <1>11, <1>12, <1>13,
     <1>14, <1>15, <1>16, <1>17, <1>18, <1>19, <1>20, <1>21, <1>22, <1>23, <1>24, <1>25,
     <1>26 DEF Next, Xmit, Poll, Reset

\* What RingInv says, measured from where the poll cleans.
LEMMA IntactFromInv == FeTyped /\ RingInv => RingIntact
<1> SUFFICES ASSUME FeTyped, RingInv, Running
             PROVE  /\ \A i \in Slots : buf[i] # "none" <=> Held(i)
                    /\ Ahead(First, dtx) <= Ahead(First, fill)
  BY DEF RingIntact
<1>1. free \in Slots /\ fill \in Slots /\ dtx \in Slots /\ First \in Slots
  BY Bounds DEF FeTyped
<1>2. Ahead(free, First) <= Ahead(free, dtx) /\ Ahead(free, dtx) <= Ahead(free, fill)
  BY Bounds DEF RingInv
<1>3. /\ Ahead(free, First) = IF First >= free THEN First - free ELSE First - free + RING
      /\ Ahead(free, dtx) = IF dtx >= free THEN dtx - free ELSE dtx - free + RING
      /\ Ahead(free, fill) = IF fill >= free THEN fill - free ELSE fill - free + RING
      /\ Ahead(First, dtx) = IF dtx >= First THEN dtx - First ELSE dtx - First + RING
      /\ Ahead(First, fill) = IF fill >= First THEN fill - First ELSE fill - First + RING
  BY <1>1, AheadCases
<1>4. Ahead(First, dtx) <= Ahead(First, fill)
  BY <1>1, <1>2, <1>3, RingSize DEF Slots
<1> QED
  BY <1>4 DEF RingInv

(***************************************************************************)
(* The byte queue limits.                                                  *)
(***************************************************************************)
Packets == {i \in Slots : buf[i] = "skb"}
InHand == IF poll \in {"tx", "check", "ack", "complete"} THEN done ELSE 0

\* OwedBalanced, in every state.
OwedInv == owed = Cardinality(Packets) + InHand

\* There are no more packets than slots.
LEMMA PacketCount == IsFiniteSet(Packets) /\ Cardinality(Packets) \in 0..RING
<1>1. IsFiniteSet(Slots) /\ Cardinality(Slots) = RING
  BY FS_Interval, RingSize DEF Slots
<1>2. Packets \in SUBSET Slots
  BY DEF Packets
<1>3. IsFiniteSet(Packets) /\ Cardinality(Packets) <= Cardinality(Slots)
  BY <1>1, <1>2, FS_Subset
<1>4. Cardinality(Packets) \in Nat
  BY <1>3, FS_CardinalityType
<1> QED
  BY <1>1, <1>3, <1>4, RingSize

\* A step that moves no packet and does not count.
LEMMA OwedFrame ==
    ASSUME OwedInv, UNCHANGED <<buf, owed>>, InHand' = InHand PROVE OwedInv'
BY DEF OwedInv, Packets

\* netdev_sent_queue counts the packet that fe_tx_map_dma puts into an empty slot.
LEMMA OwedXmitMap ==
    ASSUME FeTyped, StopInv, RingInv, OwedInv, XmitMap PROVE OwedInv'
<1> DEFINE last == Slot(need - 1)
<1>1. /\ UNCHANGED <<fill, free, poll, done>> /\ xmit = "map"
      /\ buf' = Filled(need) /\ owed' = owed + 1
  BY DEF XmitMap, pollVars
<1>2. Running
  BY <1>1 DEF StopInv, Running
<1>3. /\ need \in TX_NUMS /\ need \in Nat /\ need > 0 /\ need < RING
      /\ fill \in Slots /\ free \in Slots
  BY <1>1, <1>2, RingSize DEF RingInv, FeTyped
<1>4. need - 1 \in Slots
  BY <1>3, RingSize DEF Slots
<1>5. last \in Slots
  BY <1>3, <1>4, SlotCases
<1>6. First \in Slots /\ Beyond = fill
  BY <1>1, <1>2, Bounds DEF Beyond
<1>7. ASSUME NEW i \in Slots, i \in {Slot(k) : k \in 0..(need - 1)} PROVE buf[i] = "none"
  <2>1. Ahead(free, fill) <= Ahead(free, i)
    BY <1>1, <1>2, <1>7, MapSlots
  <2>2. Held(i) => Ahead(free, i) < Ahead(free, fill)
    BY <1>2, <1>6, HeldFromFree
  <2>3. Ahead(free, fill) \in Int /\ Ahead(free, i) \in Int
    BY <1>3, AheadCases DEF Slots
  <2>4. ~Held(i)
    BY <2>1, <2>2, <2>3
  <2> QED
    BY <1>2, <2>4 DEF RingInv
<1>8. last \in {Slot(k) : k \in 0..(need - 1)}
  BY <1>1, <1>2, <1>5, MapSlots
<1> HIDE DEF last
<1>9. buf[last] = "none"
  BY <1>5, <1>7, <1>8
<1>10. Packets' = Packets \cup {last}
  <2>1. ASSUME NEW i \in Slots PROVE buf'[i] = "skb" <=> i = last \/ buf[i] = "skb"
    <3>1. i = last => buf'[i] = "skb"
      BY <1>1 DEF Filled, last
    <3>2. i # last /\ i \in {Slot(k) : k \in 0..(need - 1)} =>
            buf'[i] = "dummy" /\ buf[i] = "none"
      BY <1>1, <1>7 DEF Filled, last
    <3>3. i # last /\ i \notin {Slot(k) : k \in 0..(need - 1)} => buf'[i] = buf[i]
      BY <1>1 DEF Filled, last
    <3> QED
      BY <3>1, <3>2, <3>3
  <2> QED
    BY <1>5, <2>1 DEF Packets
<1>11. last \notin Packets
  BY <1>9 DEF Packets
<1>12. Cardinality(Packets') = Cardinality(Packets) + 1
  BY <1>10, <1>11, PacketCount, FS_AddElement
<1>13. InHand' = InHand /\ InHand \in Int
  BY <1>1, RingSize DEF InHand, FeTyped
<1>14. Cardinality(Packets)' = Cardinality(Packets')
  OBVIOUS
<1> QED
  BY <1>1, <1>12, <1>13, <1>14, PacketCount DEF OwedInv

\* A packet that is cleaned goes from the ring into the poll's hands.
LEMMA OwedPollReap == ASSUME FeTyped, OwedInv, PollReap PROVE OwedInv'
<1>1. /\ poll = "tx" /\ UNCHANGED <<poll, owed>>
      /\ buf' = [buf EXCEPT ![idx] = "none"]
      /\ done' = IF buf[idx] = "skb" THEN done + 1 ELSE done
  BY DEF PollReap
<1>2. idx \in Slots /\ buf \in [Slots -> {"none", "dummy", "skb"}] /\ done \in Int
  BY RingSize DEF FeTyped
<1>3. Packets' = Packets \ {idx}
  BY <1>1, <1>2 DEF Packets
<1>4. Cardinality(Packets') = IF idx \in Packets THEN Cardinality(Packets) - 1
                              ELSE Cardinality(Packets)
  BY <1>3, PacketCount, FS_RemoveElement
<1>5. idx \in Packets <=> buf[idx] = "skb"
  BY <1>2 DEF Packets
<1>6. InHand = done /\ InHand' = done'
  BY <1>1 DEF InHand
<1>7. done' + Cardinality(Packets') = done + Cardinality(Packets)
  BY <1>1, <1>2, <1>4, <1>5, PacketCount
<1>8. Cardinality(Packets') \in Int
  BY <1>4, PacketCount
<1>9. done' \in Int
  BY <1>1, <1>2
<1>10. OwedInv' <=> owed' = Cardinality(Packets') + InHand'
  BY DEF OwedInv
<1> QED
  BY <1>1, <1>2, <1>6, <1>7, <1>8, <1>9, <1>10, PacketCount DEF OwedInv

\* netdev_completed_queue counts exactly what the poll has in its hands.
LEMMA OwedPollComplete == ASSUME FeTyped, OwedInv, PollComplete PROVE OwedInv'
<1>1. /\ poll = "complete" /\ UNCHANGED buf /\ owed' = owed - done /\ done' = 0
      /\ poll' \notin {"tx", "check", "ack", "complete"}
  BY DEF PollComplete
<1>2. InHand = done /\ InHand' = 0 /\ done \in Int
  BY <1>1, RingSize DEF InHand, FeTyped
<1>3. Packets' = Packets
  BY <1>1 DEF Packets
<1>4. OwedInv' <=> owed' = Cardinality(Packets) + InHand'
  BY <1>3 DEF OwedInv
<1> QED
  BY <1>1, <1>2, <1>4, PacketCount DEF OwedInv

\* An empty ring owes nothing.
LEMMA OwedEmpty ==
    ASSUME buf = [i \in Slots |-> "none"], owed = 0, InHand = 0 PROVE OwedInv
<1>1. Packets = {}
  BY DEF Packets
<1> QED
  BY <1>1, FS_EmptySet DEF OwedInv

\* Every step keeps the balance.
LEMMA OwedStep == FeTyped /\ StopInv /\ RingInv /\ OwedInv /\ [Next]_txVars => OwedInv'
<1> SUFFICES ASSUME FeTyped, StopInv, RingInv, OwedInv, [Next]_txVars PROVE OwedInv'
  OBVIOUS
<1> USE DEF InHand
<1>1. ASSUME NEW n \in TX_NUMS, XmitStart(n) PROVE OwedInv'
  BY <1>1, OwedFrame DEF XmitStart, pollVars
<1>2. CASE XmitFull \/ XmitMapFails \/ XmitKick
  BY <1>2, OwedFrame DEF XmitFull, XmitMapFails, XmitKick, pollVars
<1>3. CASE XmitMap
  BY <1>3, OwedXmitMap
<1>4. CASE HwSend \/ HwReceive \/ Irq
  BY <1>4, OwedFrame DEF HwSend, HwReceive, Irq, pollVars
<1>5. CASE PollStart
  BY <1>5, OwedFrame DEF PollStart
<1>6. CASE PollReap
  BY <1>6, OwedPollReap
<1>7. CASE PollReaped \/ PollCheck \/ PollAck
  BY <1>7, OwedFrame DEF PollReaped, PollCheck, PollAck
<1>8. CASE PollComplete
  BY <1>8, OwedPollComplete
<1>9. CASE PollReceive \/ PollReceived \/ PollReceiveAck \/ PollEnd \/ PollEnable
  BY <1>9, OwedFrame DEF PollReceive, PollReceived, PollReceiveAck, PollEnd, PollEnable
<1>10. CASE TxTimeout \/ StopQueue \/ StopIrq \/ StopNapi
  BY <1>10, OwedFrame DEF TxTimeout, StopQueue, StopIrq, StopNapi, pollVars
<1>11. CASE StopDma
  <2>1. buf' = [i \in Slots |-> "none"] /\ owed' = 0 /\ UNCHANGED pollVars
    BY <1>11 DEF StopDma
  <2>2. ~sched
    BY <1>11 DEF StopDma
  <2>3. InHand' = 0
    BY <2>1, <2>2 DEF StopInv, pollVars
  <2>4. Packets' = {}
    BY <2>1 DEF Packets
  <2>5. OwedInv' <=> owed' = Cardinality(Packets') + InHand'
    BY DEF OwedInv
  <2> HIDE DEF InHand
  <2> QED
    BY <2>1, <2>3, <2>4, <2>5, FS_EmptySet
<1>12. CASE Reopen
  BY <1>12, OwedFrame DEF Reopen, pollVars
<1>13. CASE UNCHANGED txVars
  BY <1>13, OwedFrame DEF txVars
<1> QED
  BY <1>1, <1>2, <1>3, <1>4, <1>5, <1>6, <1>7, <1>8, <1>9, <1>10, <1>11, <1>12, <1>13
  DEF Next, Xmit, Poll, Reset

(***************************************************************************)
(* The theorems.                                                           *)
(***************************************************************************)
FeInv == FeTyped /\ StopInv /\ TeardownInv /\ RingInv /\ OwedInv

\* The invariant that every theorem rests on.
THEOREM FeInvariant == Spec => []FeInv
<1>1. Init => FeInv
  <2> SUFFICES ASSUME Init PROVE FeInv
    OBVIOUS
  <2>1. FeTyped /\ StopInv /\ RingInv
    BY FeTypedInit, RingInit
  <2>2. TeardownInv
    BY DEF Init, TeardownInv
  <2>3. OwedInv
    BY OwedEmpty DEF Init, InHand
  <2> QED
    BY <2>1, <2>2, <2>3 DEF FeInv
<1>2. FeInv /\ [Next]_txVars => FeInv'
  BY FeTypedStep, StopStep, TeardownStep, RingStep, OwedStep DEF FeInv
<1> QED
  BY <1>1, <1>2, PTL DEF Spec

\* Every variable keeps its type; no more packets are owed than fit into the ring and
\* into one poll.
THEOREM FeTypeCorrect == Spec => []TypeOK
<1>1. FeInv => TypeOK
  <2> SUFFICES ASSUME FeInv PROVE TypeOK
    OBVIOUS
  <2>1. owed = Cardinality(Packets) + InHand /\ InHand \in 0..BUDGET
    BY RingSize DEF FeInv, OwedInv, FeTyped, InHand
  <2>2. owed \in 0..(RING + BUDGET)
    BY <2>1, PacketCount, RingSize
  <2>3. {fill, dtx, free, idx, hwidx} \subseteq Slots
    BY DEF FeInv, FeTyped
  <2>4. {stopped, tx_int, rx_int, enabled, sched, again, rx_seen, pending, overlap}
         \subseteq BOOLEAN
    BY DEF FeInv, FeTyped
  <2> QED
    BY <2>2, <2>3, <2>4 DEF FeInv, FeTyped, TypeOK
<1> QED
  BY <1>1, FeInvariant, PTL

\* Between clean-up and fill index lie exactly the packets that are not cleaned yet, and
\* the hardware's index is among them.
THEOREM RingStaysIntact == Spec => []RingIntact
<1>1. FeInv => RingIntact
  BY IntactFromInv DEF FeInv
<1> QED
  BY <1>1, FeInvariant, PTL

\* Every packet counted as sent is in the ring or about to be counted as completed.
THEOREM OwedStaysBalanced == Spec => []OwedBalanced
<1>1. FeInv => OwedBalanced
  BY DEF FeInv, OwedInv, OwedBalanced, Packets, InHand
<1> QED
  BY <1>1, FeInvariant, PTL

\* Unless a poll got in between, the rings are freed with everything quiet.
THEOREM TeardownIsClean == Spec => []CleanTeardown
<1>1. FeInv => CleanTeardown
  BY DEF FeInv, TeardownInv, CleanTeardown
<1> QED
  BY <1>1, FeInvariant, PTL

(***************************************************************************)
(* What QueueWakes rests on, apart from fairness: the interrupt is never   *)
(* left off with nobody to turn it on, and a poll ends.                    *)
(***************************************************************************)
\* Until a reset turns the interrupt off, and again after it, the interrupt is enabled or
\* a poll is due that enables it, however transmit path, poll and reset interleave.
InterruptKept ==
    reset \in {"none", "queue"} => enabled \/ sched \/ poll = "enable"

\* Steps this call of fe_poll has left at most.
PollLeft ==
    IF poll = "idle" THEN 0
    ELSE IF poll = "enable" THEN 1
    ELSE IF poll = "end" THEN 2
    ELSE IF poll = "rxack" THEN 3
    ELSE IF poll = "rx" THEN BUDGET - done + 4
    ELSE BUDGET + (IF poll = "complete" THEN 5
                   ELSE IF poll = "ack" THEN 6
                   ELSE IF poll = "check" THEN 7 ELSE Ahead(idx, hwidx) + 8)

\* However many packets go out and frames come in while it runs, fe_poll ends: the budget
\* does not bound the slots without a packet, the second look at the hardware's index
\* does not start the clean-up again.
PollIsBounded ==
    [][poll # "idle" => PollLeft' < PollLeft \/ UNCHANGED pollVars]_txVars

LEMMA InterruptStep ==
    ASSUME InterruptKept, enabled \in BOOLEAN, sched \in BOOLEAN, [Next]_txVars
    PROVE  InterruptKept'
<1> USE DEF InterruptKept
<1>1. CASE UNCHANGED <<reset, enabled, sched>> /\ (poll' = poll \/ poll # "enable")
  BY <1>1
<1>2. ASSUME \/ \E n \in TX_NUMS : XmitStart(n)
             \/ XmitFull \/ XmitMap \/ XmitMapFails \/ XmitKick
             \/ HwSend \/ HwReceive \/ TxTimeout \/ UNCHANGED txVars
      PROVE  UNCHANGED <<reset, enabled, sched, poll>>
  BY <1>2 DEF XmitStart, XmitFull, XmitMap, XmitMapFails, XmitKick, HwSend, HwReceive,
              TxTimeout, txVars, intVars, pollVars, resetVars
<1>3. ASSUME \/ PollStart \/ PollReap \/ PollReaped \/ PollCheck \/ PollAck \/ PollComplete
             \/ PollReceive \/ PollReceived \/ PollReceiveAck
      PROVE  UNCHANGED <<reset, enabled, sched>> /\ poll # "enable"
  BY <1>3 DEF PollStart, PollReap, PollReaped, PollCheck, PollAck, PollComplete,
              PollReceive, PollReceived, PollReceiveAck, intVars, resetVars
<1>4. CASE Irq
  BY <1>4 DEF Irq
<1>5. CASE PollEnd
  BY <1>5 DEF PollEnd, resetVars
<1>6. CASE PollEnable
  BY <1>6 DEF PollEnable
<1>7. CASE StopQueue
  BY <1>7 DEF StopQueue, intVars, pollVars
<1>8. CASE StopIrq \/ StopNapi \/ StopDma
  BY <1>8 DEF StopIrq, StopNapi, StopDma
<1>9. CASE Reopen
  BY <1>9 DEF Reopen
<1> QED
  BY <1>1, <1>2, <1>3, <1>4, <1>5, <1>6, <1>7, <1>8, <1>9 DEF Next, Xmit, Poll, Reset

\* Between the resets the interrupt is off only while a poll is due to turn it on.
THEOREM InterruptStaysKept == Spec => []InterruptKept
<1>1. Init => InterruptKept
  BY DEF Init, InterruptKept
<1>2. FeInv /\ InterruptKept /\ [Next]_txVars => InterruptKept'
  BY InterruptStep DEF FeInv, FeTyped
<1> QED
  BY <1>1, <1>2, FeInvariant, PTL DEF Spec

\* Every step of fe_poll uses up one of those it has left.
LEMMA PollShrinks ==
    ASSUME FeInv, Next, poll # "idle"
    PROVE  PollLeft' < PollLeft \/ UNCHANGED pollVars
<1>1. /\ done \in Nat /\ done <= BUDGET /\ BUDGET \in Nat /\ poll \in Polls
      /\ idx \in Slots /\ hwidx \in Slots
  BY RingSize DEF FeInv, FeTyped
<1>10. \A i, j \in Slots : Ahead(i, j) \in Nat
  <2> SUFFICES ASSUME NEW i \in Slots, NEW j \in Slots PROVE Ahead(i, j) \in Nat
    OBVIOUS
  <2>1. Ahead(i, j) \in Slots
    BY AheadCases
  <2> QED
    BY <2>1, RingSize DEF Slots
<1>2. CASE PollReap
  <2>1. /\ poll = "tx" /\ poll' = "tx" /\ idx # hwidx /\ idx' = NextIdx(idx) /\ hwidx' = hwidx
    BY <1>2 DEF PollReap, ToReap
  <2>2. Ahead(NextIdx(idx), hwidx) < Ahead(idx, hwidx)
    <3>1. /\ NextIdx(idx) \in Slots /\ NextIdx(idx) = IF idx = RING - 1 THEN 0 ELSE idx + 1
          /\ Ahead(idx, hwidx) = IF hwidx >= idx THEN hwidx - idx ELSE hwidx - idx + RING
      BY <1>1, NextCases, AheadCases
    <3>2. Ahead(NextIdx(idx), hwidx)
             = IF hwidx >= NextIdx(idx) THEN hwidx - NextIdx(idx)
                                        ELSE hwidx - NextIdx(idx) + RING
      BY <1>1, <3>1, AheadCases
    <3>3. idx \in 0..(RING - 1) /\ hwidx \in 0..(RING - 1) /\ RING \in Nat
      BY <1>1, RingSize DEF Slots
    <3> QED
      BY <2>1, <3>1, <3>2, <3>3
  <2>3. /\ PollLeft = BUDGET + (Ahead(idx, hwidx) + 8)
        /\ PollLeft' = BUDGET + (Ahead(NextIdx(idx), hwidx) + 8)
    BY <2>1 DEF PollLeft, Ahead
  <2>4. Ahead(NextIdx(idx), hwidx) \in Nat /\ Ahead(idx, hwidx) \in Nat
    BY <1>1, <1>10, NextCases
  <2> QED
    BY <1>1, <2>2, <2>3, <2>4
<1>3. CASE PollReaped
  <2>1. poll = "tx" /\ poll' \in {"check", "complete"}
    BY <1>3 DEF PollReaped
  <2>2. PollLeft = BUDGET + (Ahead(idx, hwidx) + 8) /\ PollLeft' \in {BUDGET + 7, BUDGET + 5}
    BY <2>1 DEF PollLeft
  <2>3. Ahead(idx, hwidx) \in Nat
    BY <1>1, <1>10
  <2> QED
    BY <1>1, <2>2, <2>3
<1>4. CASE PollCheck \/ PollAck
  <2>1. \/ poll = "check" /\ poll' \in {"ack", "complete"}
        \/ poll = "ack" /\ poll' = "complete"
    BY <1>4 DEF PollCheck, PollAck
  <2> QED
    BY <1>1, <2>1 DEF PollLeft
<1>5. CASE PollComplete
  <2>1. poll = "complete" /\ poll' \in {"rx", "end"} /\ done' = 0
    BY <1>5 DEF PollComplete
  <2> QED
    BY <1>1, <2>1 DEF PollLeft
<1>6. CASE PollReceive
  <2>1. poll = "rx" /\ poll' = "rx" /\ done' = done + 1
    BY <1>6 DEF PollReceive
  <2> QED
    BY <1>1, <2>1 DEF PollLeft
<1>7. CASE PollReceived \/ PollReceiveAck \/ PollEnd \/ PollEnable
  <2>1. \/ poll = "rx" /\ poll' = "rxack"
        \/ poll = "rxack" /\ poll' = "end"
        \/ poll = "end" /\ poll' \in {"idle", "enable"}
        \/ poll = "enable" /\ poll' = "idle"
    BY <1>7 DEF PollReceived, PollReceiveAck, PollEnd, PollEnable
  <2> QED
    BY <1>1, <2>1 DEF PollLeft
<1>8. CASE Xmit \/ HwSend \/ HwReceive \/ Irq \/ Reset
  BY <1>8 DEF Xmit, XmitStart, XmitFull, XmitMap, XmitMapFails, XmitKick, HwSend, HwReceive,
              Irq, Reset, TxTimeout, StopQueue, StopIrq, StopNapi, StopDma, Reopen
<1>9. ~PollStart
  BY DEF PollStart
<1> QED
  BY <1>2, <1>3, <1>4, <1>5, <1>6, <1>7, <1>8, <1>9 DEF Next, Poll

\* A call of fe_poll ends after at most PollLeft steps, whatever hardware, transmit path
\* and reset do.
THEOREM PollComesToEnd == Spec => [](PollLeft \in Nat) /\ PollIsBounded
<1>1. FeInv => PollLeft \in Nat
  <2> SUFFICES ASSUME FeInv PROVE PollLeft \in Nat
    OBVIOUS
  <2>1. BUDGET - done \in Nat /\ BUDGET \in Nat
    BY RingSize DEF FeInv, FeTyped
  <2>2. Ahead(idx, hwidx) \in Nat
    BY AheadCases DEF FeInv, FeTyped, Slots
  <2> QED
    BY <2>1, <2>2 DEF PollLeft
<1>2. FeInv /\ [Next]_txVars
      => [poll # "idle" => PollLeft' < PollLeft \/ UNCHANGED pollVars]_txVars
  BY PollShrinks
<1> QED
  BY <1>1, <1>2, FeInvariant, PTL DEF Spec, PollIsBounded
=============================================================================
