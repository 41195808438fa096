-------------------------------- MODULE FeTx --------------------------------
(***************************************************************************)
(* The transmit side of the frame engine driver, ralink_soc_eth.c: the     *)
(* descriptor ring between fe_start_xmit and the hardware, its clean-up in *)
(* fe_poll_tx, the interrupt and NAPI polling that drive it, and the reset *)
(* after a transmit timeout.                                               *)
(*                                                                         *)
(* Four actors interleave: the CPU that transmits, the NAPI poll, the      *)
(* hardware, and the work queue that resets.  On one CPU (SMP = FALSE) the *)
(* transmit path and the poll, both in softirq context, exclude each       *)
(* other; the hardware always runs.  The poll is modelled register access  *)
(* by register access.                                                     *)
(*                                                                         *)
(* Abstracted: descriptor contents, DMA addresses, statistics; of received *)
(* frames only how many wait, not their ring.  External: NAPI              *)
(* and the queue of Linux 3.18, where a poll that returns without          *)
(* napi_complete is called again; the interrupt status, write-1-to-clear,  *)
(* raised with every descriptor the hardware finishes.  The carrier is up. *)
(***************************************************************************)
EXTENDS Integers, FiniteSets

CONSTANTS
    RING,      \* tx_ring_size, a power of two, 128
    TX_NUMS,   \* descriptors a packet may need (fe_cal_txd_req)
    BUDGET,    \* NAPI weight, 32
    RX_MAX,    \* bound: received frames that wait
    SMP        \* whether the transmit path and the poll run on different CPUs

ASSUME FeTxAssumption ==
    /\ RING \in Nat \ {0}
    /\ TX_NUMS \subseteq 1..(RING - 1)
    /\ BUDGET \in Nat \ {0}
    /\ RX_MAX \in Nat
    /\ SMP \in BOOLEAN

VARIABLES
    fill,      \* FE_REG_TX_CTX_IDX0: where the driver writes next
    dtx,       \* FE_REG_TX_DTX_IDX0: where the hardware reads next
    free,      \* ring->tx_free_idx: where the clean-up goes on
    buf,       \* ring->tx_buf[i].skb: none, DMA_DUMMY_DESC or a packet
    owed,      \* packets netdev_sent_queue counts and netdev_completed_queue did not
    stopped,   \* netif_queue_stopped
    xmit,      \* where fe_start_xmit is
    need,      \* its tx_num
    tx_int,    \* transmit bit of FE_REG_FE_INT_STATUS
    rx_int,    \* receive bit of FE_REG_FE_INT_STATUS
    enabled,   \* both bits of FE_REG_FE_INT_ENABLE
    sched,     \* NAPI_STATE_SCHED of priv->rx_napi
    rxn,       \* received frames that wait
    poll,      \* where fe_poll is
    idx,       \* fe_poll_tx: idx
    hwidx,     \* fe_poll_tx: hwidx
    done,      \* packets or frames done in this call
    again,     \* tx_again
    rx_seen,   \* the status fe_poll has read has the receive bit
    pending,   \* FE_FLAG_RESET_PENDING
    reset,     \* where the reset is
    overlap    \* history: the poll undid a part of fe_stop before it was through

xmitVars == <<xmit, need>>
pollVars == <<poll, idx, hwidx, done, again, rx_seen>>
resetVars == <<pending, reset, overlap>>
intVars == <<tx_int, rx_int, enabled, sched>>
txVars == <<fill, dtx, free, buf, owed, stopped, xmit, need, tx_int, rx_int, enabled,
            sched, rxn, poll, idx, hwidx, done, again, rx_seen, pending, reset,
            overlap>>

Slots == 0..(RING - 1)

\* The index does not wrap.
MutNextIdx(i) == i + 1

\* NEXT_TX_DESP_IDX
NextIdx(i) == (i + 1) % RING

Xmits == {"none", "full", "map", "kick", "oops"}
Polls == {"idle", "tx", "check", "ack", "complete", "rx", "rxack", "end", "enable"}
Resets == {"none", "queue", "irq", "napi", "clean"}

TypeOK ==
    /\ {fill, dtx, free, idx, hwidx} \subseteq Slots
    /\ buf \in [Slots -> {"none", "dummy", "skb"}]
    /\ owed \in 0..(RING + BUDGET)
    /\ xmit \in Xmits /\ need \in TX_NUMS \cup {0}
    /\ poll \in Polls /\ done \in 0..BUDGET
    /\ rxn \in 0..RX_MAX
    /\ reset \in Resets
    /\ {stopped, tx_int, rx_int, enabled, sched, again, rx_seen, pending, overlap}
         \subseteq BOOLEAN

Init ==
    /\ fill = 0 /\ dtx = 0 /\ free = 0
    /\ buf = [i \in Slots |-> "none"]
    /\ owed = 0
    /\ stopped = FALSE
    /\ xmit = "none" /\ need = 0
    /\ tx_int = FALSE /\ rx_int = FALSE
    /\ enabled = TRUE
    /\ sched = FALSE
    /\ rxn = 0
    /\ poll = "idle" /\ idx = 0 /\ hwidx = 0 /\ done = 0
    /\ again = FALSE /\ rx_seen = FALSE
    /\ pending = FALSE /\ reset = "none" /\ overlap = FALSE

(***************************************************************************)
(* fe_start_xmit, called with the queue awake and its lock held.           *)
(***************************************************************************)
Used == (fill - free) % RING
EmptyTxd == RING - Used

MutHasRoom(n) == EmptyTxd >= n
HasRoom(n) == EmptyTxd > n

Alone == SMP \/ poll = "idle"
SoftirqFree == SMP \/ xmit = "none"

\* The packet needs n descriptors; tx is read and compared with tx_free_idx.
\* While fe_stop has freed the ring, a transmit that finds room dereferences null.
XmitStart(n) ==
    /\ xmit = "none" /\ ~stopped
    /\ Alone
    /\ need' = n
    /\ xmit' = IF ~HasRoom(n) THEN "full" ELSE IF reset = "clean" THEN "oops" ELSE "map"
    /\ UNCHANGED <<fill, dtx, free, buf, owed, stopped, intVars, rxn, pollVars, resetVars>>

\* The ring is full: the queue stops and the packet goes back to it.
XmitFull ==
    /\ xmit = "full"
    /\ stopped' = TRUE
    /\ xmit' = "none" /\ need' = 0
    /\ UNCHANGED <<fill, dtx, free, buf, owed, intVars, rxn, pollVars, resetVars>>

\* The packet's slots: dummies, and the packet in the last.
Slot(k) == (fill + k) % RING
Filled(n) == [i \in Slots |-> IF i = Slot(n - 1) THEN "skb"
                              ELSE IF i \in {Slot(k) : k \in 0..(n - 1)} THEN "dummy"
                              ELSE buf[i]]

\* fe_tx_map_dma up to netdev_sent_queue.
XmitMap ==
    /\ xmit = "map"
    /\ buf' = Filled(need)
    /\ owed' = owed + 1
    /\ xmit' = "kick"
    /\ UNCHANGED <<fill, dtx, free, stopped, need, intVars, rxn, pollVars, resetVars>>

\* A mapping fails: the packet is given up, the slots are empty again.
XmitMapFails ==
    /\ xmit = "map"
    /\ xmit' = "none" /\ need' = 0
    /\ UNCHANGED <<fill, dtx, free, buf, owed, stopped, intVars, rxn, pollVars, resetVars>>

\* The new index hands the descriptors to the hardware.
XmitKick ==
    /\ xmit = "kick"
    /\ fill' = Slot(need)
    /\ xmit' = "none" /\ need' = 0
    /\ UNCHANGED <<dtx, free, buf, owed, stopped, intVars, rxn, pollVars, resetVars>>

(***************************************************************************)
(* The hardware.                                                           *)
(***************************************************************************)
HwRunning == reset # "clean"

HwSend ==
    /\ HwRunning /\ dtx # fill
    /\ dtx' = NextIdx(dtx)
    /\ tx_int' = TRUE
    /\ UNCHANGED <<fill, free, buf, owed, stopped, xmitVars, rx_int, enabled, sched,
                   rxn, pollVars, resetVars>>

HwReceive ==
    /\ HwRunning /\ rxn < RX_MAX
    /\ rxn' = rxn + 1
    /\ rx_int' = TRUE
    /\ UNCHANGED <<fill, dtx, free, buf, owed, stopped, xmitVars, tx_int, enabled, sched,
                   pollVars, resetVars>>

(***************************************************************************)
(* fe_handle_irq.                                                          *)
(***************************************************************************)
\* While napi_disable waits it schedules nothing and the interrupt stays raised.
Irq ==
    /\ enabled /\ (tx_int \/ rx_int)
    /\ ~sched /\ reset # "napi"
    /\ enabled' = FALSE
    /\ sched' = TRUE
    /\ UNCHANGED <<fill, dtx, free, buf, owed, stopped, xmitVars, tx_int, rx_int, rxn,
                   pollVars, resetVars>>

(***************************************************************************)
(* fe_poll: the transmit side, the receive side, then the decision whether *)
(* it is called again.                                                     *)
(***************************************************************************)
\* The status is read, and the two indices if there is something to clean.
PollStart ==
    /\ sched /\ poll = "idle" /\ reset # "clean"
    /\ SoftirqFree
    /\ poll' = IF tx_int THEN "tx" ELSE IF rx_int THEN "rx" ELSE "end"
    /\ idx' = free /\ hwidx' = dtx
    /\ done' = 0 /\ again' = FALSE /\ rx_seen' = rx_int
    /\ UNCHANGED <<fill, dtx, free, buf, owed, stopped, xmitVars, intVars, rxn, resetVars>>

ToReap == idx # hwidx /\ done < BUDGET /\ buf[idx] # "none"

\* Every slot counts as a packet.
MutPollReap ==
    /\ poll = "tx" /\ ToReap
    /\ done' = done + 1
    /\ buf' = [buf EXCEPT ![idx] = "none"]
    /\ idx' = NextIdx(idx)
    /\ UNCHANGED <<fill, dtx, free, owed, stopped, xmitVars, intVars, rxn, poll, hwidx,
                   again, rx_seen, resetVars>>

\* One slot; only a packet counts against the budget.
PollReap ==
    /\ poll = "tx" /\ ToReap
    /\ done' = IF buf[idx] = "skb" THEN done + 1 ELSE done
    /\ buf' = [buf EXCEPT ![idx] = "none"]
    /\ idx' = NextIdx(idx)
    /\ UNCHANGED <<fill, dtx, free, owed, stopped, xmitVars, intVars, rxn, poll, hwidx,
                   again, rx_seen, resetVars>>

\* The loop ends: tx_free_idx moves on.
PollReaped ==
    /\ poll = "tx" /\ ~ToReap
    /\ free' = idx
    /\ IF idx = hwidx
       THEN poll' = "check" /\ UNCHANGED again
       ELSE poll' = "complete" /\ again' = TRUE
    /\ UNCHANGED <<fill, dtx, buf, owed, stopped, xmitVars, intVars, rxn, idx, hwidx, done,
                   rx_seen, resetVars>>

\* The hardware's index is read again.
PollCheck ==
    /\ poll = "check"
    /\ hwidx' = dtx
    /\ IF idx = dtx
       THEN poll' = "ack" /\ UNCHANGED again
       ELSE poll' = "complete" /\ again' = TRUE
    /\ UNCHANGED <<fill, dtx, free, buf, owed, stopped, xmitVars, intVars, rxn, idx, done,
                   rx_seen, resetVars>>

\* The interrupt is cleared, whatever has happened since.
PollAck ==
    /\ poll = "ack"
    /\ tx_int' = FALSE
    /\ poll' = "complete"
    /\ UNCHANGED <<fill, dtx, free, buf, owed, stopped, xmitVars, rx_int, enabled, sched,
                   rxn, idx, hwidx, done, again, rx_seen, resetVars>>

\* The packets are accounted for and the queue goes on.
PollComplete ==
    /\ poll = "complete"
    /\ owed' = owed - done
    /\ stopped' = (stopped /\ done = 0)
    /\ overlap' = (overlap \/ (stopped /\ ~stopped' /\ reset \in {"queue", "irq", "napi"}))
    /\ poll' = IF rx_seen THEN "rx" ELSE "end"
    /\ done' = 0
    /\ UNCHANGED <<fill, dtx, free, buf, xmitVars, intVars, rxn, idx, hwidx, again,
                   rx_seen, pending, reset>>

\* A frame is received.
PollReceive ==
    /\ poll = "rx" /\ done < BUDGET /\ rxn > 0
    /\ rxn' = rxn - 1
    /\ done' = done + 1
    /\ UNCHANGED <<fill, dtx, free, buf, owed, stopped, xmitVars, intVars, poll, idx, hwidx,
                   again, rx_seen, resetVars>>

\* No more, found before the interrupt is cleared; or the budget is used up.
PollReceived ==
    /\ poll = "rx" /\ ~(done < BUDGET /\ rxn > 0)
    /\ poll' = "rxack"
    /\ UNCHANGED <<fill, dtx, free, buf, owed, stopped, xmitVars, intVars, rxn, idx, hwidx,
                   done, again, rx_seen, resetVars>>

PollReceiveAck ==
    /\ poll = "rxack"
    /\ rx_int' = (rx_int /\ done = BUDGET)
    /\ poll' = "end"
    /\ UNCHANGED <<fill, dtx, free, buf, owed, stopped, xmitVars, tx_int, enabled, sched,
                   rxn, idx, hwidx, done, again, rx_seen, resetVars>>

\* The status is read again; NAPI completes if nothing is left.  A poll that has
\* used its budget up while napi_disable waits is ended by net_rx_action.
PollEnd ==
    /\ poll = "end"
    /\ IF again \/ done = BUDGET \/ tx_int \/ rx_int
       THEN /\ poll' = "idle"
            /\ sched' = ~(done = BUDGET /\ reset = "napi")
       ELSE poll' = "enable" /\ sched' = FALSE
    /\ done' = 0
    /\ UNCHANGED <<fill, dtx, free, buf, owed, stopped, xmitVars, tx_int, rx_int, enabled,
                   rxn, idx, hwidx, again, rx_seen, resetVars>>

PollEnable ==
    /\ poll = "enable"
    /\ enabled' = TRUE
    /\ overlap' = (overlap \/ reset \in {"irq", "napi", "clean"})
    /\ poll' = "idle"
    /\ UNCHANGED <<fill, dtx, free, buf, owed, stopped, xmitVars, tx_int, rx_int, sched, rxn,
                   idx, hwidx, done, again, rx_seen, pending, reset>>

(***************************************************************************)
(* fe_tx_timeout and the reset: fe_stop and fe_open, in process context.   *)
(***************************************************************************)
ProcessFree == SMP \/ (poll = "idle" /\ xmit = "none")

\* The watchdog finds the queue stopped for too long, be it by a reset under way.
TxTimeout ==
    /\ stopped /\ ~pending
    /\ pending' = TRUE
    /\ UNCHANGED <<fill, dtx, free, buf, owed, stopped, xmitVars, intVars, rxn, pollVars,
                   reset, overlap>>

\* The queue is not stopped.
MutStopQueue ==
    /\ pending /\ reset = "none" /\ ProcessFree /\ xmit = "none"
    /\ pending' = FALSE
    /\ reset' = "queue"
    /\ overlap' = FALSE
    /\ UNCHANGED <<fill, dtx, free, buf, owed, stopped, xmitVars, intVars, rxn, pollVars>>

\* fe_pending_work, and in it netif_tx_disable, under the lock of the transmit queue.
StopQueue ==
    /\ pending /\ reset = "none" /\ ProcessFree /\ xmit = "none"
    /\ pending' = FALSE
    /\ reset' = "queue"
    /\ overlap' = FALSE
    /\ stopped' = TRUE
    /\ UNCHANGED <<fill, dtx, free, buf, owed, xmitVars, intVars, rxn, pollVars>>

\* fe_int_disable.
StopIrq ==
    /\ reset = "queue" /\ ProcessFree
    /\ reset' = "irq"
    /\ enabled' = FALSE
    /\ UNCHANGED <<fill, dtx, free, buf, owed, stopped, xmitVars, tx_int, rx_int, sched, rxn,
                   pollVars, pending, overlap>>

\* napi_disable forbids new polls.
StopNapi ==
    /\ reset = "irq" /\ ProcessFree
    /\ reset' = "napi"
    /\ UNCHANGED <<fill, dtx, free, buf, owed, stopped, xmitVars, intVars, rxn, pollVars,
                   pending, overlap>>

\* It has waited for the poll's end and holds NAPI_STATE_SCHED; the DMA stops;
\* fe_free_dma.
StopDma ==
    /\ reset = "napi" /\ ProcessFree /\ ~sched
    /\ reset' = "clean"
    /\ sched' = TRUE
    /\ buf' = [i \in Slots |-> "none"]
    /\ owed' = 0
    /\ rxn' = 0
    /\ xmit' = IF xmit \in {"map", "kick"} THEN "oops" ELSE xmit
    /\ UNCHANGED <<fill, dtx, free, stopped, need, tx_int, rx_int, enabled, pollVars, pending, overlap>>

\* The queue is not started again.
MutReopen ==
    /\ reset = "clean" /\ ProcessFree
    /\ fill' = 0 /\ dtx' = 0 /\ free' = 0
    /\ sched' = FALSE
    /\ enabled' = TRUE
    /\ reset' = "none"
    /\ UNCHANGED <<buf, owed, stopped, xmitVars, tx_int, rx_int, rxn, pollVars, pending, overlap>>

\* fe_open.
Reopen ==
    /\ reset = "clean" /\ ProcessFree
    /\ fill' = 0 /\ dtx' = 0 /\ free' = 0
    /\ sched' = FALSE
    /\ enabled' = TRUE
    /\ stopped' = FALSE
    /\ reset' = "none"
    /\ UNCHANGED <<buf, owed, xmitVars, tx_int, rx_int, rxn, pollVars, pending, overlap>>

Xmit == (\E n \in TX_NUMS : XmitStart(n)) \/ XmitFull \/ XmitMap \/ XmitMapFails \/ XmitKick
Poll == \/ PollStart \/ PollReap \/ PollReaped \/ PollCheck \/ PollAck \/ PollComplete
        \/ PollReceive \/ PollReceived \/ PollReceiveAck \/ PollEnd \/ PollEnable
Reset == TxTimeout \/ StopQueue \/ StopIrq \/ StopNapi \/ StopDma \/ Reopen

Next == Xmit \/ HwSend \/ HwReceive \/ Irq \/ Poll \/ Reset

Spec == Init /\ [][Next]_txVars

(***************************************************************************)
(* Fairness.  The hardware sends what it was given; an interrupt that is   *)
(* enabled is taken; softirqs and, through ksoftirqd, processes get the    *)
(* CPU again and again; the watchdog looks at a stopped queue.             *)
(***************************************************************************)
FairSpec ==
    /\ Spec
    /\ WF_txVars(HwSend) /\ WF_txVars(Irq)
    /\ WF_txVars(XmitFull \/ XmitMap \/ XmitKick)
    /\ SF_txVars(Poll) /\ SF_txVars(Reset)

(***************************************************************************)
(* Properties.                                                             *)
(***************************************************************************)
Ahead(i, j) == (j - i) % RING
Running == reset # "clean" /\ xmit # "oops"

\* The slots the driver has filled and not cleaned yet, in ring order: the poll
\* cleans from its own index, fe_tx_map_dma fills before the register moves.
First == IF poll = "tx" THEN idx ELSE free
Beyond == IF xmit = "kick" THEN Slot(need) ELSE fill
Held(i) == Ahead(First, i) < Ahead(First, Beyond)

\* Exactly the slots between the clean-up and the fill index hold packets, and the
\* hardware's index is among them: nothing is overwritten before it is sent, freed
\* before it is sent, freed twice or left behind, however transmit path, poll and
\* hardware interleave on one CPU or on two.
RingIntact ==
    Running =>
      /\ \A i \in Slots : buf[i] # "none" <=> Held(i)
      /\ Ahead(First, dtx) <= Ahead(First, fill)

\* The byte queue limits balance: what netdev_sent_queue has counted and
\* netdev_completed_queue has not is in the ring or in the poll's hands.
OwedBalanced ==
    Running => owed = Cardinality({i \in Slots : buf[i] = "skb"})
                      + (IF poll \in {"tx", "check", "ack", "complete"} THEN done ELSE 0)

\* fe_stop frees the rings with the queue stopped, the interrupt off and no
\* transmit under way, unless a poll got in between: netif_tx_disable and
\* fe_int_disable come before napi_disable, and a poll that still runs wakes the
\* queue and enables the interrupt again.
CleanTeardown ==
    /\ reset = "clean" /\ ~overlap => stopped /\ ~enabled /\ xmit = "none"
    /\ xmit = "oops" => overlap

\* A stopped queue wakes again, by a clean-up or by the watchdog's reset, unless
\* receive traffic never lets NAPI complete.
QueueWakes ==
    []<>(~sched) => [](stopped => <>(~stopped \/ xmit = "oops"))

\* Lines 908 to 911: the second look at the hardware's index is to "make sure no
\* new tx packet" is forgotten when the interrupt is cleared.  At rest every packet
\* that was sent is cleaned up or has its interrupt pending.
NoneForgotten ==
    ~sched /\ poll = "idle" /\ reset = "none" => tx_int \/ free = dtx
=============================================================================
