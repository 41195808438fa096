-------------------------------- MODULE FeRx --------------------------------
(***************************************************************************)
(* The receive side of the frame engine driver, ralink_soc_eth.c: the ring *)
(* of buffers that the hardware fills and fe_poll_rx takes apart, giving   *)
(* every slot a new buffer, under the interrupt and NAPI polling of FeTx.  *)
(*                                                                         *)
(* The hardware works at any time and the poll is modelled access by       *)
(* access.  One poll runs at a time, so the number of CPUs does not        *)
(* matter.  Abstracted: DMA mappings, checksums, VLAN tags, statistics;    *)
(* of the transmit side only that it raises interrupts and wants further   *)
(* polls.                                                                  *)
(*                                                                         *)
(* External: the hardware fills slots in their order up to the one before  *)
(* RX_CALC_IDX0 and raises the interrupt with each frame; the stack frees  *)
(* the buffers it was given when it likes, and only then can they be       *)
(* allocated again.                                                        *)
(***************************************************************************)
EXTENDS Integers, FiniteSets

CONSTANTS
    RING,      \* rx_ring_size, a power of two
    BUDGET,    \* NAPI weight, 32
    Buffers,   \* memory for buffers
    Frames,    \* what may arrive
    NoFrame

ASSUME FeRxAssumption ==
    RING \in Nat \ {0, 1} /\ BUDGET \in Nat \ {0} /\ NoFrame \notin Frames

VARIABLES
    calc,      \* FE_REG_RX_CALC_IDX0: the slot handed over last
    drx,       \* FE_REG_RX_DRX_IDX0: the slot the hardware fills next
    frame,     \* of each slot with RX_DMA_DONE: what the hardware wrote; NoFrame of others
    data,      \* rx_data[i], whose address is in the descriptor
    held,      \* buffers the stack has
    passed,    \* the frame that went up last
    rx_int,    \* receive bit of FE_REG_FE_INT_STATUS
    enabled,   \* FE_REG_FE_INT_ENABLE
    sched,     \* NAPI_STATE_SCHED
    poll,      \* where fe_poll is
    idx,       \* fe_poll_rx: idx, 0 outside it
    done       \* fe_poll: rx_done, 0 outside it

ringVars == <<calc, drx, frame, data>>
napiVars == <<rx_int, enabled, sched>>
pollVars == <<poll, idx, done>>
rxVars == <<ringVars, held, passed, napiVars, pollVars>>

Slots == 0..(RING - 1)

\* NEXT_RX_DESP_IDX
NextRx(i) == (i + 1) % RING

RxPolls == {"idle", "look", "frame", "release", "kick", "ack", "end", "enable"}

RxTypeOK ==
    /\ calc \in Slots /\ drx \in Slots /\ idx \in Slots
    /\ frame \in [Slots -> Frames \cup {NoFrame}] /\ passed \in Frames \cup {NoFrame}
    /\ data \in [Slots -> Buffers] /\ held \subseteq Buffers
    /\ rx_int \in BOOLEAN /\ enabled \in BOOLEAN /\ sched \in BOOLEAN
    /\ poll \in RxPolls /\ done \in 0..BUDGET

Distinct(d) == \A i, j \in Slots : i # j => d[i] # d[j]

\* fe_alloc_rx.
RxInit ==
    /\ calc = RING - 1 /\ drx = 0
    /\ frame = [i \in Slots |-> NoFrame]
    /\ data \in [Slots -> Buffers] /\ Distinct(data)
    /\ held = {}
    /\ passed = NoFrame
    /\ rx_int = FALSE /\ enabled = TRUE /\ sched = FALSE
    /\ poll = "idle" /\ idx = 0 /\ done = 0

(***************************************************************************)
(* Hardware, stack and interrupt.                                          *)
(***************************************************************************)
HwReceive(f) ==
    /\ drx # calc
    /\ frame' = [frame EXCEPT ![drx] = f]
    /\ drx' = NextRx(drx)
    /\ rx_int' = TRUE
    /\ UNCHANGED <<calc, data, held, passed, enabled, sched, pollVars>>

Free(b) ==
    /\ b \in held
    /\ held' = held \ {b}
    /\ UNCHANGED <<ringVars, passed, napiVars, pollVars>>

\* fe_handle_irq.
Irq ==
    /\ enabled /\ ~sched
    /\ enabled' = FALSE
    /\ sched' = TRUE
    /\ UNCHANGED <<ringVars, held, passed, rx_int, pollVars>>

RxIrq == rx_int /\ Irq

(***************************************************************************)
(* fe_poll and in it fe_poll_rx.                                           *)
(***************************************************************************)
\* The status is read.
PollStart ==
    /\ sched /\ poll = "idle"
    /\ poll' = IF rx_int THEN "look" ELSE "end"
    /\ idx' = IF rx_int THEN calc ELSE 0
    /\ UNCHANGED <<ringVars, held, passed, napiVars, done>>

\* The interrupt is cleared although the budget is used up.
MutLook ==
    /\ poll = "look"
    /\ IF done < BUDGET
       THEN idx' = NextRx(idx) /\ poll' = IF frame[NextRx(idx)] # NoFrame THEN "frame" ELSE "ack"
       ELSE idx' = 0 /\ poll' = "ack"
    /\ UNCHANGED <<ringVars, held, passed, napiVars, done>>

\* The next slot, if there is budget left for it.
Look ==
    /\ poll = "look"
    /\ IF done < BUDGET
       THEN idx' = NextRx(idx) /\ poll' = IF frame[NextRx(idx)] # NoFrame THEN "frame" ELSE "ack"
       ELSE idx' = 0 /\ poll' = "end"
    /\ UNCHANGED <<ringVars, held, passed, napiVars, done>>

Unused == Buffers \ (held \cup {data[i] : i \in Slots})

\* The slot keeps its buffer.
MutTake ==
    /\ poll = "frame" /\ poll' = "release"
    /\ Unused # {}
    /\ held' = held \cup {data[idx]}
    /\ passed' = frame[idx]
    /\ UNCHANGED <<ringVars, napiVars, idx, done>>

\* The frame goes up with its buffer, the slot gets a new one.
Take ==
    /\ poll = "frame" /\ poll' = "release"
    /\ \E new \in Unused : data' = [data EXCEPT ![idx] = new]
    /\ held' = held \cup {data[idx]}
    /\ passed' = frame[idx]
    /\ UNCHANGED <<calc, drx, frame, napiVars, idx, done>>

\* No new buffer, no mapping or no skb: the frame is dropped, the slot keeps its buffer.
Drop ==
    /\ poll = "frame" /\ poll' = "release"
    /\ UNCHANGED <<ringVars, held, passed, napiVars, idx, done>>

Release ==
    /\ poll = "release" /\ poll' = "kick"
    /\ frame' = [frame EXCEPT ![idx] = NoFrame]
    /\ UNCHANGED <<calc, drx, data, held, passed, napiVars, idx, done>>

\* One slot too many is handed over.
MutKick ==
    /\ poll = "kick" /\ poll' = "look"
    /\ calc' = NextRx(idx)
    /\ done' = done + 1
    /\ UNCHANGED <<drx, frame, data, held, passed, napiVars, idx>>

Kick ==
    /\ poll = "kick" /\ poll' = "look"
    /\ calc' = idx
    /\ done' = done + 1
    /\ UNCHANGED <<drx, frame, data, held, passed, napiVars, idx>>

\* A slot was found empty; the interrupt is cleared, whatever has arrived since.
Ack ==
    /\ poll = "ack" /\ poll' = "end"
    /\ rx_int' = FALSE
    /\ idx' = 0
    /\ UNCHANGED <<ringVars, held, passed, enabled, sched, done>>

\* The poll goes on if the budget is used up or the status is not clear; it may do so
\* for the transmit side.
End ==
    /\ poll = "end"
    /\ \/ poll' = "idle" /\ UNCHANGED sched
       \/ done < BUDGET /\ ~rx_int /\ poll' = "enable" /\ sched' = FALSE
    /\ done' = 0
    /\ UNCHANGED <<ringVars, held, passed, rx_int, enabled, idx>>

Enable ==
    /\ poll = "enable" /\ poll' = "idle"
    /\ enabled' = TRUE
    /\ UNCHANGED <<ringVars, held, passed, rx_int, sched, idx, done>>

\* All slots are handed over, by their number.
MutReopen ==
    /\ poll = "idle" /\ ~sched
    /\ calc' = RING /\ drx' = 0
    /\ frame' = [i \in Slots |-> NoFrame]
    /\ enabled' = TRUE
    /\ UNCHANGED <<data, held, passed, rx_int, sched, pollVars>>

\* fe_stop and fe_open, after the end of the poll; the buffers are freed and allocated.
Reopen ==
    /\ poll = "idle" /\ ~sched
    /\ calc' = RING - 1 /\ drx' = 0
    /\ frame' = [i \in Slots |-> NoFrame]
    /\ enabled' = TRUE
    /\ UNCHANGED <<data, held, passed, rx_int, sched, pollVars>>

PollStep ==
    PollStart \/ Look \/ Take \/ Drop \/ Release \/ Kick \/ Ack \/ End \/ Enable

RxNext ==
    \/ \E f \in Frames : HwReceive(f)
    \/ \E b \in Buffers : Free(b)
    \/ Irq \/ PollStep \/ Reopen

RxSpec == RxInit /\ [][RxNext]_rxVars

\* The interrupt is taken and the softirq runs.
FairRxSpec == RxSpec /\ WF_rxVars(RxIrq) /\ WF_rxVars(PollStep)

(***************************************************************************)
(* Properties.                                                             *)
(***************************************************************************)
\* The hardware never writes into memory that somebody else has: every slot has a
\* buffer of its own, and none of them is the stack's, however allocations fail.
BuffersOwned == Distinct(data) /\ \A i \in Slots : data[i] \notin held

\* The slot fe_poll_rx handles next, and the frames from there to the hardware's slot.
First == IF poll \in {"release", "kick"} THEN NextRx(idx) ELSE NextRx(calc)
Waiting == [k \in 1..((drx - First) % RING) |-> frame[(First + k - 1) % RING]]

Fifo == INSTANCE FrameFifo WITH queue <- Waiting, ROOM <- RING - 1

\* The ring with its two indices and its DONE bits is a queue: what the hardware
\* accepted goes up in order, once, or is dropped, across wrapped indices, budgets
\* that end in the middle, failing allocations and a restart.
ImplementsFifo == Fifo!FifoSpec

\* A frame in the ring whose interrupt is up is handled.  The only frame that has to
\* wait for the next one is one that arrives after fe_poll_rx has found the slot empty
\* and before it clears the interrupt (poll = "ack").
RaisedIsReceived ==
    \A i \in Slots : frame[i] # NoFrame /\ rx_int /\ poll # "ack" ~> frame[i] = NoFrame
=============================================================================
