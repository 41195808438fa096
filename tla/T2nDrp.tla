------------------------------- MODULE T2nDrp -------------------------------
(***************************************************************************)
(* The reliable datagram protocol ("DRP") client of libs/t2n_client.lua.   *)
(*                                                                         *)
(* The client keeps one queue of packs for all endpoints.  drp_write cuts  *)
(* a message into packs and appends them; drp_send_check walks the queue   *)
(* from its head, fills one datagram and gives up packs whose tries are    *)
(* used up; a 500 ms timer counts the packs' timeouts down; handle_drp     *)
(* removes what the peer acknowledges.  Everything runs on one libuv loop, *)
(* so a handler is never interrupted: drp_send_check and handle_drp are    *)
(* loops, modelled one iteration per step, and while one of them runs      *)
(* (pc # "idle") no other handler can start.                               *)
(*                                                                         *)
(* Abstracted: payload bytes and checksums; drp_wack, drp_status and       *)
(* ack_id, which the code writes and never reads; the callbacks of the     *)
(* peer's requests, which leave the queue alone.                           *)
(***************************************************************************)
EXTENDS Integers, Sequences

CONSTANTS
    Endpoints,     \* endpoints the application writes to
    Lengths,       \* lengths of the messages it writes
    RxDatagrams,   \* datagrams the peer may send: sequences of RxPack
    DRP_MTU,       \* self.drp_mtu, 1400 bytes
    PACK_HDR,      \* bytes of a pack's header in a datagram, 5
    QUEUE_MAX,     \* 128, the limit drp_write compares #drp_queue with
    ID_MAX,        \* 65535, the last pack id before 0
    TRY_TIMES,     \* 5 transmissions of a pack that wants an ack
    TIMEOUT_CNT    \* 6 timer ticks between transmissions

RxKind == {"REQ", "ACK", "DATA"}  \* tcf = 1; tcf with bit 3 set; any other tcf
RxPack == [endpoint : Endpoints, id : 0..ID_MAX, kind : RxKind]

ASSUME DrpAssumption ==
    /\ DRP_MTU \in Nat \ {0}
    /\ PACK_HDR \in Nat
    /\ QUEUE_MAX \in Nat
    /\ ID_MAX \in Nat
    /\ TRY_TIMES \in Nat \ {0}
    /\ TIMEOUT_CNT \in Nat \ {0}
    /\ Lengths \subseteq Nat \ {0}
    /\ RxDatagrams \subseteq Seq(RxPack)

VARIABLES
    drp_queue,     \* packs not yet acknowledged, oldest first
    new_id,        \* per endpoint: id of the newest pack
    send_async,    \* drp_send_async has been signalled
    pc,            \* "idle", or the handler that is running
    pos,           \* drp_send_check: i, the position it looks at
    used,          \* drp_send_check: offset - 8, bytes of packs in the datagram
    dgram,         \* drp_send_check: the packs put into the datagram
    rx             \* handle_drp: the packs of the datagram still to handle

vars == <<drp_queue, new_id, send_async, pc, pos, used, dgram, rx>>

Tcf == {"NOACK", "FIRST", "MID", "LAST", "FULL"}

Pack == [endpoint : Endpoints, id : 0..ID_MAX, tcf : Tcf,
         length : 1..DRP_MTU, try_times : 0..TRY_TIMES,
         timeout_cnt : -1..TIMEOUT_CNT,
         offset : Nat]   \* history: where its last datagram held it

Sent(p) == p.timeout_cnt >= 0

\* table.remove of the positions from..to
Cut(s, from, to) == SubSeq(s, 1, from - 1) \o SubSeq(s, to + 1, Len(s))

Init ==
    /\ drp_queue = <<>>
    /\ new_id = [e \in Endpoints |-> 0]
    /\ send_async = FALSE
    /\ pc = "idle"
    /\ pos = 0 /\ used = 0 /\ dgram = <<>>
    /\ rx = <<>>

-----------------------------------------------------------------------------
(* drp_write, called by the application *)

MutIdNoWrap(id, k) == id + k

IdAfter(id, k) == (id + k) % (ID_MAX + 1)

NewPack(e, id, tcf, length, tries) ==
    [endpoint |-> e, id |-> id, tcf |-> tcf, length |-> length,
     try_times |-> tries, timeout_cnt |-> -1, offset |-> 0]

FragCount(length) == (length + DRP_MTU - 1) \div DRP_MTU

MutFragSameId(e, length, k) ==
    LET n == FragCount(length)
    IN  NewPack(e, IdAfter(new_id[e], n), IF k = n THEN "LAST" ELSE "FIRST", 1, TRY_TIMES)

\* The k-th of the packs a message longer than the MTU is cut into.
Fragment(e, length, k) ==
    LET n == FragCount(length)
    IN  NewPack(e, IdAfter(new_id[e], k),
                IF k = 1 THEN "FIRST" ELSE IF k = n THEN "LAST" ELSE "MID",
                IF k = n THEN length - DRP_MTU * (n - 1) ELSE DRP_MTU,
                TRY_TIMES)

Enqueue(e, packs) ==
    /\ drp_queue' = drp_queue \o packs
    /\ new_id' = [new_id EXCEPT ![e] = IdAfter(@, Len(packs))]
    /\ send_async' = TRUE
    /\ UNCHANGED <<pc, pos, used, dgram, rx>>

MutWriteLong(e, length) ==
    LET n == FragCount(length)
    IN  /\ pc = "idle" /\ length > DRP_MTU
        /\ Len(drp_queue) <= QUEUE_MAX
        /\ Enqueue(e, [k \in 1..n |-> Fragment(e, length, k)])

\* A longer message is refused (-3) when its packs would pass QUEUE_MAX.
WriteLong(e, length) ==
    LET n == FragCount(length)
    IN  /\ pc = "idle"
        /\ length > DRP_MTU
        /\ Len(drp_queue) + n <= QUEUE_MAX
        /\ Enqueue(e, [k \in 1..n |-> Fragment(e, length, k)])

\* Any other is refused (-2) only when the queue is already past QUEUE_MAX.
WriteSingle(e, length, flags) ==
    /\ pc = "idle"
    /\ length <= DRP_MTU
    /\ Len(drp_queue) <= QUEUE_MAX
    /\ Enqueue(e, <<NewPack(e, IdAfter(new_id[e], 1),
                            IF flags = 0 THEN "NOACK" ELSE "FULL", length,
                            IF flags = 0 THEN 1 ELSE TRY_TIMES)>>)

-----------------------------------------------------------------------------
(* drp_send_check *)

StartSendCheck ==
    IF drp_queue = <<>>
    THEN UNCHANGED <<pc, pos, used, dgram>>
    ELSE pc' = "send" /\ pos' = 1 /\ used' = 0 /\ dgram' = <<>>

\* The async handle's callback; signals sent before it ran are merged.
AsyncFire ==
    /\ pc = "idle" /\ send_async
    /\ send_async' = FALSE
    /\ StartSendCheck
    /\ UNCHANGED <<drp_queue, new_id, rx>>

\* The timer's loop stops at the first pack never sent.
Ticked(k) == \A j \in 1..k : Sent(drp_queue[j])

Expired(k) == Ticked(k) /\ drp_queue[k].timeout_cnt = 0

Tick ==
    /\ pc = "idle"
    /\ drp_queue' = [k \in 1..Len(drp_queue) |->
                        IF Ticked(k) /\ drp_queue[k].timeout_cnt > 0
                        THEN [drp_queue[k] EXCEPT !.timeout_cnt = @ - 1]
                        ELSE drp_queue[k]]
    /\ IF \E k \in 1..Len(drp_queue) : Expired(k)
       THEN StartSendCheck
       ELSE UNCHANGED <<pc, pos, used, dgram>>
    /\ UNCHANGED <<new_id, send_async, rx>>

Cur == drp_queue[pos]

AtPack(live) ==
    /\ pc = "send" /\ pos <= Len(drp_queue)
    /\ (Cur.try_times > 0) = live

Fits == Cur.length + used <= DRP_MTU

Break ==
    /\ pc' = "flush"
    /\ UNCHANGED <<pos, used, dgram>>

Skip == pos' = pos + 1 /\ UNCHANGED <<pc, used, dgram>>

MutSkipWaiting ==
    /\ \/ AtPack(TRUE) /\ Cur.timeout_cnt > 0 /\ Skip
       \/ pc = "send" /\ pos > Len(drp_queue) /\ Break
    /\ UNCHANGED <<drp_queue, new_id, send_async, rx>>

\* The pack waits for its ack, or the loop has passed the last pack.
StopWaiting ==
    /\ \/ AtPack(TRUE) /\ Cur.timeout_cnt > 0
       \/ pc = "send" /\ pos > Len(drp_queue)
    /\ Break
    /\ UNCHANGED <<drp_queue, new_id, send_async, rx>>

MutSkipNoRoom ==
    /\ AtPack(TRUE) /\ Cur.timeout_cnt <= 0 /\ ~Fits
    /\ Skip
    /\ UNCHANGED <<drp_queue, new_id, send_async, rx>>

\* No room.  A pack that does not fit an empty datagram makes the code drop the
\* last pack of the queue and raise an error.
StopNoRoom ==
    /\ AtPack(TRUE) /\ Cur.timeout_cnt <= 0 /\ ~Fits
    /\ drp_queue' = IF used = 0 THEN Cut(drp_queue, Len(drp_queue), Len(drp_queue))
                                ELSE drp_queue
    /\ Break
    /\ UNCHANGED <<new_id, send_async, rx>>

\* The pack goes into the datagram; more: another one may follow it.
Put(tries, more) ==
    /\ AtPack(TRUE) /\ Cur.timeout_cnt <= 0 /\ Fits
    /\ drp_queue' = [drp_queue EXCEPT ![pos] =
                        [@ EXCEPT !.timeout_cnt = TIMEOUT_CNT, !.try_times = tries,
                                  !.offset = used]]
    /\ used' = used + PACK_HDR + Cur.length
    /\ dgram' = Append(dgram, [endpoint |-> Cur.endpoint, id |-> Cur.id, tcf |-> Cur.tcf])
    /\ pos' = pos + 1
    /\ pc' = IF more THEN "send" ELSE "flush"
    /\ UNCHANGED <<new_id, send_async, rx>>

MutPutForever == Put(Cur.try_times, Cur.tcf = "FULL")

\* Only after a FULL pack may another pack follow in the datagram.
PutPack == Put(Cur.try_times - 1, Cur.tcf = "FULL")

MutDropHead ==
    /\ AtPack(FALSE) /\ Cur.tcf \in {"FULL", "NOACK"}
    /\ drp_queue' = Cut(drp_queue, 1, 1)
    /\ UNCHANGED <<new_id, send_async, pc, pos, used, dgram, rx>>

\* A whole message out of tries is removed alone.
DropWhole ==
    /\ AtPack(FALSE) /\ Cur.tcf \in {"FULL", "NOACK"}
    /\ drp_queue' = Cut(drp_queue, pos, pos)
    /\ UNCHANGED <<new_id, send_async, pc, pos, used, dgram, rx>>

MutDropRest ==
    /\ AtPack(FALSE) /\ Cur.tcf \notin {"FULL", "NOACK"}
    /\ drp_queue' = Cut(drp_queue, pos, Len(drp_queue))
    /\ UNCHANGED <<new_id, send_async, pc, pos, used, dgram, rx>>

\* A fragment out of tries takes every pack up to the next FULL one with it,
\* packs of later messages and packs never sent included.
DropFragments ==
    /\ AtPack(FALSE) /\ Cur.tcf \notin {"FULL", "NOACK"}
    /\ \E last \in pos..Len(drp_queue) :
          /\ \A k \in pos..last : drp_queue[k].tcf # "FULL"
          /\ last < Len(drp_queue) => drp_queue[last + 1].tcf = "FULL"
          /\ drp_queue' = Cut(drp_queue, pos, last)
    /\ UNCHANGED <<new_id, send_async, pc, pos, used, dgram, rx>>

\* The datagram, unless it is empty, goes to the peer.
Flush ==
    /\ pc = "flush"
    /\ pc' = "idle" /\ pos' = 0 /\ used' = 0 /\ dgram' = <<>>
    /\ UNCHANGED <<drp_queue, new_id, send_async, rx>>

SendCheckStep ==
    StopWaiting \/ StopNoRoom \/ PutPack \/ DropWhole \/ DropFragments \/ Flush

-----------------------------------------------------------------------------
(* handle_drp *)

Receive(d) ==
    /\ pc = "idle"
    /\ pc' = "recv"
    /\ rx' = d
    /\ UNCHANGED <<drp_queue, new_id, send_async, pos, used, dgram>>

\* bit.band(tcf, 8) is a number, which Lua takes for true: every pack is taken
\* for an acknowledgement, whatever its kind.
IsAck(p) == TRUE

MutMatchesId(p, k) == drp_queue[k].id = p.id

Matches(p, k) == drp_queue[k].endpoint = p.endpoint /\ drp_queue[k].id = p.id

AckedBy(p) ==
    IF IsAck(p)
    THEN {k \in 1..Len(drp_queue) :
            Matches(p, k) /\ \A j \in 1..(k - 1) : ~Matches(p, j)}
    ELSE {}

HandlePack ==
    /\ pc = "recv" /\ rx # <<>>
    /\ LET acked == AckedBy(Head(rx))
       IN  \/ acked = {} /\ UNCHANGED drp_queue
           \/ \E k \in acked : drp_queue' = Cut(drp_queue, k, k)
    /\ rx' = Tail(rx)
    /\ UNCHANGED <<new_id, send_async, pc, pos, used, dgram>>

ReceiveEnd ==
    /\ pc = "recv" /\ rx = <<>>
    /\ pc' = "idle"
    /\ send_async' = TRUE
    /\ UNCHANGED <<drp_queue, new_id, pos, used, dgram, rx>>

-----------------------------------------------------------------------------
Next ==
    \/ \E e \in Endpoints, length \in Lengths : WriteLong(e, length)
    \/ \E e \in Endpoints, length \in Lengths, flags \in {0, 2} :
          WriteSingle(e, length, flags)
    \/ AsyncFire \/ Tick
    \/ SendCheckStep
    \/ \E d \in RxDatagrams : Receive(d)
    \/ HandlePack \/ ReceiveEnd

Spec == Init /\ [][Next]_vars

\* libuv runs a handler to its end, runs every due timer once per turn of its
\* loop, and every signalled async handle after the next poll.
FairSpec ==
    /\ Spec
    /\ WF_vars(SendCheckStep) /\ WF_vars(HandlePack) /\ WF_vars(ReceiveEnd)
    /\ SF_vars(AsyncFire) /\ SF_vars(Tick)
-----------------------------------------------------------------------------
TypeOK ==
    /\ drp_queue \in Seq(Pack)
    /\ new_id \in [Endpoints -> 0..ID_MAX]
    /\ send_async \in BOOLEAN
    /\ pc \in {"idle", "send", "flush", "recv"}
    /\ pos \in Nat
    /\ used \in Nat
    /\ dgram \in Seq([endpoint : Endpoints, id : 0..ID_MAX, tcf : Tcf])
    /\ rx \in Seq(RxPack)

\* The two paths of drp_write test the limit differently, and only the single-pack
\* path passes it.
QueueBounded == Len(drp_queue) <= QUEUE_MAX + 1

\* What the timer's loop relies on when it stops at the first pack never sent
\* ("this pack has not been sent, nor have the ones behind it"): the packs in
\* flight are a prefix of the queue, through acks out of order, give-ups in the
\* middle of the queue and writes.
SentPrefix ==
    \A j, k \in 1..Len(drp_queue) : j < k /\ Sent(drp_queue[k]) => Sent(drp_queue[j])

\* The client has one datagram outstanding: between handlers all packs in flight
\* were put into the same datagram, so that they time out together.
OneOutstanding ==
    pc = "idle" =>
        \A j, k \in 1..Len(drp_queue) :
            Sent(drp_queue[j]) /\ Sent(drp_queue[k]) =>
                drp_queue[j].timeout_cnt = drp_queue[k].timeout_cnt

\* A pack that is not a whole acknowledged message ends its datagram, also while
\* acks and give-ups move packs around: among the packs in flight only the last
\* is a fragment or unacknowledged.
FragmentLast ==
    \A j, k \in 1..Len(drp_queue) :
        j < k /\ Sent(drp_queue[k]) => drp_queue[j].tcf = "FULL"

\* The packs in flight are the head of the queue, and in the order in which a datagram
\* may hold them.
InFlightInOrder == SentPrefix /\ FragmentLast

\* The datagram fits txbuf (drp_mtu + 12 bytes, of which 7 precede the packs).
FitsBuffer == used <= DRP_MTU + PACK_HDR

\* The branch that drops the last pack and raises an error is never taken.
NeverOversize == ~(AtPack(TRUE) /\ Cur.timeout_cnt <= 0 /\ used = 0 /\ ~Fits)

\* Queue and datagram keep to their limits, although the two write paths and the
\* packing loop test them in different ways.
WithinLimits == QueueBounded /\ FitsBuffer /\ NeverOversize

\* The datagram is a copy of the head of the queue, in its order: walking the
\* queue while removing from it neither skips a pack nor puts one in twice.
DatagramIsHead ==
    pc \in {"send", "flush"} =>
        /\ Len(dgram) <= Len(drp_queue)
        /\ \A k \in 1..Len(dgram) :
              /\ dgram[k].endpoint = drp_queue[k].endpoint
              /\ dgram[k].id = drp_queue[k].id
              /\ drp_queue[k].timeout_cnt = TIMEOUT_CNT

Queued(e, id) ==
    \E k \in 1..Len(drp_queue) : drp_queue[k].endpoint = e /\ drp_queue[k].id = id

\* A whole acknowledged message leaves the queue only when its tries are used up
\* or by a pack of the peer with its endpoint and id: giving up a fragment or
\* another message, or an ack of a neighbour, never takes it along.
FullLeavesJustly ==
    [][\A e \in Endpoints, id \in 0..ID_MAX :
         Queued(e, id) /\ ~Queued(e, id)' =>
            \A k \in 1..Len(drp_queue) :
                /\ drp_queue[k].endpoint = e /\ drp_queue[k].id = id
                /\ drp_queue[k].tcf = "FULL"
                => \/ drp_queue[k].try_times = 0
                   \/ pc = "recv" /\ rx # <<>> /\ Matches(Head(rx), k)]_vars

\* What the header comment of t2n_client.lua says of the type bits ("bit 15: 1 ACK,
\* 0 REQ"; an acknowledging pack needs ACK to be 1): a pack of the peer without the
\* ACK bit acknowledges nothing.  The code does not test the bit.
OnlyAcksAcknowledge ==
    [][pc = "recv" /\ drp_queue' # drp_queue => Head(rx).kind = "ACK"]_vars

\* Every pack leaves the queue in the end, with no ack at all and whatever is
\* written behind it: unless the queue keeps running empty, its head leaves again
\* and again.
HeadLeaves == \E k \in 1..Len(drp_queue) : drp_queue' = Cut(drp_queue, 1, k)

QueueAdvances == []<>(drp_queue = <<>>) \/ []<><<HeadLeaves>>_vars
=============================================================================
