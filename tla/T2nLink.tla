------------------------------- MODULE T2nLink ------------------------------
(***************************************************************************)
(* The DRP client of T2nDrp, the t2n daemon it talks to and the UDP        *)
(* sockets between them.  The daemon is not in the repository: it is       *)
(* modelled from what handle_drp expects of it.  It takes every pack it    *)
(* receives, answers the packs that want an acknowledgement in one         *)
(* datagram, and sends requests of its own.  Datagrams may be lost,        *)
(* duplicated and reordered.                                               *)
(***************************************************************************)
EXTENDS T2nDrp, FiniteSets

CONSTANTS
    ReqEndpoints,  \* endpoints the daemon sends requests on; the client does not write to them
    NET_CAP        \* bound: datagrams in flight in one direction

ASSUME LinkAssumption == ReqEndpoints \subseteq Endpoints /\ NET_CAP \in Nat

VARIABLES
    up, down,      \* datagrams on their way to the daemon, to the client
    got            \* <<endpoint, id>> of the packs the daemon has received

linkVars == <<vars, up, down, got>>

LinkInit == Init /\ up = {} /\ down = {} /\ got = {}

\* A datagram that finds NET_CAP others in flight is lost.
Carry(net, d) ==
    IF d = <<>> \/ Cardinality(net) >= NET_CAP THEN net ELSE net \cup {d}

\* Delivery removes a datagram from the network, or leaves a duplicate in it.
Deliver(net, d) == {net, net \ {d}}

Ack(p) == [endpoint |-> p.endpoint, id |-> p.id, kind |-> "ACK"]

\* A pack that wants no acknowledgement is the last of its datagram.
Acks(d) ==
    LET wanting == IF d[Len(d)].tcf = "NOACK" THEN Len(d) - 1 ELSE Len(d)
    IN  [k \in 1..wanting |-> Ack(d[k])]

ClientStep ==
    /\ \/ AsyncFire \/ Tick
       \/ StopWaiting \/ StopNoRoom \/ PutPack \/ DropWhole \/ DropFragments
       \/ HandlePack \/ ReceiveEnd
    /\ UNCHANGED <<up, down, got>>

\* Bound: ids do not wrap, so that an id names one pack.
ClientWrite ==
    /\ \E e \in Endpoints \ ReqEndpoints, length \in Lengths :
          /\ new_id[e] + FragCount(length) <= ID_MAX
          /\ WriteLong(e, length) \/ \E flags \in {0, 2} : WriteSingle(e, length, flags)
    /\ UNCHANGED <<up, down, got>>

ClientSend == Flush /\ up' = Carry(up, dgram) /\ UNCHANGED <<down, got>>

ClientReceive ==
    \E d \in down :
        /\ Receive(d)
        /\ down' \in Deliver(down, d)
        /\ UNCHANGED <<up, got>>

PeerReceive ==
    \E d \in up :
        /\ got' = got \cup {<<d[k].endpoint, d[k].id>> : k \in 1..Len(d)}
        /\ up' \in Deliver(up, d)
        /\ down' = Carry(down, Acks(d))
        /\ UNCHANGED vars

PeerRequest ==
    \E e \in ReqEndpoints, id \in 0..ID_MAX :
        /\ down' = Carry(down, <<[endpoint |-> e, id |-> id, kind |-> "REQ"]>>)
        /\ UNCHANGED <<vars, up, got>>

Lose ==
    /\ \/ \E d \in up : up' = up \ {d} /\ UNCHANGED down
       \/ \E d \in down : down' = down \ {d} /\ UNCHANGED up
    /\ UNCHANGED <<vars, got>>

LinkNext ==
    ClientStep \/ ClientWrite \/ ClientSend \/ ClientReceive
    \/ PeerReceive \/ PeerRequest \/ Lose

LinkSpec == LinkInit /\ [][LinkNext]_linkVars

-----------------------------------------------------------------------------
Has(p) == <<p.endpoint, p.id>> \in got

\* What the daemon has of the queue is a prefix of it, whatever was lost,
\* duplicated or reordered: no pack overtakes one queued before it, so the
\* daemon never sees a middle fragment before the first one.
GotPrefix ==
    \A j, k \in 1..Len(drp_queue) :
        j < k /\ Has(drp_queue[k]) => Has(drp_queue[j])

\* A pack the client takes out of the queue as acknowledged has reached the
\* daemon (as long as the daemon's requests use endpoints of their own).
AckedWasGot ==
    [][pc = "recv" =>
         \A k \in 1..Len(drp_queue) :
            Has(drp_queue[k]) \/ \E m \in 1..Len(drp_queue') : drp_queue'[m] = drp_queue[k]
      ]_linkVars

\* Two packs in the queue never share endpoint and id, and a pack is removed by
\* an answer to itself: retransmissions and late duplicates of old answers do not
\* hit a newer pack.
QueuedIdsDiffer ==
    \A j, k \in 1..Len(drp_queue) :
        j # k => <<drp_queue[j].endpoint, drp_queue[j].id>>
                   # <<drp_queue[k].endpoint, drp_queue[k].id>>

\* Endpoint and id name a pack.  Pending: the names in the queue; Used: those given to
\* packs so far.
Pending == [k \in 1..Len(drp_queue) |-> <<drp_queue[k].endpoint, drp_queue[k].id>>]

Used == UNION {{<<e, id>> : id \in 1..new_id[e]} : e \in Endpoints \ ReqEndpoints}

Channel == INSTANCE DrpChannel WITH
              Names <- (Endpoints \ ReqEndpoints) \X (1..ID_MAX),
              ROOM <- QUEUE_MAX + 1,
              pending <- Pending,
              written <- Used,
              acking <- pc = "recv"

\* Client, network and daemon are a channel: the packs of a message are queued together
\* under names that never come back, arrive in the order they were written in, none
\* before one queued in front of it, and leave the queue either because they have
\* arrived or, never while an answer is handled, by being given up.
ImplementsChannel == Channel!ChannelSpec
=============================================================================
