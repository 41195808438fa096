----------------------------- MODULE DrpChannel -----------------------------
(***************************************************************************)
(* What the client's datagram protocol promises the application for what   *)
(* it writes: the packs of a message are queued together, each under a     *)
(* name that was never used, and reach the daemon in the order they were   *)
(* written in, none before one that is still queued in front of it.        *)
(* A pack leaves the queue because it has arrived, or it is given up,      *)
(* alone or with its neighbours.                                           *)
(***************************************************************************)
EXTENDS Naturals, Sequences

CONSTANTS
    Names,     \* of packs
    ROOM       \* packs the queue can hold

VARIABLES
    pending,   \* written and neither acknowledged nor given up, oldest first
    written,   \* all names used so far
    got,       \* packs that have arrived
    acking     \* an answer is being handled

channelVars == <<pending, written, got, acking>>

ChannelInit == pending = <<>> /\ written = {} /\ got = {} /\ acking = FALSE

Without(from, to) ==
    SubSeq(pending, 1, from - 1) \o SubSeq(pending, to + 1, Len(pending))

\* One message, of n packs.
Write(n) ==
    /\ ~acking
    /\ Len(pending) + n <= ROOM
    /\ \E new \in [1..n -> Names \ written] :
          /\ \A j, k \in 1..n : j # k => new[j] # new[k]
          /\ pending' = pending \o new
          /\ written' = written \cup {new[k] : k \in 1..n}
    /\ UNCHANGED <<got, acking>>

\* Some packs arrive that had not, none before one that is queued in front of it.
Arrives ==
    /\ \E more \in SUBSET (written \ got) : got' = got \cup more
    /\ \A j, k \in 1..Len(pending) : j < k /\ pending[k] \in got' => pending[j] \in got'
    /\ UNCHANGED <<pending, written, acking>>

Acknowledged(k) ==
    /\ acking /\ pending[k] \in got
    /\ pending' = Without(k, k)
    /\ UNCHANGED <<written, got, acking>>

GiveUp(from, to) ==
    /\ ~acking
    /\ pending' = Without(from, to)
    /\ UNCHANGED <<written, got, acking>>

Answer == acking' = ~acking /\ UNCHANGED <<pending, written, got>>

ChannelNext ==
    \/ Answer
    \/ \E k \in 1..Len(pending) : Acknowledged(k)
    \/ \E from \in 1..Len(pending) : \E to \in from..Len(pending) : GiveUp(from, to)
    \/ Arrives
    \/ \E n \in 1..ROOM : Write(n)

ChannelSpec == ChannelInit /\ [][ChannelNext]_channelVars
=============================================================================
