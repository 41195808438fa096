------------------------------ MODULE MCT2nDrp ------------------------------
(* T2nDrp for TLC: the peer may answer with any one or two packs.           *)
EXTENDS T2nDrp

CONSTANTS e1, e2

MCEndpoints1 == {e1}

\* Datagrams of one and of two packs, with any ids.
MCAcks == { <<[endpoint |-> e, id |-> a, kind |-> "ACK"]>> : e \in Endpoints, a \in 0..ID_MAX }
MCDatagrams ==
    MCAcks \cup { <<[endpoint |-> e1, id |-> a, kind |-> "ACK"],
                    [endpoint |-> e1, id |-> b, kind |-> "REQ"]>> : a, b \in 0..ID_MAX }
=============================================================================
