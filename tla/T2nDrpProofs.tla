---------------------------- MODULE T2nDrpProofs ----------------------------
(***************************************************************************)
(* The theorems about T2nDrp, for every queue limit, MTU, number of tries  *)
(* and set of datagrams the peer may send: its invariants, what drp_write  *)
(* cuts a message into, and last what the queue's progress rests on.       *)
(***************************************************************************)
EXTENDS T2nDrp, SequenceTheorems, TLAPS

\* What table.remove of a run of positions leaves of a sequence.
LEMMA CutProperties ==
  ASSUME NEW S, NEW s \in Seq(S),
         NEW a \in 1..Len(s), NEW b \in a..Len(s)
  PROVE  /\ Cut(s, a, b) \in Seq(S)
         /\ Len(Cut(s, a, b)) = Len(s) - (b - a + 1)
         /\ \A i \in 1..Len(Cut(s, a, b)) :
               Cut(s, a, b)[i] = IF i < a THEN s[i] ELSE s[i + (b - a + 1)]
<1> DEFINE L == SubSeq(s, 1, a - 1)
           R == SubSeq(s, b + 1, Len(s))
<1>1. /\ L \in Seq(S)
      /\ Len(L) = a - 1
      /\ \A i \in 1..(a - 1) : L[i] = s[i]
  BY SubSeqProperties
<1>2. /\ R \in Seq(S)
      /\ Len(R) = Len(s) - b
      /\ \A i \in 1..(Len(s) - b) : R[i] = s[b + i]
  BY SubSeqProperties
<1>3. Cut(s, a, b) = L \o R
  BY DEF Cut
<1> HIDE DEF L, R
<1>4. /\ L \o R \in Seq(S)
      /\ Len(L \o R) = Len(L) + Len(R)
      /\ \A i \in 1..(Len(L) + Len(R)) :
            (L \o R)[i] = IF i <= Len(L) THEN L[i] ELSE R[i - Len(L)]
  BY <1>1, <1>2, ConcatProperties
<1>5. Len(L) + Len(R) = Len(s) - (b - a + 1)
  BY <1>1, <1>2, LenProperties
<1>6. ASSUME NEW i \in 1..(Len(L) + Len(R))
      PROVE  (L \o R)[i] = IF i < a THEN s[i] ELSE s[i + (b - a + 1)]
  <2>1. CASE i < a
    BY <1>1, <1>2, <1>4, <2>1
  <2>2. CASE i >= a
    <3>1. i - Len(L) \in 1..(Len(s) - b) /\ ~(i <= Len(L))
      BY <1>1, <1>2, <2>2, LenProperties
    <3>2. (L \o R)[i] = R[i - Len(L)]
      BY <1>4, <3>1
    <3>3. R[i - Len(L)] = s[b + (i - Len(L))]
      BY <1>2, <3>1
    <3>4. b + (i - Len(L)) = i + (b - a + 1)
      BY <1>1, LenProperties
    <3> QED
      BY <2>2, <3>2, <3>3, <3>4
  <2> QED
    BY <1>1, <1>2, <2>1, <2>2, LenProperties
<1> QED
  BY <1>3, <1>4, <1>5, <1>6

\* The next ids stay in range through the wrap.
LEMMA IdAfterInRange ==
  ASSUME NEW id \in Nat, NEW k \in Nat
  PROVE  IdAfter(id, k) \in 0..ID_MAX
BY DrpAssumption DEF IdAfter

\* A message longer than the MTU makes packs of one to DRP_MTU bytes.
LEMMA FragmentLengths ==
  ASSUME NEW length \in Nat, length > DRP_MTU
  PROVE  /\ FragCount(length) \in Nat \ {0}
         /\ length - DRP_MTU * (FragCount(length) - 1) \in 1..DRP_MTU
BY DrpAssumption DEF FragCount

\* The bytes of the message that the k-th fragment carries: data_copy takes them from
\* offset on, drp_send_check writes as many as the pack's length into the datagram.
Bytes(e, length, k) ==
    (DRP_MTU * (k - 1) + 1)..(DRP_MTU * (k - 1) + Fragment(e, length, k).length)

\* drp_write cuts a message into fragments that hold each of its bytes exactly once;
\* the first and the last are two different packs, and marked so.
THEOREM FragmentsTile ==
  ASSUME NEW e \in Endpoints, NEW length \in Lengths, length > DRP_MTU
  PROVE  /\ \A b \in 1..length : \E k \in 1..FragCount(length) :
               /\ b \in Bytes(e, length, k)
               /\ \A j \in 1..FragCount(length) : b \in Bytes(e, length, j) => j = k
         /\ \A k \in 1..FragCount(length) :
               /\ Bytes(e, length, k) \subseteq 1..length
               /\ Fragment(e, length, k).tcf = "FIRST" <=> k = 1
               /\ Fragment(e, length, k).tcf = "LAST" <=> k = FragCount(length)
<1> DEFINE n == FragCount(length)
           M == DRP_MTU
<1>1. length \in Nat /\ M \in Nat \ {0}
  BY DrpAssumption
<1>2. n \in Nat \ {0} /\ length - M * (n - 1) \in 1..M
  BY <1>1, FragmentLengths
<1>3. n > 1
  <2>1. CASE n = 1
    <3>1. M * (n - 1) = 0
      BY <1>1, <2>1
    <3> QED
      BY <1>1, <1>2, <3>1
  <2> QED
    BY <1>2, <2>1
<1>4. \A k \in 1..n : Fragment(e, length, k).length = IF k = n THEN length - M * (n - 1) ELSE M
  BY DEF Fragment, NewPack
<1>5. \A k \in 1..n : /\ Fragment(e, length, k).tcf = "FIRST" <=> k = 1
                      /\ Fragment(e, length, k).tcf = "LAST" <=> k = n
  BY <1>2, <1>3 DEF Fragment, NewPack
<1> HIDE DEF n, M
\* Later fragments begin where earlier ones have ended.
<1>6. ASSUME NEW j \in 1..n, NEW k \in 1..n, j < k
      PROVE  M * (j - 1) \in Nat /\ M * (k - 1) \in Nat /\ M * (j - 1) + M <= M * (k - 1)
  <2>1. PICK d \in Nat : k = j + 1 + d
    <3>1. k - j - 1 \in Nat /\ k = j + 1 + (k - j - 1)
      BY <1>2, <1>6
    <3> QED
      BY <3>1
  <2>2. PICK i \in Nat : j = i + 1
    <3>1. j - 1 \in Nat /\ j = (j - 1) + 1
      BY <1>2
    <3> QED
      BY <3>1
  <2>3. k - 1 = i + (1 + d) /\ j - 1 = i
    BY <2>1, <2>2
  <2>4. M * (i + (1 + d)) = M * i + M + M * d /\ M * i \in Nat /\ M * d \in Nat
    BY <1>1
  <2> QED
    BY <1>1, <2>3, <2>4
<1>7. ASSUME NEW k \in 1..n
      PROVE  /\ M * (k - 1) \in Nat
             /\ Bytes(e, length, k) = (M * (k - 1) + 1)..(IF k = n THEN length ELSE M * (k - 1) + M)
             /\ k # n => M * (k - 1) + M <= length
  <2>1. k - 1 \in Nat /\ n - 1 \in Nat
    BY <1>2
  <2>2. M * (k - 1) \in Nat /\ M * (n - 1) \in Nat
    BY <1>1, <2>1
  <2>3. k # n => k < n /\ n \in 1..n
    BY <1>2
  <2>4. k # n => M * (k - 1) + M <= M * (n - 1)
    BY <1>6, <2>3
  <2>5. Bytes(e, length, k)
        = (M * (k - 1) + 1)..(M * (k - 1) + (IF k = n THEN length - M * (n - 1) ELSE M))
    BY <1>4 DEF Bytes, M
  <2> QED
    BY <1>1, <1>2, <2>2, <2>4, <2>5
<1>8. ASSUME NEW b \in 1..length
      PROVE  \E k \in 1..n : /\ b \in Bytes(e, length, k)
                             /\ \A j \in 1..n : b \in Bytes(e, length, j) => j = k
  <2> DEFINE q == (b - 1) \div M
             r == (b - 1) % M
  <2>1. q \in Nat /\ r \in Nat /\ r < M /\ b - 1 = M * q + r
    BY <1>1
  <2>2. M * (n - 1) < length /\ length <= M * (n - 1) + M /\ M * (n - 1) \in Nat
    BY <1>1, <1>2
  <2> HIDE DEF q, r
  <2>3. q + 1 \in 1..n
    <3>1. CASE q >= n
      <4>1. PICK d \in Nat : q = n + d
        <5>1. q - n \in Nat /\ q = n + (q - n)
          BY <1>2, <2>1, <3>1
        <5> QED
          BY <5>1
      <4>2. PICK i \in Nat : n = i + 1
        <5>1. n - 1 \in Nat /\ n = (n - 1) + 1
          BY <1>2
        <5> QED
          BY <5>1
      <4>3. q = i + (1 + d) /\ n - 1 = i
        BY <4>1, <4>2
      <4>4. M * (i + (1 + d)) = M * i + M + M * d /\ M * d \in Nat /\ M * i \in Nat
        BY <1>1
      <4> QED
        BY <1>1, <2>1, <2>2, <4>3, <4>4
    <3> QED
      BY <1>2, <2>1, <3>1
  <2> DEFINE k == q + 1
  <2>4. k - 1 = q /\ k \in 1..n
    BY <2>1, <2>3
  <2>5. b \in Bytes(e, length, k)
    <3>1. /\ M * (k - 1) = M * q /\ M * q \in Nat
          /\ b >= M * q + 1 /\ b <= M * q + M /\ b <= length /\ b \in Nat
      BY <1>1, <2>1, <2>4
    <3>2. /\ M * (k - 1) \in Nat
          /\ Bytes(e, length, k) = (M * (k - 1) + 1)..(IF k = n THEN length ELSE M * (k - 1) + M)
      BY <1>7, <2>4
    <3> QED
      BY <1>1, <3>1, <3>2
  <2>6. ASSUME NEW j \in 1..n, b \in Bytes(e, length, j), j # k
        PROVE  FALSE
    <3>1. /\ Bytes(e, length, j) = (M * (j - 1) + 1)..(IF j = n THEN length ELSE M * (j - 1) + M)
          /\ Bytes(e, length, k) = (M * (k - 1) + 1)..(IF k = n THEN length ELSE M * (k - 1) + M)
          /\ M * (j - 1) \in Nat /\ M * (k - 1) \in Nat
      BY <1>7, <2>4
    <3>2. CASE j < k
      <4>1. M * (j - 1) + M <= M * (k - 1) /\ j # n
        BY <1>2, <1>6, <2>4, <3>2
      <4> QED
        BY <1>1, <2>5, <2>6, <3>1, <4>1
    <3>3. CASE k < j
      <4>1. M * (k - 1) + M <= M * (j - 1) /\ k # n
        BY <1>2, <1>6, <2>4, <3>3
      <4> QED
        BY <1>1, <2>5, <2>6, <3>1, <4>1
    <3> QED
      BY <1>2, <2>4, <2>6, <3>2, <3>3
  <2> QED
    BY <2>4, <2>5, <2>6
<1>9. ASSUME NEW k \in 1..n
      PROVE  Bytes(e, length, k) \subseteq 1..length
  BY <1>1, <1>7
<1> QED
  BY <1>5, <1>8, <1>9 DEF n

-----------------------------------------------------------------------------
(* The inductive invariant *)

\* Packs in flight lie one behind the other in the datagram that held them, so
\* a prefix of them always fits a datagram again.
Spacing ==
    \A k \in 1..Len(drp_queue) : Sent(drp_queue[k]) =>
        /\ drp_queue[k].offset + drp_queue[k].length <= DRP_MTU
        /\ \A j \in 1..(k - 1) :
              drp_queue[j].offset + PACK_HDR + drp_queue[j].length <= drp_queue[k].offset

QueueInv ==
    /\ drp_queue \in Seq(Pack)
    /\ QueueBounded /\ SentPrefix /\ FragmentLast /\ Spacing

SameTimeout(from) ==
    \A j, k \in from..Len(drp_queue) :
        Sent(drp_queue[j]) /\ Sent(drp_queue[k]) =>
            drp_queue[j].timeout_cnt = drp_queue[k].timeout_cnt

\* While drp_send_check runs: what is before pos is in the datagram; what is
\* behind it and in flight has timed out, or nothing has been put in yet.
SendInv ==
    /\ pos \in 1..(Len(drp_queue) + 1)
    /\ pos = 1 => used = 0
    /\ \A k \in 1..(pos - 1) :
          /\ drp_queue[k].tcf = "FULL"
          /\ drp_queue[k].timeout_cnt = TIMEOUT_CNT
          /\ drp_queue[k].offset + PACK_HDR + drp_queue[k].length <= used
    /\ \A k \in pos..Len(drp_queue) : Sent(drp_queue[k]) =>
          /\ used <= drp_queue[k].offset
          /\ pos > 1 => drp_queue[k].timeout_cnt = 0
    /\ SameTimeout(pos)

IInv ==
    /\ TypeOK
    /\ QueueInv
    /\ FitsBuffer
    /\ pc = "send" => SendInv
    /\ pc # "send" => SameTimeout(1)

\* Removing a run of packs keeps the structure of the queue.
LEMMA CutKeepsQueue ==
  ASSUME QueueInv,
         NEW a \in 1..Len(drp_queue), NEW b \in a..Len(drp_queue),
         drp_queue' = Cut(drp_queue, a, b)
  PROVE  /\ QueueInv'
         /\ \A m \in 1..a : SameTimeout(m) => SameTimeout(m)'
<1> DEFINE d == b - a + 1
           Old(i) == IF i < a THEN i ELSE i + d
<1>1. /\ drp_queue' \in Seq(Pack)
      /\ Len(drp_queue') = Len(drp_queue) - d
      /\ \A i \in 1..Len(drp_queue') : drp_queue'[i] = drp_queue[Old(i)]
  BY CutProperties DEF QueueInv
<1>2. /\ Len(drp_queue) \in Nat /\ Len(drp_queue') \in Nat
      /\ d \in Nat \ {0}
  BY <1>1, LenProperties DEF QueueInv
<1>3. /\ \A i \in 1..Len(drp_queue') : Old(i) \in 1..Len(drp_queue) /\ Old(i) >= i
      /\ \A i \in 1..Len(drp_queue') : \A j \in 1..(i - 1) : Old(j) < Old(i)
      /\ \A m \in 1..a : \A i \in m..Len(drp_queue') : Old(i) \in m..Len(drp_queue)
  BY <1>1, <1>2
<1> HIDE DEF Old, d
<1>4. QueueBounded'
  BY <1>1, <1>2, DrpAssumption DEF QueueInv, QueueBounded
<1>5. SentPrefix'
  <2> SUFFICES ASSUME NEW j \in 1..Len(drp_queue'), NEW k \in 1..Len(drp_queue'),
                      j < k, Sent(drp_queue'[k])
               PROVE  Sent(drp_queue'[j])
    BY DEF SentPrefix
  <2> QED
    BY <1>1, <1>2, <1>3 DEF QueueInv, SentPrefix
<1>6. FragmentLast'
  <2> SUFFICES ASSUME NEW j \in 1..Len(drp_queue'), NEW k \in 1..Len(drp_queue'),
                      j < k, Sent(drp_queue'[k])
               PROVE  drp_queue'[j].tcf = "FULL"
    BY DEF FragmentLast
  <2> QED
    BY <1>1, <1>2, <1>3 DEF QueueInv, FragmentLast
<1>7. Spacing'
  <2> SUFFICES ASSUME NEW k \in 1..Len(drp_queue'), Sent(drp_queue'[k])
               PROVE  /\ drp_queue'[k].offset + drp_queue'[k].length <= DRP_MTU
                      /\ \A j \in 1..(k - 1) :
                            drp_queue'[j].offset + PACK_HDR + drp_queue'[j].length
                              <= drp_queue'[k].offset
    BY DEF Spacing
  <2>1. Old(k) \in 1..Len(drp_queue) /\ drp_queue'[k] = drp_queue[Old(k)]
    BY <1>1, <1>3
  <2>2. ASSUME NEW j \in 1..(k - 1)
        PROVE  Old(j) \in 1..(Old(k) - 1) /\ drp_queue'[j] = drp_queue[Old(j)]
    BY <1>1, <1>2, <1>3
  <2> QED
    BY <2>1, <2>2 DEF QueueInv, Spacing
<1>8. ASSUME NEW m \in 1..a, SameTimeout(m)
      PROVE  SameTimeout(m)'
  <2>1. \A i \in m..Len(drp_queue') : i \in 1..Len(drp_queue')
    BY <1>2
  <2> QED
    BY <1>1, <1>3, <1>8, <2>1 DEF SameTimeout
<1> QED
  BY <1>1, <1>4, <1>5, <1>6, <1>7, <1>8 DEF QueueInv

-----------------------------------------------------------------------------
(* One lemma per action *)

\* The numeric fields of a pack.
LEMMA PackFields ==
  ASSUME NEW p \in Pack
  PROVE  /\ p.length \in Nat \ {0} /\ p.length <= DRP_MTU
         /\ p.offset \in Nat
         /\ p.timeout_cnt \in Int
BY DrpAssumption DEF Pack

\* A freshly written pack has its type and has not been sent.
LEMMA NewPackType ==
  ASSUME NEW e \in Endpoints, NEW id \in 0..ID_MAX, NEW tcf \in Tcf,
         NEW length \in 1..DRP_MTU, NEW tries \in 0..TRY_TIMES
  PROVE  /\ NewPack(e, id, tcf, length, tries) \in Pack
         /\ ~Sent(NewPack(e, id, tcf, length, tries))
BY DrpAssumption DEF NewPack, Pack, Sent

\* Appending packs that were never sent.
LEMMA EnqueueKeeps ==
  ASSUME IInv, pc = "idle", NEW e \in Endpoints, NEW packs \in Seq(Pack),
         \A k \in 1..Len(packs) : ~Sent(packs[k]),
         Len(drp_queue) + Len(packs) <= QUEUE_MAX + 1,
         Enqueue(e, packs)
  PROVE  IInv'
<1>1. /\ drp_queue' \in Seq(Pack)
      /\ Len(drp_queue') = Len(drp_queue) + Len(packs)
      /\ \A k \in 1..Len(drp_queue') :
            drp_queue'[k] = IF k <= Len(drp_queue) THEN drp_queue[k]
                                                   ELSE packs[k - Len(drp_queue)]
  BY ConcatProperties DEF IInv, QueueInv, Enqueue
<1>2. Len(drp_queue) \in Nat /\ Len(packs) \in Nat
  BY LenProperties DEF IInv, QueueInv
<1>3. \A k \in 1..Len(drp_queue') : Sent(drp_queue'[k]) =>
          k \in 1..Len(drp_queue) /\ drp_queue'[k] = drp_queue[k]
  <2> SUFFICES ASSUME NEW k \in 1..Len(drp_queue'), Sent(drp_queue'[k]), k > Len(drp_queue)
               PROVE  FALSE
    BY <1>1, <1>2
  <2>1. k - Len(drp_queue) \in 1..Len(packs)
    BY <1>1, <1>2
  <2> QED
    BY <1>1, <1>2, <2>1
<1>4. \A k \in 1..Len(drp_queue) : k \in 1..Len(drp_queue') /\ drp_queue'[k] = drp_queue[k]
  BY <1>1, <1>2
<1>5. new_id' \in [Endpoints -> 0..ID_MAX]
  <2>1. new_id \in [Endpoints -> 0..ID_MAX] /\ new_id[e] \in Nat
    BY DEF IInv, TypeOK
  <2>2. IdAfter(new_id[e], Len(packs)) \in 0..ID_MAX
    BY <1>2, <2>1, IdAfterInRange
  <2>3. new_id' = [new_id EXCEPT ![e] = IdAfter(new_id[e], Len(packs))]
    BY DEF Enqueue
  <2> QED
    BY <2>1, <2>2, <2>3
<1>6. TypeOK'
  BY <1>1, <1>5 DEF IInv, TypeOK, Enqueue
<1>7. QueueBounded'
  BY <1>1 DEF QueueBounded
<1>8. SentPrefix'
  BY <1>1, <1>2, <1>3, <1>4 DEF IInv, QueueInv, SentPrefix
<1>9. FragmentLast'
  BY <1>1, <1>2, <1>3, <1>4 DEF IInv, QueueInv, FragmentLast
<1>10. Spacing'
  BY <1>1, <1>2, <1>3, <1>4 DEF IInv, QueueInv, Spacing
<1>11. SameTimeout(1)'
  BY <1>1, <1>2, <1>3, <1>4 DEF IInv, SameTimeout
<1>12. FitsBuffer' /\ pc' # "send"
  BY DEF IInv, FitsBuffer, Enqueue
<1> QED
  BY <1>1, <1>6, <1>7, <1>8, <1>9, <1>10, <1>11, <1>12 DEF IInv, QueueInv

\* The packs drp_write makes of a message that needs fragments.
LEMMA FragmentsArePacks ==
  ASSUME IInv, NEW e \in Endpoints, NEW length \in Lengths, WriteLong(e, length)
  PROVE  LET n == FragCount(length)
             packs == [k \in 1..n |-> Fragment(e, length, k)]
         IN  /\ n \in Nat \ {0} /\ packs \in Seq(Pack) /\ Len(packs) = n
             /\ \A k \in 1..n : ~Sent(packs[k])
<1> DEFINE n == FragCount(length)
           packs == [k \in 1..n |-> Fragment(e, length, k)]
<1>1. /\ n \in Nat \ {0}
      /\ length - DRP_MTU * (n - 1) \in 1..DRP_MTU
  BY FragmentLengths, DrpAssumption DEF WriteLong
<1>2. ASSUME NEW k \in 1..n
      PROVE  Fragment(e, length, k) \in Pack /\ ~Sent(Fragment(e, length, k))
  <2>1. IdAfter(new_id[e], k) \in 0..ID_MAX
    <3>1. new_id[e] \in Nat /\ k \in Nat
      BY <1>1 DEF IInv, TypeOK
    <3> QED
      BY <3>1, IdAfterInRange
  <2>2. (IF k = 1 THEN "FIRST" ELSE IF k = n THEN "LAST" ELSE "MID") \in Tcf
    BY DEF Tcf
  <2>3. (IF k = n THEN length - DRP_MTU * (n - 1) ELSE DRP_MTU) \in 1..DRP_MTU
    BY <1>1, DrpAssumption
  <2>4. TRY_TIMES \in 0..TRY_TIMES
    BY DrpAssumption
  <2> QED
    BY <2>1, <2>2, <2>3, <2>4, NewPackType DEF Fragment
<1> HIDE DEF n
<1>3. packs \in Seq(Pack) /\ Len(packs) = n /\ \A k \in 1..n : packs[k] = Fragment(e, length, k)
  BY <1>1, <1>2, IsASeq
<1> HIDE DEF packs
<1>4. /\ n \in Nat \ {0} /\ packs \in Seq(Pack) /\ Len(packs) = n
      /\ \A k \in 1..n : ~Sent(packs[k])
  BY <1>1, <1>2, <1>3
<1> QED
  BY <1>4 DEF n, packs

\* drp_write of a message that needs fragments: they are appended, none in flight.
LEMMA WriteLongKeeps ==
  ASSUME IInv, NEW e \in Endpoints, NEW length \in Lengths, WriteLong(e, length)
  PROVE  IInv' /\ \E packs \in Seq(Pack) : drp_queue' = drp_queue \o packs
<1> DEFINE n == FragCount(length)
           packs == [k \in 1..n |-> Fragment(e, length, k)]
<1>1. /\ n \in Nat \ {0} /\ packs \in Seq(Pack) /\ Len(packs) = n
      /\ \A k \in 1..n : ~Sent(packs[k])
  BY FragmentsArePacks
<1>2. pc = "idle" /\ Len(drp_queue) + n <= QUEUE_MAX /\ Enqueue(e, packs)
  BY DEF WriteLong
<1> HIDE DEF n, packs
<1>3. Len(drp_queue) + Len(packs) <= QUEUE_MAX + 1 /\ \A k \in 1..Len(packs) : ~Sent(packs[k])
  BY <1>1, <1>2, LenProperties, DrpAssumption DEF IInv, QueueInv
<1>4. IInv'
  BY <1>1, <1>2, <1>3, EnqueueKeeps
<1>5. drp_queue' = drp_queue \o packs
  BY <1>2 DEF Enqueue
<1> QED
  BY <1>1, <1>4, <1>5

\* drp_write of a message that fits into one pack.
LEMMA WriteSingleKeeps ==
  ASSUME IInv, NEW e \in Endpoints, NEW length \in Lengths, NEW flags \in {0, 2},
         WriteSingle(e, length, flags)
  PROVE  IInv' /\ \E packs \in Seq(Pack) : drp_queue' = drp_queue \o packs
<1> DEFINE p == NewPack(e, IdAfter(new_id[e], 1), IF flags = 0 THEN "NOACK" ELSE "FULL",
                        length, IF flags = 0 THEN 1 ELSE TRY_TIMES)
<1>1. p \in Pack /\ ~Sent(p)
  <2>1. IdAfter(new_id[e], 1) \in 0..ID_MAX
    <3>1. new_id[e] \in Nat /\ 1 \in Nat
      BY DEF IInv, TypeOK
    <3> QED
      BY <3>1, IdAfterInRange
  <2>2. length \in 1..DRP_MTU
    BY DrpAssumption DEF WriteSingle
  <2>3. (IF flags = 0 THEN "NOACK" ELSE "FULL") \in Tcf
    BY DEF Tcf
  <2>4. (IF flags = 0 THEN 1 ELSE TRY_TIMES) \in 0..TRY_TIMES
    BY DrpAssumption
  <2> QED
    BY <2>1, <2>2, <2>3, <2>4, NewPackType
<1>2. pc = "idle" /\ Len(drp_queue) <= QUEUE_MAX /\ Enqueue(e, <<p>>)
  BY DEF WriteSingle
<1> HIDE DEF p
<1>3. <<p>> \in Seq(Pack) /\ Len(<<p>>) = 1 /\ <<p>>[1] = p
  BY <1>1
<1>4. \A k \in 1..Len(<<p>>) : ~Sent(<<p>>[k])
  BY <1>1, <1>3
<1>5. Len(drp_queue) + Len(<<p>>) <= QUEUE_MAX + 1
  BY <1>2, <1>3, LenProperties, DrpAssumption DEF IInv, QueueInv
<1>6. <<p>> \in Seq(Pack)
  BY <1>1
<1>7. IInv'
  BY <1>2, <1>4, <1>5, <1>6, EnqueueKeeps
<1>8. drp_queue' = drp_queue \o <<p>>
  BY <1>2 DEF Enqueue
<1> QED
  BY <1>6, <1>7, <1>8

\* Starting drp_send_check, or not, leaves its variables in range.
LEMMA StartKeeps ==
  ASSUME TypeOK, FitsBuffer, pc = "idle", StartSendCheck
  PROVE  /\ pc' \in {"idle", "send"} /\ pos' \in Nat /\ used' \in Nat
         /\ dgram' \in Seq([endpoint : Endpoints, id : 0..ID_MAX, tcf : Tcf])
         /\ FitsBuffer'
         /\ pc' = "send" => pos' = 1 /\ used' = 0
<1>1. CASE drp_queue = <<>>
  BY <1>1 DEF TypeOK, FitsBuffer, StartSendCheck
<1>2. CASE drp_queue # <<>>
  <2>1. pc' = "send" /\ pos' = 1 /\ used' = 0 /\ dgram' = <<>>
    BY <1>2 DEF StartSendCheck
  <2>2. FitsBuffer'
    BY <2>1, DrpAssumption DEF FitsBuffer
  <2>3. dgram' \in Seq([endpoint : Endpoints, id : 0..ID_MAX, tcf : Tcf])
    BY <2>1
  <2> QED
    BY <2>1, <2>2, <2>3
<1> QED
  BY <1>1, <1>2

\* A queue whose packs differ from an earlier one only in a timeout counted down
\* uniformly satisfies what the loop needs at its start.
LEMMA StartInv ==
  ASSUME QueueInv, SameTimeout(1), pos = 1, used = 0
  PROVE  SendInv
<1>1. Len(drp_queue) \in Nat
  BY LenProperties DEF QueueInv
<1>2. ASSUME NEW k \in 1..Len(drp_queue)
      PROVE  0 <= drp_queue[k].offset
  <2>1. drp_queue[k] \in Pack
    BY ElementOfSeq DEF QueueInv
  <2> QED
    BY <2>1 DEF Pack
<1> QED
  BY <1>1, <1>2 DEF SendInv
\* The wake-up of the send check by drp_write.
LEMMA AsyncFireKeeps ==
  ASSUME IInv, AsyncFire
  PROVE  IInv'
<1>1. /\ drp_queue' = drp_queue /\ new_id' = new_id /\ rx' = rx /\ send_async' = FALSE
      /\ pc = "idle" /\ StartSendCheck
  BY DEF AsyncFire
<1>2. TypeOK' /\ FitsBuffer'
  BY <1>1, StartKeeps DEF IInv, TypeOK
<1>3. QueueInv' /\ SameTimeout(1)'
  BY <1>1 DEF IInv, QueueInv, QueueBounded, SentPrefix, FragmentLast, Spacing, SameTimeout
<1>4. pc' = "send" => SendInv'
  <2> HAVE pc' = "send"
  <2>1. pos' = 1 /\ used' = 0
    BY <1>1, StartKeeps DEF IInv
  <2>2. (QueueInv /\ SameTimeout(1) /\ pos = 1 /\ used = 0 => SendInv)'
    BY StartInv, PTL
  <2> QED
    BY <1>3, <2>1, <2>2
<1> QED
  BY <1>2, <1>3, <1>4 DEF IInv

\* The timer's loop reaches exactly the packs in flight.
LEMMA TickedIsSent ==
  ASSUME QueueInv, NEW k \in 1..Len(drp_queue)
  PROVE  Ticked(k) <=> Sent(drp_queue[k])
<1>1. Len(drp_queue) \in Nat
  BY LenProperties DEF QueueInv
<1> QED
  BY <1>1 DEF QueueInv, SentPrefix, Ticked

\* The timer lets the packs in flight expire together or not at all.
LEMMA TickKeeps ==
  ASSUME IInv, Tick
  PROVE  IInv'
<1>1. Len(drp_queue) \in Nat
  BY LenProperties DEF IInv, QueueInv
<1>2. ASSUME NEW k \in 1..Len(drp_queue)
      PROVE  /\ drp_queue[k] \in Pack
             /\ [drp_queue[k] EXCEPT !.timeout_cnt = @ - 1].timeout_cnt
                  = drp_queue[k].timeout_cnt - 1
             /\ [drp_queue[k] EXCEPT !.timeout_cnt = @ - 1].offset = drp_queue[k].offset
             /\ [drp_queue[k] EXCEPT !.timeout_cnt = @ - 1].length = drp_queue[k].length
             /\ [drp_queue[k] EXCEPT !.timeout_cnt = @ - 1].tcf = drp_queue[k].tcf
             /\ drp_queue[k].timeout_cnt > 0 =>
                  [drp_queue[k] EXCEPT !.timeout_cnt = @ - 1] \in Pack
  <2>1. drp_queue[k] \in Pack
    BY ElementOfSeq DEF IInv, QueueInv
  <2>2. ASSUME NEW c \in -1..TIMEOUT_CNT
        PROVE  [drp_queue[k] EXCEPT !.timeout_cnt = c] \in Pack
    BY <2>1 DEF Pack
  <2>3. drp_queue[k].timeout_cnt \in -1..TIMEOUT_CNT
    BY <2>1 DEF Pack
  <2>4. drp_queue[k].timeout_cnt > 0 => drp_queue[k].timeout_cnt - 1 \in -1..TIMEOUT_CNT
    BY <2>3, DrpAssumption
  <2> QED
    BY <2>1, <2>2, <2>3, <2>4 DEF Pack
<1>3. drp_queue' = [k \in 1..Len(drp_queue) |->
                      IF Ticked(k) /\ drp_queue[k].timeout_cnt > 0
                      THEN [drp_queue[k] EXCEPT !.timeout_cnt = @ - 1]
                      ELSE drp_queue[k]]
  BY DEF Tick
<1>4. drp_queue' \in Seq(Pack) /\ Len(drp_queue') = Len(drp_queue)
  BY <1>1, <1>2, <1>3, IsASeq
<1>5. ASSUME NEW k \in 1..Len(drp_queue)
      PROVE  /\ drp_queue[k].timeout_cnt \in Int
             /\ drp_queue'[k].timeout_cnt = IF drp_queue[k].timeout_cnt > 0
                                            THEN drp_queue[k].timeout_cnt - 1
                                            ELSE drp_queue[k].timeout_cnt
             /\ drp_queue'[k].offset = drp_queue[k].offset
             /\ drp_queue'[k].length = drp_queue[k].length
             /\ drp_queue'[k].tcf = drp_queue[k].tcf
  <2>1. drp_queue[k].timeout_cnt \in Int
    <3>1. drp_queue[k] \in Pack
      BY <1>2
    <3> QED
      BY <3>1, DrpAssumption DEF Pack
  <2>2. Ticked(k) <=> Sent(drp_queue[k])
    BY TickedIsSent DEF IInv
  <2> QED
    BY <1>2, <1>3, <2>1, <2>2 DEF Sent
<1>6. \A k \in 1..Len(drp_queue) : Sent(drp_queue'[k]) <=> Sent(drp_queue[k])
  BY <1>5 DEF Sent
<1>7. QueueInv'
  <2>1. QueueBounded'
    BY <1>4 DEF IInv, QueueInv, QueueBounded
  <2>2. SentPrefix'
    BY <1>1, <1>4, <1>6 DEF IInv, QueueInv, SentPrefix
  <2>3. FragmentLast'
    BY <1>1, <1>4, <1>5, <1>6 DEF IInv, QueueInv, FragmentLast
  <2>4. Spacing'
    <3> SUFFICES ASSUME NEW k \in 1..Len(drp_queue), Sent(drp_queue[k])
                 PROVE  /\ drp_queue'[k].offset + drp_queue'[k].length <= DRP_MTU
                        /\ \A j \in 1..(k - 1) :
                              drp_queue'[j].offset + PACK_HDR + drp_queue'[j].length
                                <= drp_queue'[k].offset
      BY <1>4, <1>6 DEF Spacing
    <3>1. \A j \in 1..(k - 1) : j \in 1..Len(drp_queue)
      BY <1>1
    <3> QED
      BY <1>5, <3>1 DEF IInv, QueueInv, Spacing
  <2> QED
    BY <1>4, <2>1, <2>2, <2>3, <2>4 DEF QueueInv
<1>8. SameTimeout(1)'
  <2>1. SameTimeout(1)
    BY DEF IInv, Tick
  <2> QED
    BY <1>4, <1>5, <1>6, <2>1 DEF SameTimeout
<1>9. /\ pc' \in {"idle", "send"} /\ pos' \in Nat /\ used' \in Nat
      /\ dgram' \in Seq([endpoint : Endpoints, id : 0..ID_MAX, tcf : Tcf])
      /\ FitsBuffer'
      /\ pc' = "send" => pos' = 1 /\ used' = 0
  <2>1. CASE StartSendCheck
    BY <2>1, StartKeeps DEF IInv, Tick
  <2>2. CASE UNCHANGED <<pc, pos, used, dgram>>
    BY <2>2 DEF IInv, TypeOK, FitsBuffer, Tick
  <2> QED
    BY <2>1, <2>2 DEF Tick
<1>10. TypeOK'
  BY <1>4, <1>9 DEF IInv, TypeOK, Tick
<1>11. pc' = "send" => SendInv'
  <2>1. (QueueInv /\ SameTimeout(1) /\ pos = 1 /\ used = 0 => SendInv)'
    BY StartInv, PTL
  <2> QED
    BY <1>7, <1>8, <1>9, <2>1
<1> QED
  BY <1>7, <1>8, <1>9, <1>10, <1>11 DEF IInv
\* A pack the loop stands on and may send fits an empty datagram, and a datagram
\* that already holds the packs in front of it.
LEMMA SentStillFits ==
  ASSUME IInv, AtPack(TRUE)
  PROVE  /\ Cur \in Pack /\ pos \in 1..Len(drp_queue)
         /\ used = 0 => Fits
         /\ Sent(Cur) => Fits
<1>1. pos \in 1..Len(drp_queue) /\ SendInv
  BY LenProperties DEF IInv, QueueInv, AtPack, SendInv
<1>2. Cur \in Pack
  BY <1>1, ElementOfSeq DEF IInv, QueueInv, Cur
<1>3. used = 0 => Fits
  BY <1>2, DrpAssumption DEF Fits, Pack
<1>4. Sent(Cur) => Fits
  <2> HAVE Sent(Cur)
  <2>1. used <= Cur.offset
    BY <1>1 DEF SendInv, Cur
  <2>2. Cur.offset + Cur.length <= DRP_MTU
    BY <1>1 DEF IInv, QueueInv, Spacing, Cur
  <2> QED
    BY <1>2, <2>1, <2>2, DrpAssumption DEF Fits, Pack, IInv, TypeOK
<1> QED
  BY <1>1, <1>2, <1>3, <1>4

\* The send check stops at a pack whose timeout still runs.
LEMMA StopWaitingKeeps ==
  ASSUME IInv, StopWaiting
  PROVE  IInv'
<1>1. pc = "send" /\ SendInv /\ Len(drp_queue) \in Nat
  BY LenProperties DEF IInv, QueueInv, StopWaiting, AtPack
<1>2. SameTimeout(1)
  <2>1. CASE AtPack(TRUE) /\ Cur.timeout_cnt > 0
    <3>1. pos = 1
      BY <1>1, <2>1, SentStillFits DEF SendInv, Cur, Sent, Pack
    <3> QED
      BY <1>1, <3>1 DEF SendInv
  <2>2. CASE pos > Len(drp_queue)
    BY <1>1, <2>2 DEF SendInv, SameTimeout
  <2> QED
    BY <2>1, <2>2 DEF StopWaiting
<1>3. drp_queue' = drp_queue /\ pc' = "flush" /\ used' = used
  BY DEF StopWaiting, Break
<1>4. TypeOK' /\ FitsBuffer'
  BY DEF IInv, TypeOK, FitsBuffer, StopWaiting, Break
<1>5. QueueInv' /\ SameTimeout(1)'
  BY <1>2, <1>3 DEF IInv, QueueInv, QueueBounded, SentPrefix, FragmentLast, Spacing, SameTimeout
<1> QED
  BY <1>3, <1>4, <1>5 DEF IInv

\* The send check stops at a pack that does not fit behind the others.
LEMMA StopNoRoomKeeps ==
  ASSUME IInv, StopNoRoom
  PROVE  IInv'
<1>1. pc = "send" /\ SendInv /\ Len(drp_queue) \in Nat
  BY LenProperties DEF IInv, QueueInv, StopNoRoom, AtPack
<1>2. used # 0 /\ ~Sent(Cur) /\ pos \in 1..Len(drp_queue)
  BY SentStillFits DEF StopNoRoom
<1>3. drp_queue' = drp_queue /\ pc' = "flush" /\ used' = used
  BY <1>2 DEF StopNoRoom, Break
<1>4. \A k \in pos..Len(drp_queue) : ~Sent(drp_queue[k])
  <2> SUFFICES ASSUME NEW k \in pos..Len(drp_queue), Sent(drp_queue[k])
               PROVE  FALSE
    OBVIOUS
  <2>1. k # pos /\ pos < k /\ k \in 1..Len(drp_queue)
    BY <1>1, <1>2 DEF Cur
  <2>2. SentPrefix
    BY DEF IInv, QueueInv
  <2> QED
    BY <1>2, <2>1, <2>2 DEF SentPrefix, Cur
<1>5. SameTimeout(1)
  BY <1>1, <1>2, <1>4 DEF SendInv, SameTimeout
<1>6. TypeOK' /\ FitsBuffer'
  BY <1>3 DEF IInv, TypeOK, FitsBuffer, StopNoRoom, Break
<1>7. QueueInv' /\ SameTimeout(1)'
  BY <1>3, <1>5 DEF IInv, QueueInv, QueueBounded, SentPrefix, FragmentLast, Spacing, SameTimeout
<1> QED
  BY <1>3, <1>6, <1>7 DEF IInv

\* A pack goes into the datagram and in flight, as the next of the prefix.
LEMMA PutPackKeeps ==
  ASSUME IInv, PutPack
  PROVE  IInv'
<1> DEFINE new == [Cur EXCEPT !.timeout_cnt = TIMEOUT_CNT, !.try_times = Cur.try_times - 1,
                              !.offset = used]
<1>1. /\ pc = "send" /\ SendInv /\ AtPack(TRUE) /\ Fits /\ Cur.timeout_cnt <= 0
      /\ Len(drp_queue) \in Nat
  BY LenProperties DEF IInv, QueueInv, PutPack, Put, AtPack
<1>2. Cur \in Pack /\ pos \in 1..Len(drp_queue) /\ Cur.try_times > 0
  BY <1>1, SentStillFits DEF AtPack
<1>3. /\ new \in Pack /\ new.timeout_cnt = TIMEOUT_CNT /\ new.offset = used
      /\ new.length = Cur.length /\ new.tcf = Cur.tcf /\ Sent(new)
  <2>1. TIMEOUT_CNT \in -1..TIMEOUT_CNT /\ TIMEOUT_CNT >= 0
    BY DrpAssumption
  <2>2. Cur.try_times - 1 \in 0..TRY_TIMES
    BY <1>2, DrpAssumption DEF Pack
  <2>3. used \in Nat
    BY DEF IInv, TypeOK
  <2> QED
    BY <1>2, <2>1, <2>2, <2>3 DEF Pack, Sent
<1>4. drp_queue' = [drp_queue EXCEPT ![pos] = new]
  BY DEF PutPack, Put, Cur
<1> HIDE DEF new
<1>5. /\ drp_queue' \in Seq(Pack) /\ Len(drp_queue') = Len(drp_queue)
      /\ drp_queue'[pos] = new
      /\ \A k \in 1..Len(drp_queue) : k # pos => drp_queue'[k] = drp_queue[k]
  BY <1>2, <1>3, <1>4, ExceptSeq DEF IInv, QueueInv
<1>6. /\ used' = used + PACK_HDR + Cur.length /\ pos' = pos + 1
      /\ pc' = IF Cur.tcf = "FULL" THEN "send" ELSE "flush"
      /\ new_id' = new_id /\ send_async' = send_async /\ rx' = rx
      /\ dgram' = Append(dgram, [endpoint |-> Cur.endpoint, id |-> Cur.id, tcf |-> Cur.tcf])
  BY DEF PutPack, Put
<1>7. /\ used \in Nat /\ used' \in Nat /\ pos \in Nat
      /\ Cur.length \in Nat \ {0} /\ PACK_HDR \in Nat /\ used + Cur.length <= DRP_MTU
  <2>1. used \in Nat /\ pos \in Nat
    BY DEF IInv, TypeOK
  <2>2. Cur.length \in Nat \ {0} /\ PACK_HDR \in Nat
    BY <1>2, PackFields, DrpAssumption
  <2>3. Cur.length + used <= DRP_MTU
    BY <1>1 DEF Fits
  <2> QED
    BY <1>6, <2>1, <2>2, <2>3, DrpAssumption
<1>8. FitsBuffer'
  BY <1>6, <1>7, DrpAssumption DEF FitsBuffer
<1>9. TypeOK'
  <2>1. [endpoint |-> Cur.endpoint, id |-> Cur.id, tcf |-> Cur.tcf]
          \in [endpoint : Endpoints, id : 0..ID_MAX, tcf : Tcf]
    BY <1>2 DEF Pack
  <2>2. dgram' \in Seq([endpoint : Endpoints, id : 0..ID_MAX, tcf : Tcf])
    BY <1>6, <2>1, AppendProperties DEF IInv, TypeOK
  <2> QED
    BY <1>5, <1>6, <1>7, <2>2 DEF IInv, TypeOK
\* What was in flight behind pos had timed out, and pos was in flight too.
<1>10. ASSUME NEW k \in (pos + 1)..Len(drp_queue), Sent(drp_queue[k])
       PROVE  /\ Cur.tcf = "FULL"
              /\ drp_queue[k].timeout_cnt = 0
              /\ used + PACK_HDR + Cur.length <= drp_queue[k].offset
  <2>1. /\ k \in 1..Len(drp_queue) /\ pos < k /\ pos \in 1..(k - 1)
        /\ k \in pos..Len(drp_queue) /\ pos \in pos..Len(drp_queue)
    BY <1>1, <1>2
  <2>2. Sent(Cur) /\ Cur.tcf = "FULL"
    BY <1>2, <1>10, <2>1 DEF IInv, QueueInv, SentPrefix, FragmentLast, Cur
  <2>3. Cur.timeout_cnt = 0
    BY <1>1, <1>2, <2>2, DrpAssumption DEF Sent, Pack
  <2>4. drp_queue[k].timeout_cnt = 0
    BY <1>1, <1>10, <2>1, <2>2, <2>3 DEF SendInv, SameTimeout, Cur
  <2>5. used <= Cur.offset
    BY <1>1, <2>1, <2>2 DEF SendInv, Cur
  <2>6. Cur.offset + PACK_HDR + Cur.length <= drp_queue[k].offset
    BY <1>10, <2>1 DEF IInv, QueueInv, Spacing, Cur
  <2>7. drp_queue[k] \in Pack
    BY <2>1, ElementOfSeq DEF IInv, QueueInv
  <2> QED
    BY <1>2, <1>7, <2>2, <2>4, <2>5, <2>6, <2>7, PackFields
<1>11. ASSUME NEW k \in 1..(pos - 1)
       PROVE  /\ k \in 1..Len(drp_queue) /\ k # pos /\ drp_queue'[k] = drp_queue[k]
              /\ drp_queue[k].tcf = "FULL"
              /\ drp_queue[k].timeout_cnt = TIMEOUT_CNT /\ Sent(drp_queue[k])
              /\ drp_queue[k].offset + PACK_HDR + drp_queue[k].length <= used
  BY <1>1, <1>2, <1>5, DrpAssumption DEF SendInv, Sent
<1>12. \A k \in (pos + 1)..Len(drp_queue) :
          k \in 1..Len(drp_queue) /\ k # pos /\ drp_queue'[k] = drp_queue[k]
  BY <1>1, <1>2, <1>5
<1>13. \A k \in 1..Len(drp_queue) : k \in 1..(pos - 1) \/ k = pos \/ k \in (pos + 1)..Len(drp_queue)
  BY <1>2
<1>14. QueueBounded'
  BY <1>5 DEF IInv, QueueInv, QueueBounded
<1>15. SentPrefix'
  <2> SUFFICES ASSUME NEW j \in 1..Len(drp_queue), NEW k \in 1..Len(drp_queue),
                      j < k, Sent(drp_queue'[k])
               PROVE  Sent(drp_queue'[j])
    BY <1>5 DEF SentPrefix
  <2>1. CASE j \in 1..(pos - 1)
    BY <1>11, <2>1
  <2>2. CASE j = pos
    BY <1>3, <1>5, <2>2
  <2>3. CASE j \in (pos + 1)..Len(drp_queue)
    <3>1. k \in (pos + 1)..Len(drp_queue)
      BY <1>2, <2>3
    <3> QED
      BY <1>12, <2>3, <3>1 DEF IInv, QueueInv, SentPrefix
  <2> QED
    BY <1>13, <2>1, <2>2, <2>3
<1>16. FragmentLast'
  <2> SUFFICES ASSUME NEW j \in 1..Len(drp_queue), NEW k \in 1..Len(drp_queue),
                      j < k, Sent(drp_queue'[k])
               PROVE  drp_queue'[j].tcf = "FULL"
    BY <1>5 DEF FragmentLast
  <2>1. CASE j \in 1..(pos - 1)
    BY <1>11, <2>1
  <2>2. CASE j \in pos..Len(drp_queue)
    <3>1. k \in (pos + 1)..Len(drp_queue)
      BY <1>2, <2>2
    <3>2. drp_queue'[j].tcf = drp_queue[j].tcf
      BY <1>3, <1>5 DEF Cur
    <3> QED
      BY <1>12, <3>1, <3>2 DEF IInv, QueueInv, FragmentLast
  <2> QED
    BY <1>2, <2>1, <2>2
<1>17. Spacing'
  <2> SUFFICES ASSUME NEW k \in 1..Len(drp_queue), Sent(drp_queue'[k])
               PROVE  /\ drp_queue'[k].offset + drp_queue'[k].length <= DRP_MTU
                      /\ \A j \in 1..(k - 1) :
                            drp_queue'[j].offset + PACK_HDR + drp_queue'[j].length
                              <= drp_queue'[k].offset
    BY <1>5 DEF Spacing
  <2>1. CASE k \in 1..(pos - 1)
    <3>1. drp_queue'[k] = drp_queue[k] /\ Sent(drp_queue[k])
      BY <1>11, <2>1
    <3>2. \A j \in 1..(k - 1) : drp_queue'[j] = drp_queue[j]
      <4>1. \A j \in 1..(k - 1) : j \in 1..(pos - 1)
        BY <1>7, <2>1
      <4> QED
        BY <1>11, <4>1
    <3> QED
      BY <3>1, <3>2 DEF IInv, QueueInv, Spacing
  <2>2. CASE k = pos
    <3>1. drp_queue'[k].offset = used /\ drp_queue'[k].length = Cur.length
      BY <1>3, <1>5, <2>2
    <3> QED
      BY <1>7, <1>11, <2>2, <3>1
  <2>3. CASE k \in (pos + 1)..Len(drp_queue)
    <3>1. drp_queue'[k] = drp_queue[k] /\ Sent(drp_queue[k])
      BY <1>12, <2>3
    <3>2. \A j \in 1..(k - 1) : j # pos => drp_queue'[j] = drp_queue[j]
      BY <1>5
    <3>3. drp_queue'[pos].offset + PACK_HDR + drp_queue'[pos].length <= drp_queue'[k].offset
      BY <1>3, <1>5, <1>7, <1>10, <2>3, <3>1
    <3> QED
      BY <3>1, <3>2, <3>3 DEF IInv, QueueInv, Spacing
  <2> QED
    BY <1>13, <2>1, <2>2, <2>3
<1>18. CASE Cur.tcf = "FULL"
  <2>1. pc' = "send"
    BY <1>6, <1>18
  <2>2. pos' \in 1..(Len(drp_queue') + 1) /\ pos' # 1
    BY <1>2, <1>5, <1>6
  <2>3. ASSUME NEW k \in 1..(pos' - 1)
        PROVE  /\ drp_queue'[k].tcf = "FULL"
               /\ drp_queue'[k].timeout_cnt = TIMEOUT_CNT
               /\ drp_queue'[k].offset + PACK_HDR + drp_queue'[k].length <= used'
    <3>1. CASE k \in 1..(pos - 1)
      <4>1. drp_queue'[k] \in Pack
        BY <1>5, <1>11, <3>1, ElementOfSeq
      <4>2. drp_queue'[k].offset \in Nat /\ drp_queue'[k].length \in Nat
        BY <4>1, PackFields
      <4>3. /\ drp_queue'[k].tcf = "FULL"
            /\ drp_queue'[k].timeout_cnt = TIMEOUT_CNT
            /\ drp_queue'[k].offset + PACK_HDR + drp_queue'[k].length <= used
        BY <1>11, <3>1
      <4>4. used <= used'
        BY <1>6, <1>7
      <4> QED
        BY <1>7, <4>2, <4>3, <4>4
    <3>2. CASE k = pos
      BY <1>3, <1>5, <1>6, <1>7, <1>18, <3>2
    <3> QED
      BY <1>2, <1>6, <3>1, <3>2
  <2>4. \A k \in pos'..Len(drp_queue') : Sent(drp_queue'[k]) =>
          /\ used' <= drp_queue'[k].offset
          /\ drp_queue'[k].timeout_cnt = 0
    BY <1>5, <1>6, <1>10, <1>12
  <2>5. SameTimeout(pos)'
    BY <2>4 DEF SameTimeout
  <2>6. SendInv'
    BY <2>2, <2>3, <2>4, <2>5 DEF SendInv
  <2> QED
    BY <1>5, <1>8, <1>9, <1>14, <1>15, <1>16, <1>17, <2>1, <2>6 DEF IInv, QueueInv
<1>19. CASE Cur.tcf # "FULL"
  <2>1. pc' = "flush"
    BY <1>6, <1>19
  <2>2. \A k \in 1..Len(drp_queue) : Sent(drp_queue'[k]) =>
          drp_queue'[k].timeout_cnt = TIMEOUT_CNT
    <3> TAKE k \in 1..Len(drp_queue)
    <3> QED
      BY <1>3, <1>5, <1>10, <1>11, <1>12, <1>13, <1>19
  <2>3. SameTimeout(1)'
    BY <1>5, <2>2 DEF SameTimeout
  <2> QED
    BY <1>5, <1>8, <1>9, <1>14, <1>15, <1>16, <1>17, <2>1, <2>3 DEF IInv, QueueInv
<1> QED
  BY <1>18, <1>19
\* Giving up packs from pos on.
LEMMA DropKeeps ==
  ASSUME IInv, pc = "send", NEW last \in pos..Len(drp_queue), pos <= Len(drp_queue),
         drp_queue' = Cut(drp_queue, pos, last),
         UNCHANGED <<new_id, send_async, pc, pos, used, dgram, rx>>
  PROVE  IInv'
<1>1. SendInv /\ Len(drp_queue) \in Nat /\ pos \in 1..Len(drp_queue)
  BY LenProperties DEF IInv, QueueInv, SendInv
<1>2. QueueInv' /\ (SameTimeout(pos) => SameTimeout(pos)')
  BY <1>1, CutKeepsQueue DEF IInv
<1>3. /\ drp_queue' \in Seq(Pack)
      /\ Len(drp_queue') = Len(drp_queue) - (last - pos + 1)
      /\ \A i \in 1..Len(drp_queue') :
            drp_queue'[i] = IF i < pos THEN drp_queue[i]
                                       ELSE drp_queue[i + (last - pos + 1)]
  BY <1>1, CutProperties DEF IInv, QueueInv
<1>4. pos' = pos /\ used' = used /\ pc' = pc /\ pos' \in 1..(Len(drp_queue') + 1)
  BY <1>1, <1>3
<1>5. ASSUME NEW k \in 1..(pos' - 1)
      PROVE  /\ drp_queue'[k].tcf = "FULL"
             /\ drp_queue'[k].timeout_cnt = TIMEOUT_CNT
             /\ drp_queue'[k].offset + PACK_HDR + drp_queue'[k].length <= used'
  <2>1. k \in 1..Len(drp_queue') /\ k < pos /\ k \in 1..(pos - 1)
    BY <1>1, <1>3, <1>4
  <2>2. drp_queue'[k] = drp_queue[k]
    BY <1>3, <2>1
  <2> QED
    BY <1>1, <1>4, <2>1, <2>2 DEF SendInv
<1>6. ASSUME NEW k \in pos'..Len(drp_queue'), Sent(drp_queue'[k])
      PROVE  /\ used' <= drp_queue'[k].offset
             /\ pos' > 1 => drp_queue'[k].timeout_cnt = 0
  <2>1. /\ k + (last - pos + 1) \in pos..Len(drp_queue)
        /\ drp_queue'[k] = drp_queue[k + (last - pos + 1)]
    BY <1>1, <1>3, <1>4
  <2> QED
    BY <1>1, <1>4, <1>6, <2>1 DEF SendInv
<1>7. SendInv'
  <2>1. SameTimeout(pos)'
    BY <1>1, <1>2 DEF SendInv
  <2>2. pos' = 1 => used' = 0
    BY <1>1, <1>4 DEF SendInv
  <2> QED
    BY <1>4, <1>5, <1>6, <2>1, <2>2 DEF SendInv
<1>8. TypeOK' /\ FitsBuffer'
  BY <1>3 DEF IInv, TypeOK, FitsBuffer
<1> QED
  BY <1>2, <1>4, <1>7, <1>8 DEF IInv

\* A pack without tries left goes, and what is behind it moves up.
LEMMA DropWholeKeeps ==
  ASSUME IInv, DropWhole
  PROVE  IInv'
<1>1. pc = "send" /\ pos <= Len(drp_queue) /\ pos \in pos..Len(drp_queue)
  BY LenProperties DEF DropWhole, AtPack, IInv, TypeOK, QueueInv
<1> QED
  BY <1>1, DropKeeps DEF DropWhole

\* A fragment without tries left takes the fragments behind it along.
LEMMA DropFragmentsKeeps ==
  ASSUME IInv, DropFragments
  PROVE  IInv'
<1>1. PICK last \in pos..Len(drp_queue) : drp_queue' = Cut(drp_queue, pos, last)
  BY DEF DropFragments
<1> QED
  BY <1>1, DropKeeps DEF DropFragments, AtPack

\* A received pack removes the first one that matches, in flight or not.
LEMMA HandlePackKeeps ==
  ASSUME IInv, HandlePack
  PROVE  IInv'
<1>1. /\ pc = "recv" /\ pc' = pc /\ used' = used /\ pos' = pos /\ dgram' = dgram
      /\ new_id' = new_id /\ send_async' = send_async /\ rx' = Tail(rx) /\ rx # <<>>
  BY DEF HandlePack
<1>2. rx' \in Seq(RxPack) /\ FitsBuffer'
  BY <1>1, HeadTailProperties DEF IInv, TypeOK, FitsBuffer
<1>3. CASE drp_queue' = drp_queue
  <2>1. QueueInv' /\ SameTimeout(1)'
    BY <1>1, <1>3 DEF IInv, QueueInv, QueueBounded, SentPrefix, FragmentLast, Spacing, SameTimeout
  <2> QED
    BY <1>1, <1>2, <1>3, <2>1 DEF IInv, TypeOK
<1>4. CASE \E k \in 1..Len(drp_queue) : drp_queue' = Cut(drp_queue, k, k)
  <2>1. PICK k \in 1..Len(drp_queue) : drp_queue' = Cut(drp_queue, k, k)
    BY <1>4
  <2>2. k \in k..Len(drp_queue) /\ 1 \in 1..k
    BY LenProperties DEF IInv, QueueInv
  <2>3. QueueInv' /\ SameTimeout(1)'
    BY <1>1, <2>1, <2>2, CutKeepsQueue DEF IInv
  <2> QED
    BY <1>1, <1>2, <2>3 DEF IInv, TypeOK, QueueInv
<1>5. AckedBy(Head(rx)) \subseteq 1..Len(drp_queue)
  BY DEF AckedBy
<1> QED
  BY <1>3, <1>4, <1>5 DEF HandlePack

\* The remaining steps leave the queue alone and end up outside the send loop.
LEMMA OtherStepsKeep ==
  ASSUME IInv,
         \/ Flush \/ ReceiveEnd \/ UNCHANGED vars
         \/ \E d \in Seq(RxPack) : Receive(d)
  PROVE  IInv'
<1>1. drp_queue' = drp_queue /\ new_id' = new_id
  BY DEF Flush, ReceiveEnd, Receive, vars
<1>2. \/ pc # "send" /\ pc' # "send"
      \/ pc' = pc /\ pos' = pos /\ used' = used
  BY DEF Flush, ReceiveEnd, Receive, vars
<1>3. TypeOK' /\ FitsBuffer'
  <2>1. CASE Flush
    BY <2>1, DrpAssumption DEF IInv, TypeOK, FitsBuffer, Flush
  <2>2. CASE ReceiveEnd
    BY <2>2 DEF IInv, TypeOK, FitsBuffer, ReceiveEnd
  <2>3. CASE UNCHANGED vars
    BY <2>3 DEF IInv, TypeOK, FitsBuffer, vars
  <2>4. CASE \E d \in Seq(RxPack) : Receive(d)
    BY <2>4, DrpAssumption DEF IInv, TypeOK, FitsBuffer, Receive
  <2> QED
    BY <2>1, <2>2, <2>3, <2>4
<1>4. QueueInv' /\ \A m \in Nat : SameTimeout(m) => SameTimeout(m)'
  BY <1>1 DEF IInv, QueueInv, QueueBounded, SentPrefix, FragmentLast, Spacing, SameTimeout
<1>5. pc' = pc /\ pos' = pos /\ used' = used /\ SendInv => SendInv'
  BY <1>1 DEF SendInv, SameTimeout
<1> QED
  BY <1>2, <1>3, <1>4, <1>5 DEF IInv

-----------------------------------------------------------------------------
(* The theorems *)

\* The client starts with an empty queue.
LEMMA InitIInv == Init => IInv
<1> SUFFICES ASSUME Init PROVE IInv
  OBVIOUS
<1>1. drp_queue = <<>> /\ Len(drp_queue) = 0 /\ drp_queue \in Seq(Pack)
  BY DEF Init
<1>2. TypeOK /\ FitsBuffer
  <2>1. new_id \in [Endpoints -> 0..ID_MAX]
    BY DrpAssumption DEF Init
  <2>2. dgram \in Seq([endpoint : Endpoints, id : 0..ID_MAX, tcf : Tcf]) /\ rx \in Seq(RxPack)
    BY DEF Init
  <2>3. FitsBuffer
    BY DrpAssumption DEF Init, FitsBuffer
  <2> QED
    BY <1>1, <2>1, <2>2, <2>3 DEF Init, TypeOK
<1>3. QueueInv /\ SameTimeout(1)
  BY <1>1, DrpAssumption
     DEF QueueInv, QueueBounded, SentPrefix, FragmentLast, Spacing, SameTimeout
<1> QED
  BY <1>2, <1>3 DEF Init, IInv

\* Every step keeps the inductive invariant.
LEMMA StepIInv == IInv /\ [Next]_vars => IInv'
<1> SUFFICES ASSUME IInv, [Next]_vars PROVE IInv'
  OBVIOUS
<1>1. CASE \E e \in Endpoints, length \in Lengths : WriteLong(e, length)
  BY <1>1, WriteLongKeeps
<1>2. CASE \E e \in Endpoints, length \in Lengths, flags \in {0, 2} : WriteSingle(e, length, flags)
  BY <1>2, WriteSingleKeeps
<1>3. CASE AsyncFire
  BY <1>3, AsyncFireKeeps
<1>4. CASE Tick
  BY <1>4, TickKeeps
<1>5. CASE SendCheckStep
  BY <1>5, StopWaitingKeeps, StopNoRoomKeeps, PutPackKeeps, DropWholeKeeps,
     DropFragmentsKeeps, OtherStepsKeep DEF SendCheckStep
<1>6. CASE HandlePack
  BY <1>6, HandlePackKeeps
<1>7. CASE ReceiveEnd \/ UNCHANGED vars \/ \E d \in RxDatagrams : Receive(d)
  BY <1>7, OtherStepsKeep, DrpAssumption
<1> QED
  BY <1>1, <1>2, <1>3, <1>4, <1>5, <1>6, <1>7 DEF Next

\* The invariant the theorems on the sender rest on.
LEMMA Inductive == Spec => []IInv
BY InitIInv, StepIInv, PTL DEF Spec

\* The queue, the datagram under construction and the ids have their types in
\* every reachable state.
THEOREM TypeCorrect == Spec => []TypeOK
<1>1. IInv => TypeOK
  BY DEF IInv
<1> QED
  BY Inductive, <1>1, PTL

\* The packs in flight are a prefix of the queue, as the timer's loop assumes, and a
\* fragment or an unacknowledged message is the last of them.
THEOREM InFlightStaysInOrder == Spec => []InFlightInOrder
<1>1. IInv => InFlightInOrder
  BY DEF IInv, QueueInv, InFlightInOrder
<1> QED
  BY Inductive, <1>1, PTL

\* All packs in flight belong to one datagram and time out together.
THEOREM OneDatagramOutstanding == Spec => []OneOutstanding
<1>1. IInv => OneOutstanding
  BY DEF IInv, SameTimeout, OneOutstanding
<1> QED
  BY Inductive, <1>1, PTL

\* The queue holds at most QUEUE_MAX + 1 packs, the datagram fits its buffer, and no
\* pack is ever too long for an empty one.
THEOREM LimitsHold == Spec => []WithinLimits
<1>1. IInv => WithinLimits
  BY SentStillFits DEF IInv, QueueInv, NeverOversize, WithinLimits
<1> QED
  BY Inductive, <1>1, PTL
-----------------------------------------------------------------------------
(* What the queue's progress rests on, apart from fairness: a handler ends, the head   *)
(* only ever gets older, and somebody is always due to look at it.                     *)

\* Steps the running handler has left at most.
Left ==
    IF pc = "send" THEN Len(drp_queue) + 3 - pos
    ELSE IF pc = "flush" THEN 1
    ELSE IF pc = "recv" THEN Len(rx) + 1
    ELSE 0

\* The loops of drp_send_check and handle_drp, which remove packs from the queue they
\* walk, come closer to their end with every iteration.
HandlersEnd == [][pc # "idle" => Left' < Left]_vars

\* A client at rest that has packs queued has its head in flight, where the timer counts
\* it down, or the async handle signalled: acknowledgements and give-ups never leave a
\* pack at the head that nobody will send.
Awake ==
    pc \in {"idle", "flush"} /\ drp_queue # <<>> => send_async \/ Sent(drp_queue[1])

SamePack(q, p) ==
    q.endpoint = p.endpoint /\ q.id = p.id /\ q.tcf = p.tcf /\ q.length = p.length

\* q has fewer tries left than p, or as many and less of its timeout.
Older(q, p) ==
    \/ q.try_times < p.try_times
    \/ q.try_times = p.try_times /\ q.timeout_cnt < p.timeout_cnt

\* The head of the queue stays the same pack until it leaves, whatever is acknowledged,
\* given up or written behind it, and its tries and timeout are only ever used up.  A
\* tick in its timeout and a send check that finds it due use some of them, and a tick
\* that finds it due starts a send check.
HeadWears ==
    [][drp_queue # <<>> /\ ~HeadLeaves =>
         LET old == drp_queue[1]
             new == drp_queue'[1]
         IN  /\ drp_queue' # <<>> /\ SamePack(new, old)
             /\ new = old \/ Older(new, old)
             /\ \/ Tick /\ old.timeout_cnt > 0
                \/ pc = "send" /\ pos = 1 /\ old.timeout_cnt <= 0
                => Older(new, old)
             /\ Tick /\ old.timeout_cnt = 0 => pc' = "send" /\ pos' = 1]_vars
\* Giving up removes a run of packs that begins where the loop stands.
LEMMA DropIsCut ==
  ASSUME IInv, DropWhole \/ DropFragments
  PROVE  /\ pc = "send" /\ pc' = pc /\ pos' = pos /\ pos \in 1..Len(drp_queue)
         /\ \E last \in pos..Len(drp_queue) :
               /\ drp_queue' = Cut(drp_queue, pos, last)
               /\ Len(drp_queue') = Len(drp_queue) - (last - pos + 1)
               /\ \A i \in 1..Len(drp_queue') : i < pos => drp_queue'[i] = drp_queue[i]
<1>1. pc = "send" /\ pc' = pc /\ pos' = pos /\ pos <= Len(drp_queue)
  BY DEF DropWhole, DropFragments, AtPack
<1>2. pos \in 1..Len(drp_queue) /\ drp_queue \in Seq(Pack)
  BY <1>1, LenProperties DEF IInv, QueueInv, SendInv
<1>3. PICK last \in pos..Len(drp_queue) : drp_queue' = Cut(drp_queue, pos, last)
  <2>1. pos \in pos..Len(drp_queue)
    BY <1>2, LenProperties
  <2> QED
    BY <2>1 DEF DropWhole, DropFragments
<1> QED
  BY <1>1, <1>2, <1>3, CutProperties

\* Sending a pack uses one of its tries and changes no other pack.
LEMMA PutUses ==
  ASSUME IInv, PutPack
  PROVE  /\ pc = "send" /\ pc' \in {"send", "flush"} /\ pos' = pos + 1
         /\ pos \in 1..Len(drp_queue) /\ Len(drp_queue') = Len(drp_queue)
         /\ SamePack(drp_queue'[pos], drp_queue[pos])
         /\ drp_queue'[pos].try_times < drp_queue[pos].try_times /\ Sent(drp_queue'[pos])
         /\ \A k \in 1..Len(drp_queue) : k # pos => drp_queue'[k] = drp_queue[k]
<1> DEFINE sent == [Cur EXCEPT !.timeout_cnt = TIMEOUT_CNT, !.try_times = Cur.try_times - 1,
                               !.offset = used]
<1>1. /\ pc = "send" /\ AtPack(TRUE) /\ pos' = pos + 1 /\ pc' \in {"send", "flush"}
      /\ drp_queue' = [drp_queue EXCEPT ![pos] = sent]
  BY DEF PutPack, Put, AtPack, Cur
<1>2. Cur \in Pack /\ pos \in 1..Len(drp_queue)
  BY <1>1, SentStillFits
<1>3. sent \in Pack /\ SamePack(sent, Cur) /\ sent.try_times < Cur.try_times /\ Sent(sent)
  <2>1. Cur.try_times \in Nat /\ Cur.try_times > 0
    BY <1>1, <1>2 DEF AtPack, Pack
  <2>2. Cur.try_times - 1 \in 0..TRY_TIMES /\ Cur.try_times - 1 < Cur.try_times
    BY <1>2, <2>1, DrpAssumption DEF Pack
  <2>3. TIMEOUT_CNT \in -1..TIMEOUT_CNT /\ TIMEOUT_CNT >= 0 /\ used \in Nat
    BY DrpAssumption DEF IInv, TypeOK
  <2> QED
    BY <1>2, <2>2, <2>3 DEF Pack, SamePack, Sent
<1> HIDE DEF sent
<1>4. /\ Len(drp_queue') = Len(drp_queue) /\ drp_queue'[pos] = sent
      /\ \A k \in 1..Len(drp_queue) : k # pos => drp_queue'[k] = drp_queue[k]
  BY <1>1, <1>2, <1>3, ExceptSeq DEF IInv, QueueInv
<1> QED
  BY <1>1, <1>2, <1>3, <1>4 DEF Cur

\* A handler that runs has a natural number of steps left.
LEMMA LeftIsNat ==
  ASSUME IInv
  PROVE  /\ Left \in Nat
         /\ pc = "send" => Left = Len(drp_queue) + 3 - pos /\ Left > 1
<1>1. Len(drp_queue) \in Nat /\ Len(rx) \in Nat
  BY LenProperties DEF IInv, TypeOK
<1>2. pc = "send" => pos \in 1..(Len(drp_queue) + 1)
  BY DEF IInv, SendInv
<1> QED
  BY <1>1, <1>2 DEF Left

\* Every step of a running handler uses up one of them.
LEMMA StepEnds ==
  ASSUME IInv, Next, pc # "idle"
  PROVE  Left' < Left
<1>1. /\ Left \in Nat /\ Len(drp_queue) \in Nat
      /\ pc = "send" => Left = Len(drp_queue) + 3 - pos /\ Left > 1
  BY LeftIsNat, LenProperties DEF IInv, TypeOK
<1>2. CASE StopWaiting \/ StopNoRoom
  <2>1. pc = "send" /\ pc' = "flush"
    BY <1>2 DEF StopWaiting, StopNoRoom, AtPack, Break
  <2> QED
    BY <1>1, <2>1 DEF Left
<1>3. CASE PutPack
  <2>1. /\ pc = "send" /\ pc' \in {"send", "flush"} /\ pos' = pos + 1
        /\ pos \in 1..Len(drp_queue) /\ Len(drp_queue') = Len(drp_queue)
    BY <1>3, PutUses
  <2> QED
    BY <1>1, <2>1 DEF Left
<1>4. CASE DropWhole \/ DropFragments
  <2>1. /\ pc = "send" /\ pc' = pc /\ pos' = pos /\ pos \in 1..Len(drp_queue)
        /\ \E last \in pos..Len(drp_queue) :
              Len(drp_queue') = Len(drp_queue) - (last - pos + 1)
    BY <1>4, DropIsCut
  <2> QED
    BY <1>1, <2>1 DEF Left
<1>5. CASE Flush
  BY <1>5 DEF Flush, Left
<1>6. CASE HandlePack
  <2>1. pc = "recv" /\ pc' = "recv" /\ rx # <<>> /\ rx' = Tail(rx) /\ rx \in Seq(RxPack)
    BY <1>6 DEF HandlePack, IInv, TypeOK
  <2>2. Len(rx') = Len(rx) - 1 /\ Len(rx) \in Nat
    BY <2>1, HeadTailProperties, LenProperties
  <2> QED
    BY <2>1, <2>2 DEF Left
<1>7. CASE ReceiveEnd
  <2>1. pc = "recv" /\ pc' = "idle" /\ Len(rx) = 0
    BY <1>7 DEF ReceiveEnd
  <2> QED
    BY <2>1 DEF Left
<1>8. ~(\/ \E e \in Endpoints, length \in Lengths : WriteLong(e, length)
        \/ \E e \in Endpoints, length \in Lengths, flags \in {0, 2} :
              WriteSingle(e, length, flags)
        \/ AsyncFire \/ Tick \/ \E d \in RxDatagrams : Receive(d))
  BY DEF WriteLong, WriteSingle, AsyncFire, Tick, Receive
<1> QED
  BY <1>2, <1>3, <1>4, <1>5, <1>6, <1>7, <1>8 DEF Next, SendCheckStep

\* drp_send_check and handle_drp come to their end, after at most Left steps, whatever
\* they give up, acknowledge or send on the way.
THEOREM HandlersComeToEnd == Spec => [](Left \in Nat) /\ HandlersEnd
<1>1. IInv => Left \in Nat
  BY LeftIsNat
<1>2. IInv /\ [Next]_vars => [pc # "idle" => Left' < Left]_vars
  BY StepEnds
<1> QED
  BY Inductive, <1>1, <1>2, PTL DEF Spec, HandlersEnd

\* Beside the steps of the timer, the head of the queue changes only where
\* drp_send_check sends it.
LEMMA HeadStays ==
  ASSUME IInv, Next, ~Tick, drp_queue # <<>>, ~HeadLeaves
  PROVE  /\ drp_queue' # <<>> /\ SamePack(drp_queue'[1], drp_queue[1])
         /\ drp_queue'[1] = drp_queue[1] \/ Older(drp_queue'[1], drp_queue[1])
         /\ pc = "send" /\ pos = 1 /\ drp_queue[1].timeout_cnt <= 0
               => Older(drp_queue'[1], drp_queue[1])
<1> DEFINE Due == pc = "send" /\ pos = 1 /\ drp_queue[1].timeout_cnt <= 0
<1>1. Len(drp_queue) \in Nat \ {0} /\ drp_queue \in Seq(Pack)
  BY LenProperties, EmptySeq DEF IInv, QueueInv
<1>2. ASSUME NEW k \in 2..Len(drp_queue), NEW last \in k..Len(drp_queue),
             drp_queue' = Cut(drp_queue, k, last)
      PROVE  drp_queue' # <<>> /\ drp_queue'[1] = drp_queue[1]
  <2>1. k \in 1..Len(drp_queue)
    BY <1>1
  <2>2. /\ Len(drp_queue') = Len(drp_queue) - (last - k + 1)
        /\ \A i \in 1..Len(drp_queue') : i < k => drp_queue'[i] = drp_queue[i]
    BY <1>1, <1>2, <2>1, CutProperties
  <2>3. 1 \in 1..Len(drp_queue') /\ Len(<<>>) = 0
    BY <1>1, <2>2
  <2> QED
    BY <2>2, <2>3
<1>3. CASE drp_queue' = drp_queue /\ ~Due
  BY <1>3 DEF SamePack
<1>4. CASE \E packs \in Seq(Pack) : drp_queue' = drp_queue \o packs /\ pc = "idle"
  <2>1. PICK packs \in Seq(Pack) : drp_queue' = drp_queue \o packs
    BY <1>4
  <2>2. drp_queue'[1] = drp_queue[1] /\ Len(drp_queue') # 0
    BY <1>1, <2>1, ConcatProperties, LenProperties
  <2>3. drp_queue' # <<>>
    BY <2>2
  <2> QED
    BY <1>4, <2>2, <2>3 DEF SamePack
<1>5. CASE PutPack
  <2>1. /\ pos \in 1..Len(drp_queue) /\ Len(drp_queue') = Len(drp_queue)
        /\ SamePack(drp_queue'[pos], drp_queue[pos])
        /\ drp_queue'[pos].try_times < drp_queue[pos].try_times
        /\ \A k \in 1..Len(drp_queue) : k # pos => drp_queue'[k] = drp_queue[k]
    BY <1>5, PutUses
  <2>2. drp_queue' # <<>>
    BY <1>1, <2>1
  <2>3. CASE pos = 1
    BY <2>1, <2>2, <2>3 DEF Older
  <2>4. CASE pos # 1
    BY <1>1, <2>1, <2>2, <2>4 DEF SamePack
  <2> QED
    BY <2>3, <2>4
<1>6. CASE DropWhole \/ DropFragments
  <2>1. /\ pos \in 1..Len(drp_queue)
        /\ \E last \in pos..Len(drp_queue) : drp_queue' = Cut(drp_queue, pos, last)
    BY <1>6, DropIsCut
  <2>2. PICK last \in pos..Len(drp_queue) : drp_queue' = Cut(drp_queue, pos, last)
    BY <2>1
  <2>3. pos \in 2..Len(drp_queue)
    BY <1>1, <2>1, <2>2 DEF HeadLeaves
  <2>4. drp_queue' # <<>> /\ drp_queue'[1] = drp_queue[1]
    BY <1>2, <2>2, <2>3
  <2> QED
    BY <2>3, <2>4 DEF SamePack
<1>7. CASE HandlePack
  <2>1. pc = "recv"
    BY <1>7 DEF HandlePack
  <2>2. CASE \E k \in 1..Len(drp_queue) : drp_queue' = Cut(drp_queue, k, k)
    <3>1. PICK k \in 1..Len(drp_queue) : drp_queue' = Cut(drp_queue, k, k)
      BY <2>2
    <3>2. k \in 2..Len(drp_queue) /\ k \in k..Len(drp_queue)
      BY <1>1, <3>1 DEF HeadLeaves
    <3>3. drp_queue' # <<>> /\ drp_queue'[1] = drp_queue[1]
      BY <1>2, <3>1, <3>2
    <3> QED
      BY <2>1, <3>3 DEF SamePack
  <2>3. drp_queue' = drp_queue \/ \E k \in 1..Len(drp_queue) : drp_queue' = Cut(drp_queue, k, k)
    <3>1. AckedBy(Head(rx)) \subseteq 1..Len(drp_queue)
      BY DEF AckedBy
    <3> QED
      BY <1>7, <3>1 DEF HandlePack
  <2> QED
    BY <1>3, <2>1, <2>2, <2>3
<1>8. CASE StopWaiting
  <2>1. drp_queue' = drp_queue
    BY <1>8 DEF StopWaiting
  <2>2. ~Due
    <3> SUFFICES ASSUME Due PROVE FALSE
      OBVIOUS
    <3>1. drp_queue[1].timeout_cnt > 0
      <4>1. ~(pos > Len(drp_queue)) /\ Cur = drp_queue[1]
        BY <1>1 DEF Cur
      <4> QED
        BY <1>8, <4>1 DEF StopWaiting
    <3>2. drp_queue[1] \in Pack
      BY <1>1, ElementOfSeq
    <3> QED
      BY <3>1, <3>2 DEF Pack
  <2> QED
    BY <1>3, <2>1, <2>2
<1>9. CASE StopNoRoom
  <2>1. pc = "send" /\ used # 0
    BY <1>9, SentStillFits DEF StopNoRoom, AtPack
  <2>2. drp_queue' = drp_queue /\ pos # 1
    BY <1>9, <2>1 DEF StopNoRoom, IInv, SendInv
  <2> QED
    BY <1>3, <2>2
<1>10. CASE AsyncFire \/ Flush \/ ReceiveEnd \/ \E d \in RxDatagrams : Receive(d)
  <2>1. drp_queue' = drp_queue /\ pc # "send"
    BY <1>10 DEF AsyncFire, Flush, ReceiveEnd, Receive
  <2> QED
    BY <1>3, <2>1
<1>11. CASE \E e \in Endpoints, length \in Lengths : WriteLong(e, length)
  BY <1>4, <1>11, WriteLongKeeps DEF WriteLong
<1>12. CASE \E e \in Endpoints, length \in Lengths, flags \in {0, 2} :
               WriteSingle(e, length, flags)
  BY <1>4, <1>12, WriteSingleKeeps DEF WriteSingle
<1> QED
  BY <1>5, <1>6, <1>7, <1>8, <1>9, <1>10, <1>11, <1>12 DEF Next, SendCheckStep

\* The timer counts the head's timeout down, or finds it due and starts a send check.
LEMMA HeadTicks ==
  ASSUME IInv, Tick, drp_queue # <<>>
  PROVE  /\ drp_queue' # <<>> /\ SamePack(drp_queue'[1], drp_queue[1])
         /\ drp_queue'[1] = drp_queue[1] \/ Older(drp_queue'[1], drp_queue[1])
         /\ drp_queue[1].timeout_cnt > 0 => Older(drp_queue'[1], drp_queue[1])
         /\ drp_queue[1].timeout_cnt = 0 => pc' = "send" /\ pos' = 1
<1> DEFINE old == drp_queue[1]
           ticked == [old EXCEPT !.timeout_cnt = @ - 1]
<1>1. 1 \in 1..Len(drp_queue) /\ old \in Pack
  BY LenProperties, EmptySeq, ElementOfSeq DEF IInv, QueueInv
<1>2. old.timeout_cnt \in Int /\ old.try_times \in Nat
  BY <1>1 DEF Pack
<1>3. SamePack(ticked, old) /\ Older(ticked, old)
  BY <1>1, <1>2 DEF Pack, SamePack, Older
<1> HIDE DEF ticked
<1>4. Ticked(1) <=> old.timeout_cnt >= 0
  BY <1>1, TickedIsSent DEF IInv, Sent
<1>5. drp_queue'[1] = (IF Ticked(1) /\ old.timeout_cnt > 0 THEN ticked ELSE old)
  BY <1>1 DEF Tick, ticked
<1>6. drp_queue' # <<>>
  <2>1. drp_queue' = [k \in 1..Len(drp_queue) |->
                        IF Ticked(k) /\ drp_queue[k].timeout_cnt > 0
                        THEN [drp_queue[k] EXCEPT !.timeout_cnt = @ - 1]
                        ELSE drp_queue[k]]
    BY DEF Tick
  <2>2. DOMAIN drp_queue' = 1..Len(drp_queue) /\ DOMAIN <<>> = {}
    BY <2>1
  <2> QED
    BY <1>1, <2>2
<1>7. old.timeout_cnt > 0 => drp_queue'[1] = ticked
  BY <1>2, <1>4, <1>5
<1>8. drp_queue'[1] = ticked \/ drp_queue'[1] = old
  BY <1>5
<1>9. old.timeout_cnt = 0 => pc' = "send" /\ pos' = 1
  <2> HAVE old.timeout_cnt = 0
  <2>1. Expired(1)
    BY <1>4 DEF Expired
  <2>2. StartSendCheck
    BY <1>1, <2>1 DEF Tick
  <2> QED
    BY <2>2 DEF StartSendCheck
<1> QED
  BY <1>3, <1>6, <1>7, <1>8, <1>9 DEF SamePack

\* Every step the head of the queue lives through leaves it what it was or older, and
\* whoever finds it due makes it so.
THEOREM HeadWearsOut == Spec => HeadWears
<1>1. ASSUME IInv, [Next]_vars
      PROVE  [drp_queue # <<>> /\ ~HeadLeaves =>
                LET old == drp_queue[1]
                    new == drp_queue'[1]
                IN  /\ drp_queue' # <<>> /\ SamePack(new, old)
                    /\ new = old \/ Older(new, old)
                    /\ \/ Tick /\ old.timeout_cnt > 0
                       \/ pc = "send" /\ pos = 1 /\ old.timeout_cnt <= 0
                       => Older(new, old)
                    /\ Tick /\ old.timeout_cnt = 0 => pc' = "send" /\ pos' = 1]_vars
  <2>1. CASE Tick
    <3>1. pc # "send"
      BY <2>1 DEF Tick
    <3> QED
      BY <1>1, <2>1, <3>1, HeadTicks
  <2>2. CASE ~Tick /\ Next
    BY <1>1, <2>2, HeadStays
  <2> QED
    BY <1>1, <2>1, <2>2
<1> QED
  BY Inductive, <1>1, PTL DEF Spec, HeadWears

\* No step leaves the head of the queue to nobody.
LEMMA AwakeKeeps ==
  ASSUME IInv, Awake, [Next]_vars
  PROVE  Awake'
<1>1. \/ drp_queue = <<>>
      \/ Len(drp_queue) \in Nat \ {0} /\ 1 \in 1..Len(drp_queue)
  BY EmptySeq DEF IInv, QueueInv
<1>2. CASE send_async' = TRUE \/ pc' \in {"send", "recv"} \/ drp_queue' = <<>>
  BY <1>2 DEF Awake
<1>3. CASE /\ drp_queue' = drp_queue /\ send_async' = send_async
           /\ drp_queue # <<>> => send_async \/ Sent(drp_queue[1])
  BY <1>3 DEF Awake
<1>4. CASE StopWaiting \/ StopNoRoom
  <2>1. pc = "send" /\ SendInv /\ drp_queue \in Seq(Pack) /\ send_async' = send_async
    BY <1>4 DEF StopWaiting, StopNoRoom, AtPack, IInv, QueueInv
  <2>2. CASE pos # 1
    <3>1. drp_queue # <<>> => Sent(drp_queue[1])
      <4> HAVE drp_queue # <<>>
      <4>1. 1 \in 1..(pos - 1)
        BY <1>1, <2>1, <2>2 DEF SendInv
      <4> QED
        BY <2>1, <4>1, DrpAssumption DEF SendInv, Sent
    <3>2. drp_queue' = drp_queue
      BY <1>4, SentStillFits DEF StopWaiting, StopNoRoom
    <3> QED
      BY <1>3, <2>1, <3>1, <3>2
  <2>3. CASE pos = 1
    <3>1. StopWaiting /\ drp_queue' = drp_queue
      BY <1>4, <2>1, <2>3, SentStillFits DEF SendInv, StopWaiting, StopNoRoom
    <3>2. drp_queue # <<>> => Sent(drp_queue[1])
      <4> HAVE drp_queue # <<>>
      <4>1. ~(pos > Len(drp_queue)) /\ Cur = drp_queue[1]
        BY <1>1, <2>3 DEF Cur
      <4>2. AtPack(TRUE) /\ drp_queue[1].timeout_cnt > 0 /\ Cur \in Pack
        BY <3>1, <4>1, SentStillFits DEF StopWaiting
      <4> QED
        BY <4>1, <4>2 DEF Sent, Pack
    <3> QED
      BY <1>3, <2>1, <3>1, <3>2
  <2> QED
    BY <2>2, <2>3
<1>5. CASE PutPack
  <2>1. /\ pc = "send" /\ pos \in 1..Len(drp_queue) /\ Sent(drp_queue'[pos])
        /\ \A k \in 1..Len(drp_queue) : k # pos => drp_queue'[k] = drp_queue[k]
    BY <1>5, PutUses
  <2>2. CASE pos = 1
    BY <2>1, <2>2 DEF Awake
  <2>3. CASE pos # 1
    <3>1. 1 \in 1..(pos - 1) /\ 1 \in 1..Len(drp_queue)
      BY <2>1, <2>3, LenProperties DEF IInv, QueueInv
    <3>2. drp_queue'[1].timeout_cnt = TIMEOUT_CNT
      BY <2>1, <2>3, <3>1 DEF IInv, SendInv
    <3> QED
      BY <3>2, DrpAssumption DEF Awake, Sent
  <2> QED
    BY <2>2, <2>3
<1>6. CASE Tick
  <2>1. pc = "idle" /\ send_async' = send_async
    BY <1>6 DEF Tick
  <2>2. CASE drp_queue = <<>>
    <3>1. drp_queue' \in Seq(Pack) /\ DOMAIN drp_queue' = {}
      BY <1>6, <2>2, EmptySeq, TickKeeps DEF Tick, IInv, QueueInv
    <3>2. Len(drp_queue') = 0
      BY <3>1, LenProperties
    <3> QED
      BY <1>2, <3>1, <3>2, EmptySeq
  <2>3. CASE drp_queue # <<>>
    <3>1. drp_queue[1] \in Pack
      BY <1>1, <2>3, ElementOfSeq DEF IInv, QueueInv
    <3>2. drp_queue'[1] = IF Ticked(1) /\ drp_queue[1].timeout_cnt > 0
                          THEN [drp_queue[1] EXCEPT !.timeout_cnt = @ - 1]
                          ELSE drp_queue[1]
      BY <1>1, <1>6, <2>3 DEF Tick
    <3>3. Sent(drp_queue[1]) => Sent(drp_queue'[1])
      BY <3>1, <3>2 DEF Sent, Pack
    <3> QED
      BY <2>1, <2>3, <3>3 DEF Awake
  <2> QED
    BY <2>2, <2>3
<1>7. CASE \/ \E e \in Endpoints, length \in Lengths : WriteLong(e, length)
           \/ \E e \in Endpoints, length \in Lengths, flags \in {0, 2} :
                 WriteSingle(e, length, flags)
           \/ ReceiveEnd
  BY <1>2, <1>7 DEF WriteLong, WriteSingle, Enqueue, ReceiveEnd
<1>8. CASE DropWhole \/ DropFragments \/ HandlePack \/ \E d \in RxDatagrams : Receive(d)
  BY <1>2, <1>8 DEF DropWhole, DropFragments, AtPack, HandlePack, Receive
<1>9. CASE AsyncFire
  BY <1>2, <1>9 DEF AsyncFire, StartSendCheck
<1>10. CASE Flush
  BY <1>3, <1>10 DEF Flush, Awake
<1>11. CASE UNCHANGED vars
  BY <1>11 DEF vars, Awake
<1> QED
  BY <1>4, <1>5, <1>6, <1>7, <1>8, <1>9, <1>10, <1>11 DEF Next, SendCheckStep

\* A client at rest always has somebody due to look at the head of its queue.  With
\* HandlersComeToEnd and HeadWearsOut, all that keeps the queue from advancing is a timer
\* or an async handle that no longer runs.
THEOREM ClientStaysAwake == Spec => []Awake
<1>1. Init => Awake
  BY DEF Init, Awake
<1>2. IInv /\ Awake /\ [Next]_vars => Awake'
  BY AwakeKeeps
<1> QED
  BY Inductive, <1>1, <1>2, PTL DEF Spec
=============================================================================
