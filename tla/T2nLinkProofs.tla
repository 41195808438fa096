---------------------------- MODULE T2nLinkProofs ----------------------------
(***************************************************************************)
(* What the client and the daemon of T2nLink keep, whatever the network    *)
(* does, for every size of the queue, of the datagrams and of the network. *)
(* LinkInv is the inductive invariant: per endpoint the ids in the queue   *)
(* grow (IdsGrow), a datagram under way to the daemon names packs that     *)
(* nothing it has not been sent can follow (UpInv, NoneOvertaken), and an  *)
(* acknowledgement under way to the client is of a pack the daemon has     *)
(* (Answers).  It rests on HeadInv, that drp_send_check always sends a     *)
(* prefix of the queue, and on Shrinks, that packs leave the queue without *)
(* being reordered.  Then comes the refinement: with NamesInv every step   *)
(* of LinkNext is one of DrpChannel or none (StepMaps).  At the end is     *)
(* what the client alone keeps: what may leave its queue, and why          *)
(* (StepTakes).                                                            *)
(***************************************************************************)
EXTENDS T2nLink, T2nDrpProofs

(***************************************************************************)
(* The datagram is a copy of the head of the queue.                        *)
(***************************************************************************)
HeadInv ==
    /\ DatagramIsHead
    /\ pc = "send" => Len(dgram) = pos - 1

\* drp_send_check starts with an empty datagram, or not at all.
LEMMA StartHead ==
  ASSUME pc = "idle", drp_queue' \in Seq(Pack), StartSendCheck
  PROVE  HeadInv'
<1>1. CASE pc' = "idle"
  BY <1>1 DEF HeadInv, DatagramIsHead
<1>2. CASE pc' = "send" /\ pos' = 1 /\ dgram' = <<>>
  <2>1. Len(dgram') = 0 /\ Len(drp_queue') \in Nat
    BY <1>2, LenProperties
  <2> QED
    BY <1>2, <2>1 DEF HeadInv, DatagramIsHead
<1> QED
  BY <1>1, <1>2 DEF StartSendCheck

\* What is behind pos may go, what is in front of it stays.
LEMMA StopHead ==
  ASSUME IInv, HeadInv, StopWaiting \/ StopNoRoom
  PROVE  HeadInv'
<1>1. pc = "send" /\ pc' = "flush" /\ dgram' = dgram /\ SendInv
  BY DEF StopWaiting, StopNoRoom, AtPack, Break, IInv
<1>2. drp_queue' = drp_queue
  <2>1. CASE StopWaiting
    BY <2>1 DEF StopWaiting
  <2>2. CASE StopNoRoom
    BY <2>2, SentStillFits DEF StopNoRoom
  <2> QED
    BY <2>1, <2>2
<1> QED
  BY <1>1, <1>2 DEF HeadInv, DatagramIsHead

\* A pack that is put in is the next of the queue.
LEMMA PutHead ==
  ASSUME IInv, HeadInv, PutPack
  PROVE  HeadInv'
<1> DEFINE entry == [endpoint |-> Cur.endpoint, id |-> Cur.id, tcf |-> Cur.tcf]
           new == [Cur EXCEPT !.timeout_cnt = TIMEOUT_CNT, !.try_times = Cur.try_times - 1,
                              !.offset = used]
<1>1. /\ pc = "send" /\ pos <= Len(drp_queue) /\ Len(drp_queue) \in Nat
      /\ pos \in 1..Len(drp_queue) /\ drp_queue \in Seq(Pack)
  BY LenProperties DEF IInv, QueueInv, SendInv, PutPack, Put, AtPack
<1>2. Cur \in Pack /\ Cur = drp_queue[pos]
  BY <1>1, ElementOfSeq DEF Cur
<1>3. /\ drp_queue' = [drp_queue EXCEPT ![pos] = new]
      /\ dgram' = Append(dgram, entry) /\ pos' = pos + 1
      /\ pc' \in {"send", "flush"}
  BY <1>2 DEF PutPack, Put
<1>4. /\ Len(drp_queue') = Len(drp_queue)
      /\ drp_queue'[pos] = new
      /\ \A k \in 1..Len(drp_queue) : k # pos => drp_queue'[k] = drp_queue[k]
  BY <1>1, <1>3, ExceptSeq
<1>5. new.endpoint = Cur.endpoint /\ new.id = Cur.id /\ new.timeout_cnt = TIMEOUT_CNT
  BY <1>2 DEF Pack
<1>6. /\ Len(dgram) = pos - 1
      /\ \A k \in 1..Len(dgram) :
              /\ dgram[k].endpoint = drp_queue[k].endpoint
              /\ dgram[k].id = drp_queue[k].id
              /\ drp_queue[k].timeout_cnt = TIMEOUT_CNT
  BY <1>1 DEF HeadInv, DatagramIsHead
<1>7. dgram \in Seq([endpoint : Endpoints, id : 0..ID_MAX, tcf : Tcf])
  BY DEF IInv, TypeOK
<1>8. entry \in [endpoint : Endpoints, id : 0..ID_MAX, tcf : Tcf]
  BY <1>2 DEF Pack
<1>9. entry.endpoint = Cur.endpoint /\ entry.id = Cur.id
  OBVIOUS
<1> HIDE DEF entry, new
<1>10. /\ Len(dgram') = pos
       /\ \A k \in 1..(pos - 1) : dgram'[k] = dgram[k]
       /\ dgram'[pos] = entry
  <2>1. /\ Len(Append(dgram, entry)) = Len(dgram) + 1
        /\ \A k \in 1..Len(dgram) : Append(dgram, entry)[k] = dgram[k]
        /\ Append(dgram, entry)[Len(dgram) + 1] = entry
    BY <1>7, <1>8, AppendProperties
  <2> QED
    BY <1>1, <1>3, <1>6, <2>1
<1>11. ASSUME NEW k \in 1..Len(dgram')
       PROVE  /\ dgram'[k].endpoint = drp_queue'[k].endpoint
              /\ dgram'[k].id = drp_queue'[k].id
              /\ drp_queue'[k].timeout_cnt = TIMEOUT_CNT
  <2>1. CASE k = pos
    BY <1>2, <1>4, <1>5, <1>9, <1>10, <2>1
  <2>2. CASE k # pos
    <3>1. k \in 1..(pos - 1) /\ k \in 1..Len(drp_queue)
      BY <1>1, <1>10, <2>2
    <3> QED
      BY <1>4, <1>6, <1>10, <2>2, <3>1
  <2> QED
    BY <2>1, <2>2
<1> QED
  BY <1>1, <1>3, <1>4, <1>10, <1>11 DEF HeadInv, DatagramIsHead

\* Packs are given up from pos on.
LEMMA DropHead ==
  ASSUME IInv, HeadInv, DropWhole \/ DropFragments
  PROVE  HeadInv'
<1>1. /\ pc = "send" /\ pc' = pc /\ pos' = pos /\ dgram' = dgram
      /\ pos \in 1..Len(drp_queue) /\ drp_queue \in Seq(Pack) /\ Len(drp_queue) \in Nat
  BY LenProperties DEF IInv, QueueInv, SendInv, DropWhole, DropFragments, AtPack
<1>2. PICK last \in pos..Len(drp_queue) : drp_queue' = Cut(drp_queue, pos, last)
  <2>1. pos \in pos..Len(drp_queue)
    BY <1>1
  <2>2. CASE DropWhole
    BY <2>1, <2>2 DEF DropWhole
  <2>3. CASE DropFragments
    BY <2>3 DEF DropFragments
  <2> QED
    BY <2>2, <2>3
<1>3. /\ Len(drp_queue') = Len(drp_queue) - (last - pos + 1)
      /\ \A i \in 1..Len(drp_queue') :
            drp_queue'[i] = IF i < pos THEN drp_queue[i]
                                       ELSE drp_queue[i + (last - pos + 1)]
  BY <1>1, <1>2, CutProperties
<1>4. Len(dgram) = pos - 1 /\ pos - 1 <= Len(drp_queue')
  BY <1>1, <1>3 DEF HeadInv
<1>5. \A k \in 1..(pos - 1) : drp_queue'[k] = drp_queue[k]
  BY <1>1, <1>3, <1>4
<1> QED
  BY <1>1, <1>4, <1>5 DEF HeadInv, DatagramIsHead

\* The other handlers are not in the send check.
LEMMA OutsideHead ==
  ASSUME pc' \notin {"send", "flush"}
  PROVE  HeadInv'
BY DEF HeadInv, DatagramIsHead

\* Every step of the client keeps the datagram a copy.
LEMMA SendCheckHead ==
  ASSUME IInv, HeadInv, SendCheckStep
  PROVE  HeadInv'
<1>1. CASE Flush
  BY <1>1, OutsideHead DEF Flush
<1> QED
  BY <1>1, StopHead, PutHead, DropHead DEF SendCheckStep

\* A timer or an async handle starts the send check or leaves the queue alone.
LEMMA LoopHead ==
  ASSUME IInv, IInv', AsyncFire \/ Tick
  PROVE  HeadInv'
<1>1. pc = "idle" /\ drp_queue' \in Seq(Pack)
  BY DEF AsyncFire, Tick, IInv, QueueInv
<1>2. CASE StartSendCheck
  BY <1>1, <1>2, StartHead
<1>3. CASE UNCHANGED <<pc, pos, used, dgram>>
  BY <1>1, <1>3, OutsideHead
<1> QED
  BY <1>2, <1>3 DEF AsyncFire, Tick

\* Writing and receiving happen outside the send check.
LEMMA QuietHead ==
  ASSUME \/ \E e \in Endpoints, length \in Lengths : WriteLong(e, length)
         \/ \E e \in Endpoints, length \in Lengths, flags \in {0, 2} :
               WriteSingle(e, length, flags)
         \/ \E d \in Seq(RxPack) : Receive(d)
         \/ HandlePack \/ ReceiveEnd
  PROVE  HeadInv'
BY OutsideHead DEF WriteLong, WriteSingle, Enqueue, Receive, HandlePack, ReceiveEnd

(***************************************************************************)
(* What the client's steps do to the names of the packs in the queue.      *)
(***************************************************************************)
Name(p) == <<p.endpoint, p.id>>
Names(d) == {Name(d[k]) : k \in 1..Len(d)}

\* Per endpoint the ids in the queue grow, up to the counter.
IdsGrow ==
    /\ \A k \in 1..Len(drp_queue) :
          /\ drp_queue[k].endpoint \notin ReqEndpoints
          /\ drp_queue[k].id <= new_id[drp_queue[k].endpoint]
    /\ \A j, k \in 1..Len(drp_queue) :
          j < k /\ drp_queue[j].endpoint = drp_queue[k].endpoint =>
              drp_queue[j].id < drp_queue[k].id

\* The names are of packs that have been written.
Written(S) == \A e \in Endpoints, id \in 0..ID_MAX : <<e, id>> \in S => id <= new_id[e]

\* With a pack of the queue all packs in front of it are in S or have arrived.
NoneOvertaken(S) ==
    \A j, k \in 1..Len(drp_queue) :
        j < k /\ Name(drp_queue[k]) \in S => Name(drp_queue[j]) \in S \cup got

\* The packs left in the queue keep their names and their order.
Shrinks ==
    \E f \in [1..Len(drp_queue') -> 1..Len(drp_queue)] :
        /\ \A k \in 1..Len(drp_queue') : Name(drp_queue'[k]) = Name(drp_queue[f[k]])
        /\ \A j, k \in 1..Len(drp_queue') : j < k => f[j] < f[k]

\* Growing ids name the packs of the queue.
LEMMA NamesDiffer ==
  ASSUME IInv, IdsGrow, NEW j \in 1..Len(drp_queue), NEW k \in 1..Len(drp_queue),
         Name(drp_queue[j]) = Name(drp_queue[k])
  PROVE  j = k
<1>1. drp_queue[j] \in Pack /\ drp_queue[k] \in Pack /\ Len(drp_queue) \in Nat
  BY ElementOfSeq, LenProperties DEF IInv, QueueInv
<1>2. drp_queue[j].endpoint = drp_queue[k].endpoint /\ drp_queue[j].id = drp_queue[k].id
  BY DEF Name
<1>3. drp_queue[j].id \in Nat /\ drp_queue[k].id \in Nat
  BY <1>1 DEF Pack
<1>4. ~(drp_queue[j].id < drp_queue[k].id) /\ ~(drp_queue[k].id < drp_queue[j].id)
  BY <1>2, <1>3
<1> QED
  BY <1>1, <1>2, <1>4 DEF IdsGrow

\* Removing packs keeps the ids growing, and nothing comes to overtake.
LEMMA ShrinkKeeps ==
  ASSUME IdsGrow, Shrinks, new_id' = new_id
  PROVE  /\ IdsGrow'
         /\ \A S : NoneOvertaken(S) /\ got' = got => NoneOvertaken(S)'
<1>1. PICK f \in [1..Len(drp_queue') -> 1..Len(drp_queue)] :
        /\ \A k \in 1..Len(drp_queue') : Name(drp_queue'[k]) = Name(drp_queue[f[k]])
        /\ \A j, k \in 1..Len(drp_queue') : j < k => f[j] < f[k]
  BY DEF Shrinks
<1>2. ASSUME NEW k \in 1..Len(drp_queue')
      PROVE  /\ f[k] \in 1..Len(drp_queue)
             /\ drp_queue'[k].endpoint = drp_queue[f[k]].endpoint
             /\ drp_queue'[k].id = drp_queue[f[k]].id
  BY <1>1 DEF Name
<1>3. IdsGrow'
  BY <1>1, <1>2 DEF IdsGrow
<1>4. ASSUME NEW S, NoneOvertaken(S), got' = got
      PROVE  NoneOvertaken(S)'
  BY <1>1, <1>2, <1>4 DEF NoneOvertaken
<1> QED
  BY <1>3, <1>4

\* What is outside a cut stays.
LEMMA CutLeaves ==
  ASSUME drp_queue \in Seq(Pack), NEW a \in 1..Len(drp_queue), NEW b \in a..Len(drp_queue),
         drp_queue' = Cut(drp_queue, a, b), NEW k \in 1..Len(drp_queue), k \notin a..b
  PROVE  \E m \in 1..Len(drp_queue') : drp_queue'[m] = drp_queue[k]
<1>1. /\ Len(drp_queue') = Len(drp_queue) - (b - a + 1)
      /\ \A m \in 1..Len(drp_queue') :
            drp_queue'[m] = IF m < a THEN drp_queue[m] ELSE drp_queue[m + (b - a + 1)]
  BY CutProperties
<1>2. Len(drp_queue) \in Nat
  BY LenProperties
<1>3. CASE k < a
  <2>1. k \in 1..Len(drp_queue') /\ drp_queue'[k] = drp_queue[k]
    BY <1>1, <1>2, <1>3
  <2> QED
    BY <2>1
<1>4. CASE k > b
  <2> DEFINE m == k - (b - a + 1)
  <2>1. m \in 1..Len(drp_queue') /\ ~(m < a) /\ m + (b - a + 1) = k
    BY <1>1, <1>2, <1>4
  <2>2. drp_queue'[m] = drp_queue[k]
    BY <1>1, <2>1
  <2> QED
    BY <2>1, <2>2
<1> QED
  BY <1>2, <1>3, <1>4

\* Cut removes packs and reorders none.
LEMMA CutShrinks ==
  ASSUME drp_queue \in Seq(Pack), NEW a \in 1..Len(drp_queue), NEW b \in a..Len(drp_queue),
         drp_queue' = Cut(drp_queue, a, b)
  PROVE  Shrinks
<1> DEFINE f == [k \in 1..Len(drp_queue') |-> IF k < a THEN k ELSE k + (b - a + 1)]
<1>1. /\ Len(drp_queue') = Len(drp_queue) - (b - a + 1)
      /\ \A k \in 1..Len(drp_queue') :
            drp_queue'[k] = IF k < a THEN drp_queue[k] ELSE drp_queue[k + (b - a + 1)]
  BY CutProperties
<1>2. Len(drp_queue) \in Nat
  BY LenProperties
<1>3. f \in [1..Len(drp_queue') -> 1..Len(drp_queue)]
  BY <1>1, <1>2
<1>4. \A k \in 1..Len(drp_queue') : Name(drp_queue'[k]) = Name(drp_queue[f[k]])
  BY <1>1
<1>5. \A j, k \in 1..Len(drp_queue') : j < k => f[j] < f[k]
  BY <1>1, <1>2
<1> QED
  BY <1>3, <1>4, <1>5 DEF Shrinks

\* Nor does a step that leaves the names of all packs.
LEMMA SameNamesShrink ==
  ASSUME Len(drp_queue) \in Nat, Len(drp_queue') = Len(drp_queue),
         \A k \in 1..Len(drp_queue) : Name(drp_queue'[k]) = Name(drp_queue[k])
  PROVE  Shrinks
<1> DEFINE f == [k \in 1..Len(drp_queue') |-> k]
<1>1. f \in [1..Len(drp_queue') -> 1..Len(drp_queue)]
  OBVIOUS
<1>2. \A k \in 1..Len(drp_queue') : Name(drp_queue'[k]) = Name(drp_queue[f[k]])
  OBVIOUS
<1>3. \A j, k \in 1..Len(drp_queue') : j < k => f[j] < f[k]
  OBVIOUS
<1> QED
  BY <1>1, <1>2, <1>3 DEF Shrinks

\* The timer and a pack that is put into the datagram change no names.
LEMMA NamesStay ==
  ASSUME IInv, Tick \/ PutPack
  PROVE  /\ Len(drp_queue') = Len(drp_queue)
         /\ \A k \in 1..Len(drp_queue) : Name(drp_queue'[k]) = Name(drp_queue[k])
<1>1. drp_queue \in Seq(Pack) /\ Len(drp_queue) \in Nat
  BY LenProperties DEF IInv, QueueInv
<1>2. CASE Tick
  <2>1. drp_queue' = [k \in 1..Len(drp_queue) |->
                        IF Ticked(k) /\ drp_queue[k].timeout_cnt > 0
                        THEN [drp_queue[k] EXCEPT !.timeout_cnt = @ - 1]
                        ELSE drp_queue[k]]
    BY <1>2 DEF Tick
  <2>2. ASSUME NEW k \in 1..Len(drp_queue)
        PROVE  Name(drp_queue'[k]) = Name(drp_queue[k])
    <3>1. drp_queue[k] \in Pack
      BY <1>1, ElementOfSeq
    <3> QED
      BY <2>1, <3>1 DEF Name, Pack
  <2>3. Len(drp_queue') = Len(drp_queue)
    BY <1>1, <2>1
  <2> QED
    BY <2>2, <2>3
<1>3. CASE PutPack
  <2>1. pos \in 1..Len(drp_queue)
    BY <1>1, <1>3 DEF PutPack, Put, AtPack, IInv, SendInv
  <2>2. Cur \in Pack /\ Cur = drp_queue[pos]
    BY <1>1, <2>1, ElementOfSeq DEF Cur
  <2> DEFINE new == [Cur EXCEPT !.timeout_cnt = TIMEOUT_CNT, !.try_times = Cur.try_times - 1,
                                !.offset = used]
  <2>3. drp_queue' = [drp_queue EXCEPT ![pos] = new]
    BY <1>3, <2>2 DEF PutPack, Put
  <2>4. Name(new) = Name(Cur)
    BY <2>2 DEF Name, Pack
  <2> HIDE DEF new
  <2>5. /\ Len(drp_queue') = Len(drp_queue)
        /\ drp_queue'[pos] = new
        /\ \A k \in 1..Len(drp_queue) : k # pos => drp_queue'[k] = drp_queue[k]
    BY <1>1, <2>1, <2>3, ExceptSeq
  <2> QED
    BY <2>2, <2>4, <2>5
<1> QED
  BY <1>2, <1>3

\* Only drp_write adds packs.
LEMMA ClientShrinks ==
  ASSUME IInv, AsyncFire \/ Tick \/ SendCheckStep \/ HandlePack \/ ReceiveEnd
  PROVE  Shrinks /\ new_id' = new_id
<1>1. drp_queue \in Seq(Pack) /\ Len(drp_queue) \in Nat
  BY LenProperties DEF IInv, QueueInv
<1>2. ASSUME drp_queue' = drp_queue PROVE Shrinks
  BY <1>1, <1>2, SameNamesShrink
<1>3. CASE AsyncFire \/ ReceiveEnd \/ Flush \/ StopWaiting
  BY <1>2, <1>3 DEF AsyncFire, ReceiveEnd, Flush, StopWaiting
<1>4. CASE StopNoRoom
  BY <1>2, <1>4, SentStillFits DEF StopNoRoom
<1>5. CASE Tick \/ PutPack
  BY <1>1, <1>5, NamesStay, SameNamesShrink DEF Tick, PutPack, Put
<1>7. CASE DropWhole \/ DropFragments
  <2>1. pos \in 1..Len(drp_queue) /\ pos \in pos..Len(drp_queue) /\ new_id' = new_id
    BY <1>1, <1>7 DEF DropWhole, DropFragments, AtPack, IInv, SendInv
  <2>2. \E last \in pos..Len(drp_queue) : drp_queue' = Cut(drp_queue, pos, last)
    <3>1. CASE DropWhole
      BY <2>1, <3>1 DEF DropWhole
    <3>2. CASE DropFragments
      BY <3>2 DEF DropFragments
    <3> QED
      BY <1>7, <3>1, <3>2
  <2> QED
    BY <1>1, <2>1, <2>2, CutShrinks
<1>8. CASE HandlePack
  <2>1. AckedBy(Head(rx)) \subseteq 1..Len(drp_queue)
    BY DEF AckedBy
  <2>2. drp_queue' = drp_queue \/ \E k \in 1..Len(drp_queue) : drp_queue' = Cut(drp_queue, k, k)
    BY <1>8, <2>1 DEF HandlePack
  <2>3. \A k \in 1..Len(drp_queue) : k \in k..Len(drp_queue)
    BY <1>1
  <2>4. new_id' = new_id
    BY <1>8 DEF HandlePack
  <2> QED
    BY <1>1, <1>2, <2>2, <2>3, <2>4, CutShrinks
<1> QED
  BY <1>3, <1>4, <1>5, <1>7, <1>8 DEF SendCheckStep, StopNoRoom

\* Below its end the id counter is an ordinary sum.
LEMMA IdAfterBelowEnd ==
  ASSUME NEW id \in Nat, NEW k \in Nat, id + k <= ID_MAX
  PROVE  IdAfter(id, k) = id + k
BY DrpAssumption DEF IdAfter

\* New packs have names that nothing sent or arrived has.
LEMMA EnqueueNames ==
  ASSUME IInv, IdsGrow, NEW e \in Endpoints \ ReqEndpoints, NEW packs \in Seq(Pack),
         \A k \in 1..Len(packs) : packs[k].endpoint = e /\ packs[k].id = new_id[e] + k,
         new_id[e] + Len(packs) <= ID_MAX,
         Enqueue(e, packs), got' = got
  PROVE  /\ IdsGrow'
         /\ \A S : Written(S) => Written(S)'
         /\ \A S : Written(S) /\ NoneOvertaken(S) => NoneOvertaken(S)'
<1>1. /\ drp_queue \in Seq(Pack) /\ Len(drp_queue) \in Nat /\ Len(packs) \in Nat
      /\ new_id \in [Endpoints -> 0..ID_MAX] /\ new_id[e] \in Nat /\ ID_MAX \in Nat
  BY LenProperties, DrpAssumption DEF IInv, QueueInv, TypeOK
<1>2. /\ Len(drp_queue') = Len(drp_queue) + Len(packs)
      /\ \A k \in 1..Len(drp_queue') :
            drp_queue'[k] = IF k <= Len(drp_queue) THEN drp_queue[k]
                                                   ELSE packs[k - Len(drp_queue)]
  BY <1>1, ConcatProperties DEF Enqueue
<1>3. /\ new_id'[e] = new_id[e] + Len(packs)
      /\ \A f \in Endpoints : f # e => new_id'[f] = new_id[f]
  BY <1>1, IdAfterBelowEnd DEF Enqueue
<1>4. \A f \in Endpoints : new_id[f] <= new_id'[f] /\ new_id[f] \in Nat /\ new_id'[f] \in Nat
  BY <1>1, <1>3
<1>5. ASSUME NEW k \in 1..Len(drp_queue), drp_queue[k] \in Pack
      PROVE  drp_queue[k].endpoint \in Endpoints /\ drp_queue[k].id \in Nat
  BY <1>5 DEF Pack
<1>6. ASSUME NEW k \in 1..Len(drp_queue)
      PROVE  /\ k \in 1..Len(drp_queue') /\ drp_queue'[k] = drp_queue[k]
             /\ drp_queue[k].endpoint \in Endpoints /\ drp_queue[k].id \in Nat
             /\ drp_queue[k].endpoint \notin ReqEndpoints
             /\ drp_queue[k].id <= new_id[drp_queue[k].endpoint]
  BY <1>1, <1>2, <1>5, ElementOfSeq DEF IdsGrow
<1>7. ASSUME NEW k \in 1..Len(drp_queue'), k > Len(drp_queue)
      PROVE  /\ drp_queue'[k].endpoint = e
             /\ drp_queue'[k].id = new_id[e] + (k - Len(drp_queue))
             /\ drp_queue'[k].id \in 0..ID_MAX
             /\ drp_queue'[k].id > new_id[e] /\ drp_queue'[k].id <= new_id'[e]
  <2>1. k - Len(drp_queue) \in 1..Len(packs) /\ drp_queue'[k] = packs[k - Len(drp_queue)]
    BY <1>1, <1>2, <1>7
  <2> QED
    BY <1>1, <1>3, <2>1
<1>8. \A k \in 1..Len(drp_queue') : k \in 1..Len(drp_queue) \/ k > Len(drp_queue)
  BY <1>1, <1>2
<1>9. IdsGrow'
  <2>1. ASSUME NEW k \in 1..Len(drp_queue')
        PROVE  /\ drp_queue'[k].endpoint \notin ReqEndpoints
               /\ drp_queue'[k].id <= new_id'[drp_queue'[k].endpoint]
    <3>1. CASE k \in 1..Len(drp_queue)
      BY <1>4, <1>6, <3>1
    <3>2. CASE k > Len(drp_queue)
      BY <1>7, <3>2
    <3> QED
      BY <1>8, <3>1, <3>2
  <2>2. ASSUME NEW j \in 1..Len(drp_queue'), NEW k \in 1..Len(drp_queue'), j < k,
               drp_queue'[j].endpoint = drp_queue'[k].endpoint
        PROVE  drp_queue'[j].id < drp_queue'[k].id
    <3>1. CASE k \in 1..Len(drp_queue)
      <4>1. j \in 1..Len(drp_queue)
        BY <1>1, <2>2, <3>1
      <4> QED
        BY <1>6, <2>2, <3>1, <4>1 DEF IdsGrow
    <3>2. CASE k > Len(drp_queue) /\ j \in 1..Len(drp_queue)
      <4>1. drp_queue'[k].endpoint = e /\ drp_queue'[k].id \in Nat /\ drp_queue'[k].id > new_id[e]
        BY <1>7, <3>2
      <4>2. drp_queue'[j].endpoint = e /\ drp_queue'[j].id \in Nat /\ drp_queue'[j].id <= new_id[e]
        BY <1>6, <2>2, <3>2, <4>1
      <4> QED
        BY <1>1, <4>1, <4>2
    <3>3. CASE k > Len(drp_queue) /\ j > Len(drp_queue)
      <4>1. /\ drp_queue'[k].id = new_id[e] + (k - Len(drp_queue))
            /\ drp_queue'[j].id = new_id[e] + (j - Len(drp_queue))
        BY <1>7, <3>3
      <4>2. j \in Nat /\ k \in Nat
        BY <1>1, <1>2
      <4> QED
        BY <1>1, <2>2, <4>1, <4>2
    <3> QED
      BY <1>8, <3>1, <3>2, <3>3
  <2> QED
    BY <2>1, <2>2 DEF IdsGrow
<1>10. ASSUME NEW S, Written(S)
       PROVE  Written(S)'
  BY <1>4, <1>10 DEF Written
<1>11. ASSUME NEW S, Written(S), NoneOvertaken(S)
       PROVE  NoneOvertaken(S)'
  <2> SUFFICES ASSUME NEW j \in 1..Len(drp_queue'), NEW k \in 1..Len(drp_queue'), j < k,
                      Name(drp_queue'[k]) \in S
               PROVE  Name(drp_queue'[j]) \in S \cup got'
    BY DEF NoneOvertaken
  <2>1. k \in 1..Len(drp_queue)
    BY <1>1, <1>7, <1>8, <1>11 DEF Written, Name
  <2>2. j \in 1..Len(drp_queue)
    BY <1>1, <2>1
  <2> QED
    BY <1>6, <1>11, <2>1, <2>2 DEF NoneOvertaken
<1> QED
  BY <1>9, <1>10, <1>11

\* drp_write gives the next ids of an endpoint, within the limits of queue and ids.
LEMMA WritePacks ==
  ASSUME IInv, ClientWrite
  PROVE  \E e \in Endpoints \ ReqEndpoints, packs \in Seq(Pack) :
            /\ pc = "idle" /\ Enqueue(e, packs)
            /\ Len(packs) \in Nat \ {0} /\ new_id[e] + Len(packs) <= ID_MAX
            /\ Len(drp_queue) + Len(packs) <= QUEUE_MAX + 1
            /\ \A k \in 1..Len(packs) : packs[k].endpoint = e /\ packs[k].id = new_id[e] + k
<1>1. PICK e \in Endpoints \ ReqEndpoints, length \in Lengths :
        /\ new_id[e] + FragCount(length) <= ID_MAX
        /\ WriteLong(e, length) \/ \E flags \in {0, 2} : WriteSingle(e, length, flags)
  BY DEF ClientWrite
<1>2. new_id[e] \in Nat /\ Len(drp_queue) \in Nat /\ QUEUE_MAX \in Nat
  BY LenProperties, DrpAssumption DEF IInv, QueueInv, TypeOK
<1>3. CASE WriteLong(e, length)
  <2> DEFINE n == FragCount(length)
             packs == [k \in 1..n |-> Fragment(e, length, k)]
  <2>1. n \in Nat \ {0} /\ length - DRP_MTU * (n - 1) \in 1..DRP_MTU
    BY <1>3, FragmentLengths, DrpAssumption DEF WriteLong
  <2>2. ASSUME NEW k \in 1..n
        PROVE  /\ Fragment(e, length, k) \in Pack
               /\ Fragment(e, length, k).endpoint = e
               /\ Fragment(e, length, k).id = new_id[e] + k
    <3>1. IdAfter(new_id[e], k) = new_id[e] + k /\ IdAfter(new_id[e], k) \in 0..ID_MAX
      <4>1. k \in Nat /\ new_id[e] \in Nat /\ new_id[e] + k <= ID_MAX
        BY <1>1, <1>2, <2>1, DrpAssumption
      <4> QED
        BY <4>1, IdAfterBelowEnd, IdAfterInRange
    <3>2. (IF k = 1 THEN "FIRST" ELSE IF k = n THEN "LAST" ELSE "MID") \in Tcf
      BY DEF Tcf
    <3>3. (IF k = n THEN length - DRP_MTU * (n - 1) ELSE DRP_MTU) \in 1..DRP_MTU
      BY <2>1, DrpAssumption
    <3>4. TRY_TIMES \in 0..TRY_TIMES
      BY DrpAssumption
    <3>5. Fragment(e, length, k) \in Pack
      BY <3>1, <3>2, <3>3, <3>4, NewPackType DEF Fragment
    <3> QED
      BY <3>1, <3>5 DEF Fragment, NewPack
  <2>3. pc = "idle" /\ Enqueue(e, packs) /\ Len(drp_queue) + n <= QUEUE_MAX
    BY <1>3 DEF WriteLong
  <2> HIDE DEF n
  <2>4. packs \in Seq(Pack) /\ Len(packs) = n /\ \A k \in 1..n : packs[k] = Fragment(e, length, k)
    BY <2>1, <2>2, IsASeq
  <2>5. new_id[e] + n <= ID_MAX
    BY <1>1 DEF n
  <2> HIDE DEF packs
  <2>6. \A k \in 1..Len(packs) : packs[k].endpoint = e /\ packs[k].id = new_id[e] + k
    BY <2>2, <2>4
  <2>7. Len(drp_queue) + Len(packs) <= QUEUE_MAX + 1
    BY <1>2, <2>1, <2>3, <2>4
  <2> QED
    BY <2>1, <2>3, <2>4, <2>5, <2>6, <2>7
<1>4. ASSUME NEW flags \in {0, 2}, WriteSingle(e, length, flags)
      PROVE  \E packs \in Seq(Pack) :
                /\ pc = "idle" /\ Enqueue(e, packs)
                /\ Len(packs) \in Nat \ {0} /\ new_id[e] + Len(packs) <= ID_MAX
                /\ Len(drp_queue) + Len(packs) <= QUEUE_MAX + 1
                /\ \A k \in 1..Len(packs) : packs[k].endpoint = e /\ packs[k].id = new_id[e] + k
  <2> DEFINE p == NewPack(e, IdAfter(new_id[e], 1), IF flags = 0 THEN "NOACK" ELSE "FULL",
                          length, IF flags = 0 THEN 1 ELSE TRY_TIMES)
             one == <<p>>
  <2>1. length \in 1..DRP_MTU
    BY <1>4, DrpAssumption DEF WriteSingle
  <2>2. FragCount(length) = 1
    BY <2>1, DrpAssumption DEF FragCount
  <2>3. IdAfter(new_id[e], 1) = new_id[e] + 1 /\ IdAfter(new_id[e], 1) \in 0..ID_MAX
    BY <1>1, <1>2, <2>2, IdAfterBelowEnd, IdAfterInRange
  <2>4. (IF flags = 0 THEN "NOACK" ELSE "FULL") \in Tcf
    BY DEF Tcf
  <2>5. (IF flags = 0 THEN 1 ELSE TRY_TIMES) \in 0..TRY_TIMES
    BY DrpAssumption
  <2>6. p \in Pack
    BY <2>1, <2>3, <2>4, <2>5, NewPackType
  <2>7. p.endpoint = e /\ p.id = new_id[e] + 1
    BY <2>3 DEF NewPack
  <2>8. pc = "idle" /\ Enqueue(e, one) /\ Len(drp_queue) <= QUEUE_MAX
    BY <1>4 DEF WriteSingle
  <2> HIDE DEF p
  <2>9. one \in Seq(Pack) /\ Len(one) = 1 /\ one[1] = p
    BY <2>6
  <2> HIDE DEF one
  <2>10. \A k \in 1..Len(one) : one[k].endpoint = e /\ one[k].id = new_id[e] + k
    BY <2>7, <2>9
  <2>11. Len(drp_queue) + Len(one) <= QUEUE_MAX + 1 /\ new_id[e] + Len(one) <= ID_MAX
    BY <1>1, <1>2, <2>2, <2>8, <2>9
  <2>12. pc = "idle" /\ Enqueue(e, one) /\ one \in Seq(Pack) /\ Len(one) \in Nat \ {0}
    BY <2>8, <2>9
  <2> QED
    BY <2>8, <2>9, <2>10, <2>11, <2>12
<1> QED
  BY <1>1, <1>3, <1>4

\* drp_write below the end of the ids.
LEMMA WriteNames ==
  ASSUME IInv, IdsGrow, ClientWrite
  PROVE  /\ IInv' /\ IdsGrow' /\ pc = "idle" /\ pc' = "idle" /\ rx' = rx
         /\ \A S : Written(S) => Written(S)'
         /\ \A S : Written(S) /\ NoneOvertaken(S) => NoneOvertaken(S)'
<1>1. PICK e \in Endpoints \ ReqEndpoints, packs \in Seq(Pack) :
         /\ pc = "idle" /\ Enqueue(e, packs)
         /\ new_id[e] + Len(packs) <= ID_MAX
         /\ \A k \in 1..Len(packs) : packs[k].endpoint = e /\ packs[k].id = new_id[e] + k
  BY WritePacks
<1>2. got' = got /\ pc' = pc /\ rx' = rx
  BY <1>1 DEF ClientWrite, Enqueue
<1>3. IInv'
  BY StepIInv DEF ClientWrite, Next
<1> QED
  BY <1>1, <1>2, <1>3, EnqueueNames

(***************************************************************************)
(* The network and the daemon.                                             *)
(***************************************************************************)
Entry == [endpoint : Endpoints, id : 0..ID_MAX, tcf : Tcf]

\* Datagrams on their way hold a run of packs from what was then the head of the queue.
UpInv ==
    \A d \in up : d \in Seq(Entry) /\ d # <<>> /\ Written(Names(d)) /\ NoneOvertaken(Names(d))

\* What is answered has arrived.
Answers(d) ==
    /\ d \in Seq(RxPack)
    /\ \A k \in 1..Len(d) : d[k].endpoint \in ReqEndpoints \/ Name(d[k]) \in got

LinkInv ==
    /\ IInv /\ HeadInv /\ IdsGrow
    /\ Written(got) /\ NoneOvertaken(got)
    /\ UpInv
    /\ Answers(rx) /\ \A d \in down : Answers(d)

\* Nothing is queued and nothing is under way.
LEMMA LinkStart == LinkInit => LinkInv
<1> SUFFICES ASSUME LinkInit PROVE LinkInv
  OBVIOUS
<1>1. IInv /\ drp_queue = <<>> /\ rx = <<>> /\ up = {} /\ down = {} /\ got = {} /\ pc = "idle"
  BY InitIInv DEF LinkInit, Init
<1>2. HeadInv /\ IdsGrow /\ Written(got) /\ NoneOvertaken(got)
  BY <1>1 DEF HeadInv, DatagramIsHead, IdsGrow, Written, NoneOvertaken
<1>3. Answers(rx)
  BY <1>1 DEF Answers
<1> QED
  BY <1>1, <1>2, <1>3 DEF LinkInv, UpInv

\* A step that leaves names, queue order and arrivals in place keeps what is on its way.
LEMMA ShrinkLink ==
  ASSUME LinkInv, Shrinks, new_id' = new_id, got' = got, IInv', HeadInv', Answers(rx)',
         up' \subseteq up, down' \subseteq down
  PROVE  LinkInv'
<1>1. IdsGrow' /\ \A S : NoneOvertaken(S) => NoneOvertaken(S)'
  BY ShrinkKeeps DEF LinkInv
<1>2. \A S : Written(S) => Written(S)'
  BY DEF Written
<1>3. Written(got)' /\ NoneOvertaken(got)'
  <2>1. Written(got) /\ NoneOvertaken(got)
    BY DEF LinkInv
  <2> QED
    BY <2>1 , <1>1, <1>2 DEF Written, NoneOvertaken
<1>4. UpInv'
  <2> SUFFICES ASSUME NEW d \in up'
               PROVE  /\ d \in Seq(Entry) /\ d # <<>>
                      /\ Written(Names(d))' /\ NoneOvertaken(Names(d))'
    BY DEF UpInv
  <2>1. d \in Seq(Entry) /\ d # <<>> /\ Written(Names(d)) /\ NoneOvertaken(Names(d))
    BY DEF LinkInv, UpInv
  <2> QED
    BY <1>1, <1>2, <2>1
<1>5. \A d \in down' : Answers(d)'
  BY DEF LinkInv, Answers
<1> QED
  BY <1>1, <1>3, <1>4, <1>5 DEF LinkInv

\* The client's own steps only shrink the queue.
LEMMA ClientStepLink ==
  ASSUME LinkInv, ClientStep
  PROVE  LinkInv'
<1>1. /\ AsyncFire \/ Tick \/ SendCheckStep \/ HandlePack \/ ReceiveEnd
      /\ up' = up /\ down' = down /\ got' = got
  BY DEF ClientStep, SendCheckStep
<1>2. IInv /\ HeadInv
  BY DEF LinkInv
<1>3. IInv'
  BY <1>1, <1>2, StepIInv DEF Next
<1>4. HeadInv'
  BY <1>1, <1>2, <1>3, SendCheckHead, LoopHead, QuietHead
<1>5. Shrinks /\ new_id' = new_id
  BY <1>1, <1>2, ClientShrinks
<1>6. Answers(rx)'
  <2>1. Answers(rx)
    BY DEF LinkInv
  <2>2. CASE rx' = rx
    BY <1>1, <2>1, <2>2 DEF Answers
  <2>3. CASE rx # <<>> /\ rx' = Tail(rx)
    <3>1. rx \in Seq(RxPack) /\ Len(rx) \in Nat \ {0}
      BY <2>1, <2>3, LenProperties, EmptySeq DEF Answers
    <3>2. /\ Tail(rx) \in Seq(RxPack) /\ Len(Tail(rx)) = Len(rx) - 1
          /\ \A k \in 1..Len(Tail(rx)) : Tail(rx)[k] = rx[k + 1]
      BY <2>3, <3>1, HeadTailProperties
    <3>3. \A k \in 1..Len(Tail(rx)) : k + 1 \in 1..Len(rx)
      BY <3>1, <3>2
    <3> QED
      BY <1>1, <2>1, <2>3, <3>2, <3>3 DEF Answers
  <2> QED
    BY <1>1, <2>2, <2>3
       DEF AsyncFire, Tick, HandlePack, ReceiveEnd, SendCheckStep, StopWaiting, StopNoRoom,
           PutPack, Put, DropWhole, DropFragments, Flush
<1> QED
  BY <1>1, <1>3, <1>4, <1>5, <1>6, ShrinkLink

\* A written pack has an id that neither daemon nor network has seen.
LEMMA WriteLink ==
  ASSUME LinkInv, ClientWrite
  PROVE  LinkInv'
<1>1. up' = up /\ down' = down /\ got' = got
  BY DEF ClientWrite
<1>2. IInv /\ IdsGrow
  BY DEF LinkInv
<1>3. /\ IInv' /\ IdsGrow' /\ pc' = "idle" /\ rx' = rx
      /\ \A S : Written(S) => Written(S)'
      /\ \A S : Written(S) /\ NoneOvertaken(S) => NoneOvertaken(S)'
  BY <1>2, WriteNames
<1>4. HeadInv'
  BY <1>3, OutsideHead
<1>5. Written(got)' /\ NoneOvertaken(got)'
  <2>1. Written(got) /\ NoneOvertaken(got)
    BY DEF LinkInv
  <2> QED
    BY <1>1, <1>3, <2>1 DEF Written, NoneOvertaken
<1>6. UpInv'
  <2> SUFFICES ASSUME NEW d \in up'
               PROVE  /\ d \in Seq(Entry) /\ d # <<>>
                      /\ Written(Names(d))' /\ NoneOvertaken(Names(d))'
    BY DEF UpInv
  <2>1. d \in Seq(Entry) /\ d # <<>> /\ Written(Names(d)) /\ NoneOvertaken(Names(d))
    BY <1>1 DEF LinkInv, UpInv
  <2> QED
    BY <1>3, <2>1
<1>7. Answers(rx)' /\ \A d \in down' : Answers(d)'
  BY <1>1, <1>3 DEF LinkInv, Answers
<1> QED
  BY <1>3, <1>4, <1>5, <1>6, <1>7 DEF LinkInv

\* A datagram is sent: its packs are the head of the queue.
LEMMA SendLink ==
  ASSUME LinkInv, ClientSend
  PROVE  LinkInv'
<1>1. /\ Flush /\ pc = "flush" /\ drp_queue' = drp_queue /\ new_id' = new_id /\ rx' = rx
      /\ got' = got /\ down' = down /\ up' = Carry(up, dgram)
  BY DEF ClientSend, Flush
<1>2. IInv /\ HeadInv /\ IdsGrow
  BY DEF LinkInv
<1>3. IInv'
  BY <1>1, <1>2, StepIInv DEF Next, SendCheckStep
<1>4. HeadInv'
  BY <1>1, OutsideHead DEF Flush
<1>5. /\ dgram \in Seq(Entry) /\ Len(dgram) \in Nat /\ Len(drp_queue) \in Nat
      /\ Len(dgram) <= Len(drp_queue)
      /\ \A k \in 1..Len(dgram) : Name(dgram[k]) = Name(drp_queue[k])
      /\ drp_queue \in Seq(Pack)
  BY <1>1, <1>2, LenProperties DEF IInv, QueueInv, TypeOK, Entry, HeadInv, DatagramIsHead, Name
<1>6. Written(Names(dgram))
  <2> SUFFICES ASSUME NEW e \in Endpoints, NEW id \in 0..ID_MAX, <<e, id>> \in Names(dgram)
               PROVE  id <= new_id[e]
    BY DEF Written
  <2>1. PICK k \in 1..Len(dgram) : <<e, id>> = Name(dgram[k])
    BY DEF Names
  <2>2. k \in 1..Len(drp_queue) /\ drp_queue[k].endpoint = e /\ drp_queue[k].id = id
    BY <1>5, <2>1 DEF Name
  <2> QED
    BY <1>2, <2>2 DEF IdsGrow
<1>7. NoneOvertaken(Names(dgram))
  <2> SUFFICES ASSUME NEW j \in 1..Len(drp_queue), NEW k \in 1..Len(drp_queue), j < k,
                      Name(drp_queue[k]) \in Names(dgram)
               PROVE  Name(drp_queue[j]) \in Names(dgram)
    BY DEF NoneOvertaken
  <2>1. PICK m \in 1..Len(dgram) : Name(drp_queue[k]) = Name(dgram[m])
    BY DEF Names
  <2>2. m \in 1..Len(drp_queue) /\ Name(drp_queue[k]) = Name(drp_queue[m])
    BY <1>5, <2>1
  <2>3. k = m
    BY <1>2, <2>2, NamesDiffer
  <2>4. j \in 1..Len(dgram)
    BY <1>5, <2>3
  <2> QED
    BY <1>5, <2>4 DEF Names
<1>8. \A S : (Written(S) => Written(S)') /\ (NoneOvertaken(S) => NoneOvertaken(S)')
  BY <1>1 DEF Written, NoneOvertaken
<1>9. UpInv'
  <2> SUFFICES ASSUME NEW d \in up'
               PROVE  /\ d \in Seq(Entry) /\ d # <<>>
                      /\ Written(Names(d))' /\ NoneOvertaken(Names(d))'
    BY DEF UpInv
  <2>1. d \in up \/ (d = dgram /\ d # <<>>)
    BY <1>1 DEF Carry
  <2>2. d \in Seq(Entry) /\ d # <<>> /\ Written(Names(d)) /\ NoneOvertaken(Names(d))
    BY <1>5, <1>6, <1>7, <2>1 DEF LinkInv, UpInv
  <2> QED
    BY <1>8, <2>2
<1>10. IdsGrow' /\ Written(got)' /\ NoneOvertaken(got)'
  BY <1>1 DEF LinkInv, IdsGrow, Written, NoneOvertaken
<1>11. Answers(rx)' /\ \A d \in down' : Answers(d)'
  BY <1>1 DEF LinkInv, Answers
<1> QED
  BY <1>3, <1>4, <1>9, <1>10, <1>11 DEF LinkInv

\* The client takes a datagram of answers or requests.
LEMMA ReceiveLink ==
  ASSUME LinkInv, ClientReceive
  PROVE  LinkInv'
<1>1. PICK d \in down : Receive(d) /\ down' \in Deliver(down, d) /\ up' = up /\ got' = got
  BY DEF ClientReceive
<1>2. Answers(d) /\ IInv /\ down' \subseteq down
  BY <1>1 DEF LinkInv, Deliver
<1>3. IInv'
  BY <1>1, <1>2, OtherStepsKeep DEF Answers
<1>4. HeadInv' /\ drp_queue' = drp_queue /\ new_id' = new_id /\ rx' = d
  BY <1>1, OutsideHead DEF Receive
<1>5. Shrinks
  BY <1>2, <1>4, SameNamesShrink, LenProperties DEF IInv, QueueInv
<1>6. Answers(rx)'
  BY <1>1, <1>2, <1>4 DEF Answers
<1> QED
  BY <1>1, <1>2, <1>3, <1>4, <1>5, <1>6, ShrinkLink

\* Acknowledging some packs makes a datagram of that many acknowledgements.
LEMMA AckSeq ==
  ASSUME NEW d, NEW n \in Nat, \A k \in 1..n : Ack(d[k]) \in RxPack
  PROVE  /\ [k \in 1..n |-> Ack(d[k])] \in Seq(RxPack)
         /\ Len([k \in 1..n |-> Ack(d[k])]) = n
         /\ \A k \in 1..n : [j \in 1..n |-> Ack(d[j])][k] = Ack(d[k])
<1>1. [k \in 1..n |-> Ack(d[k])] \in Seq(RxPack)
  BY IsASeq
<1>2. Len([k \in 1..n |-> Ack(d[k])]) = n
  OBVIOUS
<1>3. \A k \in 1..n : [j \in 1..n |-> Ack(d[j])][k] = Ack(d[k])
  OBVIOUS
<1> QED
  BY <1>1, <1>2, <1>3

\* What does not concern the client.
LEMMA ClientRests ==
  ASSUME LinkInv, UNCHANGED vars
  PROVE  IInv' /\ HeadInv' /\ IdsGrow' /\ Shrinks
<1>1. IInv /\ HeadInv /\ IdsGrow /\ Len(drp_queue) \in Nat
  BY LenProperties DEF LinkInv, IInv, QueueInv
<1>2. IInv'
  BY <1>1, StepIInv
<1>3. HeadInv' /\ IdsGrow'
  BY <1>1 DEF HeadInv, DatagramIsHead, IdsGrow, vars
<1>4. Shrinks
  BY <1>1, SameNamesShrink DEF vars
<1> QED
  BY <1>2, <1>3, <1>4

\* The daemon takes a datagram: with its packs everything in front of them is there.
LEMMA PeerReceiveLink ==
  ASSUME LinkInv, PeerReceive
  PROVE  LinkInv'
<1>1. PICK d \in up :
        /\ got' = got \cup {<<d[k].endpoint, d[k].id>> : k \in 1..Len(d)}
        /\ up' \in Deliver(up, d)
        /\ down' = Carry(down, Acks(d))
        /\ UNCHANGED vars
  BY DEF PeerReceive
<1>2. got' = got \cup Names(d)
  BY <1>1 DEF Names, Name
<1>3. IInv' /\ HeadInv' /\ IdsGrow'
  BY <1>1, ClientRests
<1>4. /\ d \in Seq(Entry) /\ d # <<>> /\ Written(Names(d)) /\ NoneOvertaken(Names(d))
      /\ Written(got) /\ NoneOvertaken(got)
  BY <1>1 DEF LinkInv, UpInv
<1>5. drp_queue' = drp_queue /\ new_id' = new_id /\ rx' = rx
  BY <1>1 DEF vars
<1>6. Written(got)' /\ NoneOvertaken(got)'
  BY <1>2, <1>4, <1>5 DEF Written, NoneOvertaken
<1>7. UpInv'
  <2> SUFFICES ASSUME NEW c \in up'
               PROVE  /\ c \in Seq(Entry) /\ c # <<>>
                      /\ Written(Names(c))' /\ NoneOvertaken(Names(c))'
    BY DEF UpInv
  <2>1. c \in Seq(Entry) /\ c # <<>> /\ Written(Names(c)) /\ NoneOvertaken(Names(c))
    BY <1>1 DEF LinkInv, UpInv, Deliver
  <2> QED
    BY <1>2, <1>5, <2>1 DEF Written, NoneOvertaken
<1>8. Answers(Acks(d))'
  <2> DEFINE n == IF d[Len(d)].tcf = "NOACK" THEN Len(d) - 1 ELSE Len(d)
  <2>1. n \in Nat /\ n <= Len(d) /\ Len(d) \in Nat
    BY <1>4, LenProperties, EmptySeq
  <2>2. ASSUME NEW k \in 1..n
        PROVE  /\ Ack(d[k]) \in RxPack /\ Name(Ack(d[k])) = <<d[k].endpoint, d[k].id>>
               /\ <<d[k].endpoint, d[k].id>> \in got'
    <3>1. k \in 1..Len(d) /\ d[k] \in Entry
      BY <1>4, <2>1, ElementOfSeq
    <3> QED
      BY <1>1, <3>1 DEF Entry, RxPack, RxKind, Ack, Name
  <2>3. Acks(d) = [k \in 1..n |-> Ack(d[k])]
    BY DEF Acks
  <2> HIDE DEF n
  <2>4. /\ Acks(d) \in Seq(RxPack) /\ Len(Acks(d)) = n
        /\ \A k \in 1..n : Acks(d)[k] = Ack(d[k])
    BY <2>1, <2>2, <2>3, AckSeq
  <2> QED
    BY <2>2, <2>3, <2>4 DEF Answers
<1>9. Answers(rx)' /\ \A c \in down : Answers(c)'
  BY <1>2, <1>5 DEF LinkInv, Answers
<1>10. \A c \in down' : Answers(c)'
  BY <1>1, <1>8, <1>9 DEF Carry
<1> QED
  BY <1>3, <1>6, <1>7, <1>9, <1>10 DEF LinkInv

\* The daemon's requests are no acknowledgement of a pack of the client.
LEMMA PeerRequestLink ==
  ASSUME LinkInv, PeerRequest
  PROVE  LinkInv'
<1>1. PICK e \in ReqEndpoints, id \in 0..ID_MAX :
        /\ down' = Carry(down, <<[endpoint |-> e, id |-> id, kind |-> "REQ"]>>)
        /\ UNCHANGED <<vars, up, got>>
  BY DEF PeerRequest
<1> DEFINE p == [endpoint |-> e, id |-> id, kind |-> "REQ"]
<1>2. p \in RxPack /\ p.endpoint \in ReqEndpoints
  BY LinkAssumption DEF RxPack, RxKind
<1> HIDE DEF p
<1>3. <<p>> \in Seq(RxPack) /\ Len(<<p>>) = 1 /\ <<p>>[1] = p
  BY <1>2
<1>4. Answers(<<p>>)
  BY <1>2, <1>3 DEF Answers
<1>5. IInv' /\ HeadInv' /\ IdsGrow'
  BY <1>1, ClientRests
<1>6. UNCHANGED <<drp_queue, new_id, rx, up, got>>
  BY <1>1 DEF vars
<1>7. UpInv' /\ Written(got)' /\ NoneOvertaken(got)'
  BY <1>6 DEF LinkInv, UpInv, Written, NoneOvertaken
<1>8. Answers(rx)' /\ \A c \in down' : Answers(c)'
  <2>1. \A c \in down' : c \in down \/ c = <<p>>
    BY <1>1 DEF Carry, p
  <2> QED
    BY <1>4, <1>6, <2>1 DEF LinkInv, Answers
<1> QED
  BY <1>5, <1>7, <1>8 DEF LinkInv

\* Losing a datagram leaves fewer to keep.
LEMMA LoseLink ==
  ASSUME LinkInv, Lose \/ UNCHANGED linkVars
  PROVE  LinkInv'
<1>1. UNCHANGED <<vars, got>> /\ up' \subseteq up /\ down' \subseteq down
  BY DEF Lose, linkVars
<1>2. IInv' /\ HeadInv' /\ Shrinks
  BY <1>1, ClientRests
<1>3. new_id' = new_id /\ Answers(rx)'
  BY <1>1 DEF vars, LinkInv, Answers
<1> QED
  BY <1>1, <1>2, <1>3, ShrinkLink

\* The invariant the theorems on the link rest on.
LEMMA LinkInductive == LinkSpec => []LinkInv
<1>1. LinkInv /\ [LinkNext]_linkVars => LinkInv'
  BY ClientStepLink, WriteLink, SendLink, ReceiveLink, PeerReceiveLink, PeerRequestLink,
     LoseLink DEF LinkNext
<1> QED
  BY LinkStart, <1>1, PTL DEF LinkSpec

\* Nothing overtakes: through loss, duplication and reordering the daemon has a prefix of
\* the queue.
THEOREM DaemonHasPrefix == LinkSpec => []GotPrefix
<1>1. LinkInv => GotPrefix
  BY DEF LinkInv, NoneOvertaken, GotPrefix, Has, Name
<1> QED
  BY LinkInductive, <1>1, PTL

\* An id names one pack of the queue.
THEOREM IdsAreUnique == LinkSpec => []QueuedIdsDiffer
<1>1. LinkInv => QueuedIdsDiffer
  BY NamesDiffer DEF LinkInv, QueuedIdsDiffer, Name
<1> QED
  BY LinkInductive, <1>1, PTL

\* What leaves the queue as acknowledged has arrived.
THEOREM AcknowledgedArrived == LinkSpec => AckedWasGot
<1> DEFINE Justly ==
      pc = "recv" =>
         \A k \in 1..Len(drp_queue) :
            Has(drp_queue[k]) \/ \E m \in 1..Len(drp_queue') : drp_queue'[m] = drp_queue[k]
<1>1. ASSUME LinkInv, [LinkNext]_linkVars
      PROVE  Justly
  <2> SUFFICES ASSUME pc = "recv", NEW k \in 1..Len(drp_queue), ~Has(drp_queue[k])
               PROVE  \E m \in 1..Len(drp_queue') : drp_queue'[m] = drp_queue[k]
    OBVIOUS
  <2>1. drp_queue \in Seq(Pack) /\ Len(drp_queue) \in Nat
    BY <1>1, LenProperties DEF LinkInv, IInv, QueueInv
  <2>2. CASE drp_queue' = drp_queue
    BY <2>2
  <2>3. CASE HandlePack
    <3>1. rx # <<>> /\ rx \in Seq(RxPack) /\ Head(rx) = rx[1] /\ 1 \in 1..Len(rx)
      BY <1>1, <2>3, LenProperties, EmptySeq DEF HandlePack, LinkInv, Answers
    <3>2. Head(rx).endpoint \in ReqEndpoints \/ Name(Head(rx)) \in got
      BY <1>1, <3>1 DEF LinkInv, Answers
    <3>3. ASSUME NEW i \in AckedBy(Head(rx)), drp_queue' = Cut(drp_queue, i, i)
          PROVE  \E m \in 1..Len(drp_queue') : drp_queue'[m] = drp_queue[k]
      <4>1. i \in 1..Len(drp_queue) /\ Matches(Head(rx), i) /\ i \in i..Len(drp_queue)
        BY <2>1, <3>3 DEF AckedBy
      <4>2. Name(drp_queue[i]) \in got
        BY <1>1, <3>2, <4>1 DEF Matches, Name, LinkInv, IdsGrow
      <4>3. i # k
        BY <4>2 DEF Has, Name
      <4>4. k \notin i..i
        BY <4>1, <4>3
      <4> QED
        BY <2>1, <3>3, <4>1, <4>4, CutLeaves
    <3> QED
      BY <2>2, <2>3, <3>3 DEF HandlePack
  <2>4. HandlePack \/ drp_queue' = drp_queue
    BY <1>1
       DEF LinkNext, linkVars, vars, ClientStep, ClientWrite, ClientSend, ClientReceive,
           PeerReceive, PeerRequest, Lose, AsyncFire, Tick, StopWaiting, StopNoRoom, PutPack,
           Put, DropWhole, DropFragments, AtPack, ReceiveEnd, WriteLong, WriteSingle,
           Flush, Receive
  <2> QED
    BY <2>2, <2>3, <2>4
<1>2. LinkInv /\ [LinkNext]_linkVars => [Justly]_linkVars
  BY <1>1
<1> QED
  BY LinkInductive, <1>2, PTL DEF LinkSpec, AckedWasGot

(***************************************************************************)
(* The channel.  Besides LinkInv it needs that whatever is queued, under   *)
(* way or has arrived was named by drp_write.                              *)
(***************************************************************************)
NamesInv ==
    /\ \A k \in 1..Len(drp_queue) : Name(drp_queue[k]) \in Used
    /\ got \subseteq Used
    /\ \A d \in up : Names(d) \subseteq Used

ChannelInv == LinkInv /\ NamesInv

\* What the channel sees of the queue.
LEMMA PendingType ==
  ASSUME drp_queue \in Seq(Pack)
  PROVE  /\ Pending \in Seq(Endpoints \X (0..ID_MAX))
         /\ Len(Pending) = Len(drp_queue) /\ Len(drp_queue) \in Nat
         /\ \A k \in 1..Len(drp_queue) : Pending[k] = Name(drp_queue[k])
<1>1. Len(drp_queue) \in Nat
  BY LenProperties
<1>2. \A k \in 1..Len(drp_queue) :
         <<drp_queue[k].endpoint, drp_queue[k].id>> \in Endpoints \X (0..ID_MAX)
  <2> SUFFICES ASSUME NEW k \in 1..Len(drp_queue)
               PROVE  <<drp_queue[k].endpoint, drp_queue[k].id>> \in Endpoints \X (0..ID_MAX)
    OBVIOUS
  <2>1. drp_queue[k] \in Pack
    BY ElementOfSeq
  <2> QED
    BY <2>1 DEF Pack
<1>3. Pending \in Seq(Endpoints \X (0..ID_MAX))
  BY <1>1, <1>2, IsASeq DEF Pending
<1> QED
  BY <1>1, <1>3 DEF Pending, Name

\* The names of the same packs are the same.
LEMMA SamePending ==
  ASSUME Len(drp_queue) \in Nat, Len(drp_queue') = Len(drp_queue),
         \A k \in 1..Len(drp_queue) : Name(drp_queue'[k]) = Name(drp_queue[k])
  PROVE  Pending' = Pending
BY DEF Pending, Name

\* Removing packs removes their names.
LEMMA CutPending ==
  ASSUME drp_queue \in Seq(Pack), NEW a \in 1..Len(drp_queue), NEW b \in a..Len(drp_queue),
         drp_queue' = Cut(drp_queue, a, b)
  PROVE  Pending' = Channel!Without(a, b)
<1> DEFINE S == Endpoints \X (0..ID_MAX)
<1>1. /\ Pending \in Seq(S) /\ Len(Pending) = Len(drp_queue) /\ Len(drp_queue) \in Nat
      /\ \A k \in 1..Len(drp_queue) : Pending[k] = Name(drp_queue[k])
  BY PendingType
<1>2. /\ drp_queue' \in Seq(Pack)
      /\ Len(drp_queue') = Len(drp_queue) - (b - a + 1)
      /\ \A i \in 1..Len(drp_queue') :
            drp_queue'[i] = IF i < a THEN drp_queue[i] ELSE drp_queue[i + (b - a + 1)]
  BY CutProperties
<1>3. /\ Pending' \in Seq(S) /\ Len(Pending') = Len(drp_queue')
      /\ \A k \in 1..Len(drp_queue') : Pending'[k] = Name(drp_queue'[k])
  <2>1. Len(drp_queue') \in Nat
    BY <1>2, LenProperties
  <2>2. \A k \in 1..Len(drp_queue') :
           /\ drp_queue'[k] \in Pack
           /\ <<drp_queue'[k].endpoint, drp_queue'[k].id>> \in S
    <3> SUFFICES ASSUME NEW k \in 1..Len(drp_queue')
                 PROVE  /\ drp_queue'[k] \in Pack
                        /\ <<drp_queue'[k].endpoint, drp_queue'[k].id>> \in S
      OBVIOUS
    <3>1. drp_queue'[k] \in Pack
      BY <1>2, ElementOfSeq
    <3> QED
      BY <3>1 DEF Pack
  <2>3. [k \in 1..Len(drp_queue') |-> <<drp_queue'[k].endpoint, drp_queue'[k].id>>] \in Seq(S)
    BY <2>1, <2>2, IsASeq
  <2>4. Pending' = [k \in 1..Len(drp_queue') |-> <<drp_queue'[k].endpoint, drp_queue'[k].id>>]
    BY DEF Pending
  <2> QED
    BY <2>1, <2>3, <2>4 DEF Name
<1> HIDE DEF S
<1>4. /\ Cut(Pending, a, b) \in Seq(S)
      /\ Len(Cut(Pending, a, b)) = Len(Pending) - (b - a + 1)
      /\ \A i \in 1..Len(Cut(Pending, a, b)) :
            Cut(Pending, a, b)[i] = IF i < a THEN Pending[i] ELSE Pending[i + (b - a + 1)]
  <2>1. a \in 1..Len(Pending) /\ b \in a..Len(Pending)
    BY <1>1
  <2> QED
    BY <1>1, <2>1, CutProperties
<1>5. ASSUME NEW i \in 1..Len(Pending')
      PROVE  Pending'[i] = Cut(Pending, a, b)[i]
  <2>1. /\ i \in 1..Len(drp_queue') /\ i \in 1..Len(Cut(Pending, a, b))
        /\ i < a => i \in 1..Len(drp_queue)
        /\ ~(i < a) => i + (b - a + 1) \in 1..Len(drp_queue)
    BY <1>1, <1>2, <1>3, <1>4
  <2> QED
    BY <1>1, <1>2, <1>3, <1>4, <2>1
<1>6. Pending' = Cut(Pending, a, b)
  BY <1>1, <1>2, <1>3, <1>4, <1>5, SeqEqual
<1> QED
  BY <1>6 DEF Channel!Without, Cut

\* As long as drp_write does not run no name is given.
LEMMA SameUsed ==
  ASSUME new_id' = new_id
  PROVE  Used' = Used
BY DEF Used

\* The names of the packs one write builds.
NamesOf(packs, n) == [k \in 1..n |-> Name(packs[k])]

\* What drp_write adds has new names, all different.
LEMMA EnqueueUsed ==
  ASSUME IInv, NEW e \in Endpoints \ ReqEndpoints, NEW packs \in Seq(Pack),
         NEW n \in Nat, Len(packs) = n,
         \A k \in 1..n : packs[k].endpoint = e /\ packs[k].id = new_id[e] + k,
         new_id[e] + n <= ID_MAX, Enqueue(e, packs)
  PROVE  LET new == NamesOf(packs, n)
         IN  /\ new \in [1..n -> ((Endpoints \ ReqEndpoints) \X (1..ID_MAX)) \ Used]
             /\ \A j, k \in 1..n : j # k => new[j] # new[k]
             /\ Pending' = Pending \o new
             /\ Used' = Used \cup {new[k] : k \in 1..n}
<1> DEFINE new == NamesOf(packs, n)
           S == Endpoints \X (0..ID_MAX)
<1>1. /\ drp_queue \in Seq(Pack) /\ Len(drp_queue) \in Nat
      /\ new_id \in [Endpoints -> 0..ID_MAX] /\ new_id[e] \in Nat /\ ID_MAX \in Nat
  BY LenProperties, DrpAssumption DEF IInv, QueueInv, TypeOK
<1>2. /\ drp_queue' = drp_queue \o packs
      /\ new_id' = [new_id EXCEPT ![e] = IdAfter(new_id[e], Len(packs))]
  BY DEF Enqueue
<1>3. /\ new_id'[e] = new_id[e] + n
      /\ \A f \in Endpoints : f # e => new_id'[f] = new_id[f]
  BY <1>1, <1>2, IdAfterBelowEnd
<1>4. \A k \in 1..n : new[k] = <<e, new_id[e] + k>> /\ new_id[e] + k \in 1..ID_MAX
  BY <1>1 DEF Name, NamesOf
<1>5. ASSUME NEW f, NEW id
      PROVE  <<f, id>> \in Used <=> f \in Endpoints \ ReqEndpoints /\ id \in 1..new_id[f]
  <2>1. <<f, id>> \in Used
        <=> \E g \in Endpoints \ ReqEndpoints : \E i \in 1..new_id[g] : <<f, id>> = <<g, i>>
    BY DEF Used
  <2> QED
    BY <2>1
<1>6. ASSUME NEW f, NEW id
      PROVE  <<f, id>> \in Used' <=> f \in Endpoints \ ReqEndpoints /\ id \in 1..new_id'[f]
  <2>1. <<f, id>> \in Used'
        <=> \E g \in Endpoints \ ReqEndpoints : \E i \in 1..new_id'[g] : <<f, id>> = <<g, i>>
    BY DEF Used
  <2> QED
    BY <2>1
<1>7. \A k \in 1..n : new[k] \in ((Endpoints \ ReqEndpoints) \X (1..ID_MAX)) \ Used
  <2> SUFFICES ASSUME NEW k \in 1..n
               PROVE  new[k] \in ((Endpoints \ ReqEndpoints) \X (1..ID_MAX)) \ Used
    OBVIOUS
  <2> DEFINE id == new_id[e] + k
  <2>1. ~(id \in 1..new_id[e]) /\ id \in 1..ID_MAX
    BY <1>1, <1>4
  <2>2. new[k] = <<e, id>>
    BY <1>4
  <2> HIDE DEF new, id
  <2>3. <<e, id>> \in (Endpoints \ ReqEndpoints) \X (1..ID_MAX)
    BY <2>1
  <2>4. <<e, id>> \notin Used
    BY <1>5, <2>1
  <2> QED
    BY <2>2, <2>3, <2>4
<1>8. new \in [1..n -> ((Endpoints \ ReqEndpoints) \X (1..ID_MAX)) \ Used]
  BY <1>7 DEF NamesOf
<1>9. \A j, k \in 1..n : j # k => new[j] # new[k]
  <2> HIDE DEF new
  <2> QED
    BY <1>1, <1>4
<1>10. Used' = Used \cup {new[k] : k \in 1..n}
  <2> HIDE DEF new
  <2>1. ASSUME NEW x \in Used' PROVE x \in Used \cup {new[k] : k \in 1..n}
    <3>0. PICK f \in Endpoints \ ReqEndpoints : \E id \in 1..new_id'[f] : x = <<f, id>>
      BY DEF Used
    <3>1. PICK id \in 1..new_id'[f] : x = <<f, id>>
      BY <3>0
    <3>2. CASE f # e
      BY <1>3, <1>5, <3>1, <3>2
    <3>3. CASE f = e /\ id <= new_id[e]
      <4>1. id \in 1..new_id[e]
        BY <1>1, <3>1, <3>3
      <4> QED
        BY <1>5, <3>1, <3>3, <4>1
    <3>4. CASE f = e /\ ~(id <= new_id[e])
      <4>1. id - new_id[e] \in 1..n /\ new_id[e] + (id - new_id[e]) = id
        BY <1>1, <1>3, <3>1, <3>4
      <4>2. new[id - new_id[e]] = <<e, id>>
        BY <1>4, <4>1
      <4> QED
        BY <3>1, <3>4, <4>1, <4>2
    <3> QED
      BY <3>2, <3>3, <3>4
  <2>2. ASSUME NEW x \in Used PROVE x \in Used'
    <3>0. PICK f \in Endpoints \ ReqEndpoints : \E id \in 1..new_id[f] : x = <<f, id>>
      BY DEF Used
    <3>1. PICK id \in 1..new_id[f] : x = <<f, id>>
      BY <3>0
    <3>2. id \in 1..new_id'[f]
      BY <1>1, <1>3, <3>1
    <3> QED
      BY <1>6, <3>1, <3>2
  <2>3. ASSUME NEW k \in 1..n PROVE new[k] \in Used'
    <3>1. new_id[e] + k \in 1..new_id'[e]
      BY <1>1, <1>3
    <3> QED
      BY <1>4, <1>6, <3>1
  <2> QED
    BY <2>1, <2>2, <2>3
<1>11. Pending' = Pending \o new
  <2>1. /\ Pending \in Seq(S) /\ Len(Pending) = Len(drp_queue)
        /\ \A k \in 1..Len(drp_queue) : Pending[k] = Name(drp_queue[k])
    BY <1>1, PendingType
  <2>2. \A k \in 1..n : new[k] \in S
    <3> SUFFICES ASSUME NEW k \in 1..n PROVE new[k] \in S
      OBVIOUS
    <3>1. e \in Endpoints /\ new_id[e] + k \in 0..ID_MAX
      BY <1>1, <1>4
    <3>2. <<e, new_id[e] + k>> \in S
      BY <3>1
    <3>3. new[k] = <<e, new_id[e] + k>>
      BY <1>4
    <3> QED
      BY <3>2, <3>3
  <2>3. new \in Seq(S) /\ Len(new) = n
    BY <2>2, IsASeq DEF NamesOf
  <2>4. /\ Pending \o new \in Seq(S) /\ Len(Pending \o new) = Len(drp_queue) + n
        /\ \A i \in 1..(Len(drp_queue) + n) :
              (Pending \o new)[i] = IF i <= Len(drp_queue) THEN Pending[i]
                                                           ELSE new[i - Len(drp_queue)]
    <3>1. Pending \in Seq(S) /\ new \in Seq(S) /\ Len(Pending) = Len(drp_queue) /\ Len(new) = n
      BY <2>1, <2>3
    <3> HIDE DEF new, S
    <3>2. /\ Pending \o new \in Seq(S) /\ Len(Pending \o new) = Len(Pending) + Len(new)
          /\ \A i \in 1..(Len(Pending) + Len(new)) :
                (Pending \o new)[i] = IF i <= Len(Pending) THEN Pending[i]
                                                           ELSE new[i - Len(Pending)]
      BY <3>1, ConcatProperties
    <3> QED
      BY <3>1, <3>2
  <2>5. /\ drp_queue' \in Seq(Pack) /\ Len(drp_queue') = Len(drp_queue) + n
        /\ \A i \in 1..(Len(drp_queue) + n) :
              drp_queue'[i] = IF i <= Len(drp_queue) THEN drp_queue[i]
                                                     ELSE packs[i - Len(drp_queue)]
    BY <1>1, <1>2, ConcatProperties
  <2>6. Pending' = [k \in 1..(Len(drp_queue) + n) |-> Name(drp_queue'[k])]
    BY <2>5 DEF Pending, Name
  <2>7. ASSUME NEW i \in 1..(Len(drp_queue) + n)
        PROVE  Name(drp_queue'[i]) = (Pending \o new)[i] /\ (Pending \o new)[i] \in S
    <3>1. CASE i <= Len(drp_queue)
      <4>1. i \in 1..Len(drp_queue)
        BY <1>1, <3>1
      <4>2. Pending[i] \in S
        BY <2>1, <4>1, ElementOfSeq
      <4> HIDE DEF new, S
      <4> QED
        BY <2>1, <2>4, <2>5, <3>1, <4>1, <4>2
    <3>2. CASE ~(i <= Len(drp_queue))
      <4>1. i - Len(drp_queue) \in 1..n
        BY <1>1, <3>2
      <4>2. new[i - Len(drp_queue)] = Name(packs[i - Len(drp_queue)])
        BY <4>1 DEF NamesOf
      <4> HIDE DEF new, S
      <4> QED
        BY <2>2, <2>4, <2>5, <3>2, <4>1, <4>2
    <3> QED
      BY <3>1, <3>2
  <2> HIDE DEF new, S
  <2>8. Pending' \in Seq(S) /\ Len(Pending') = Len(drp_queue) + n
    <3>1. Len(drp_queue) + n \in Nat
      BY <1>1
    <3>2. \A i \in 1..(Len(drp_queue) + n) : Name(drp_queue'[i]) \in S
      BY <2>7
    <3>3. [k \in 1..(Len(drp_queue) + n) |-> Name(drp_queue'[k])] \in Seq(S)
      BY <3>1, <3>2, IsASeq
    <3> QED
      BY <2>6, <3>1, <3>3
  <2>9. \A i \in 1..Len(Pending') : Pending'[i] = (Pending \o new)[i]
    BY <2>6, <2>7, <2>8
  <2> QED
    BY <2>4, <2>8, <2>9, SeqEqual
<1> QED
  BY <1>8, <1>9, <1>10, <1>11

\* Nothing is queued, and nothing has a name.
LEMMA ChannelStart == LinkInit => NamesInv
<1> SUFFICES ASSUME LinkInit PROVE NamesInv
  OBVIOUS
<1>1. drp_queue = <<>> /\ up = {} /\ got = {}
  BY DEF LinkInit, Init
<1> QED
  BY <1>1 DEF NamesInv

\* A step that neither adds packs nor delivers any keeps the names.
LEMMA ShrinkNames ==
  ASSUME NamesInv, Shrinks, new_id' = new_id, got' = got, up' \subseteq up
  PROVE  NamesInv'
<1>1. Used' = Used
  BY SameUsed
<1>2. \A k \in 1..Len(drp_queue') : Name(drp_queue'[k]) \in Used
  BY DEF Shrinks, NamesInv
<1> QED
  BY <1>1, <1>2 DEF NamesInv

\* drp_write: the new packs are behind the old ones, and their names are given now.
LEMMA WriteMaps ==
  ASSUME ChannelInv, ClientWrite
  PROVE  /\ NamesInv'
         /\ \E n \in 1..(QUEUE_MAX + 1) : Channel!Write(n)
<1>1. IInv /\ drp_queue \in Seq(Pack) /\ Len(drp_queue) \in Nat /\ QUEUE_MAX \in Nat
  BY LenProperties, DrpAssumption DEF ChannelInv, LinkInv, IInv, QueueInv
<1>2. PICK e \in Endpoints \ ReqEndpoints, packs \in Seq(Pack) :
         /\ pc = "idle" /\ Enqueue(e, packs)
         /\ Len(packs) \in Nat \ {0} /\ new_id[e] + Len(packs) <= ID_MAX
         /\ Len(drp_queue) + Len(packs) <= QUEUE_MAX + 1
         /\ \A k \in 1..Len(packs) : packs[k].endpoint = e /\ packs[k].id = new_id[e] + k
  BY <1>1, WritePacks
<1>3. PICK n \in Nat : n = Len(packs) /\ n \in 1..(QUEUE_MAX + 1)
  BY <1>1, <1>2
<1> DEFINE new == NamesOf(packs, n)
<1>4. /\ new \in [1..n -> ((Endpoints \ ReqEndpoints) \X (1..ID_MAX)) \ Used]
      /\ \A j, k \in 1..n : j # k => new[j] # new[k]
      /\ Pending' = Pending \o new
      /\ Used' = Used \cup {new[k] : k \in 1..n}
  <2>1. /\ \A k \in 1..n : packs[k].endpoint = e /\ packs[k].id = new_id[e] + k
        /\ new_id[e] + n <= ID_MAX /\ Enqueue(e, packs) /\ Len(packs) = n
    BY <1>2, <1>3
  <2> QED
    BY <1>1, <2>1, EnqueueUsed
<1>5. up' = up /\ got' = got /\ pc' = pc /\ drp_queue' = drp_queue \o packs
  BY <1>2 DEF ClientWrite, Enqueue
<1>6. \A k \in 1..Len(drp_queue') : Name(drp_queue'[k]) \in Used'
  <2> SUFFICES ASSUME NEW k \in 1..Len(drp_queue')
               PROVE  Name(drp_queue'[k]) \in Used'
    OBVIOUS
  <2>1. /\ Len(drp_queue') = Len(drp_queue) + n
        /\ drp_queue'[k] = IF k <= Len(drp_queue) THEN drp_queue[k]
                                                  ELSE packs[k - Len(drp_queue)]
    BY <1>1, <1>3, <1>5, ConcatProperties
  <2>2. CASE k <= Len(drp_queue)
    <3>1. Name(drp_queue[k]) \in Used
      BY <1>1, <2>2 DEF ChannelInv, NamesInv
    <3> QED
      BY <1>4, <2>1, <2>2, <3>1
  <2>3. CASE ~(k <= Len(drp_queue))
    <3>1. k - Len(drp_queue) \in 1..n
      BY <1>1, <1>3, <2>1, <2>3
    <3>2. new[k - Len(drp_queue)] = Name(packs[k - Len(drp_queue)])
      BY <3>1 DEF NamesOf
    <3>3. new[k - Len(drp_queue)] \in Used'
      BY <1>4, <3>1
    <3> QED
      BY <2>1, <2>3, <3>2, <3>3
  <2> QED
    BY <2>2, <2>3
<1> HIDE DEF new
<1>7. NamesInv'
  BY <1>4, <1>5, <1>6 DEF ChannelInv, NamesInv
<1>8. Len(Pending) = Len(drp_queue)
  BY <1>1, PendingType
<1>9. UNCHANGED <<got, pc = "recv">>
  BY <1>5
<1>10. Channel!Write(n)
  BY <1>2, <1>3, <1>4, <1>8, <1>9 DEF Channel!Write
<1> QED
  BY <1>3, <1>7, <1>10

\* A datagram that is sent names packs of the queue.
LEMMA SendMaps ==
  ASSUME ChannelInv, ClientSend
  PROVE  NamesInv' /\ UNCHANGED Channel!channelVars
<1>1. /\ pc = "flush" /\ pc' = "idle" /\ drp_queue' = drp_queue /\ new_id' = new_id
      /\ got' = got /\ up' = Carry(up, dgram)
  BY DEF ClientSend, Flush
<1>2. Used' = Used
  BY <1>1, SameUsed
<1>3. Names(dgram) \subseteq Used
  <2> SUFFICES ASSUME NEW k \in 1..Len(dgram)
               PROVE  Name(dgram[k]) \in Used
    BY DEF Names
  <2>1. /\ k \in 1..Len(drp_queue)
        /\ dgram[k].endpoint = drp_queue[k].endpoint /\ dgram[k].id = drp_queue[k].id
    <3>1. Len(dgram) \in Nat /\ Len(drp_queue) \in Nat
      BY LenProperties DEF ChannelInv, LinkInv, IInv, QueueInv, TypeOK
    <3> QED
      BY <1>1, <3>1 DEF ChannelInv, LinkInv, HeadInv, DatagramIsHead
  <2> QED
    BY <2>1 DEF ChannelInv, NamesInv, Name
<1>4. NamesInv'
  BY <1>1, <1>2, <1>3 DEF ChannelInv, NamesInv, Carry
<1>5. Pending' = Pending
  BY <1>1 DEF Pending
<1>6. (pc = "recv")' = (pc = "recv")
  BY <1>1
<1> QED
  BY <1>1, <1>2, <1>4, <1>5, <1>6 DEF Channel!channelVars

\* The daemon takes a datagram: packs arrive behind packs that have arrived.
LEMMA PeerReceiveMaps ==
  ASSUME ChannelInv, LinkInv', PeerReceive
  PROVE  NamesInv' /\ Channel!Arrives
<1>1. PICK d \in up : got' = got \cup Names(d) /\ up' \in Deliver(up, d) /\ UNCHANGED vars
  BY DEF PeerReceive, Names, Name
<1>2. /\ Used' = Used /\ drp_queue' = drp_queue /\ pc' = pc /\ Pending' = Pending
      /\ up' \subseteq up
  BY <1>1, SameUsed DEF vars, Pending, Deliver
<1>3. NamesInv'
  BY <1>1, <1>2 DEF ChannelInv, NamesInv
<1>4. \E more \in SUBSET (Used \ got) : got' = got \cup more
  <2>1. Names(d) \ got \in SUBSET (Used \ got) /\ got' = got \cup (Names(d) \ got)
    BY <1>1 DEF ChannelInv, NamesInv
  <2> QED
    BY <2>1
<1>5. /\ Len(Pending) = Len(drp_queue)
      /\ \A k \in 1..Len(drp_queue) : Pending[k] = Name(drp_queue[k])
  BY PendingType DEF ChannelInv, LinkInv, IInv, QueueInv
<1>6. \A j, k \in 1..Len(Pending) : j < k /\ Pending[k] \in got' => Pending[j] \in got'
  BY <1>2, <1>5 DEF LinkInv, NoneOvertaken
<1>7. UNCHANGED <<Pending, Used, pc = "recv">>
  BY <1>2
<1> QED
  BY <1>3, <1>4, <1>6, <1>7 DEF Channel!Arrives

\* An answer removes a pack that has arrived.
LEMMA HandleMaps ==
  ASSUME ChannelInv, HandlePack, got' = got
  PROVE  \/ \E k \in 1..Len(Pending) : Channel!Acknowledged(k)
         \/ UNCHANGED Channel!channelVars
<1>1. /\ pc = "recv" /\ pc' = pc /\ Used' = Used
      /\ drp_queue \in Seq(Pack) /\ Len(drp_queue) \in Nat
  BY SameUsed, LenProperties DEF HandlePack, ChannelInv, LinkInv, IInv, QueueInv
<1>2. UNCHANGED <<Used, got, pc = "recv">>
  BY <1>1
<1>3. /\ Len(Pending) = Len(drp_queue)
      /\ \A k \in 1..Len(drp_queue) : Pending[k] = Name(drp_queue[k])
  BY <1>1, PendingType
<1>4. Head(rx).endpoint \in ReqEndpoints \/ Name(Head(rx)) \in got
  <2>1. rx # <<>> /\ rx \in Seq(RxPack) /\ Head(rx) = rx[1] /\ 1 \in 1..Len(rx)
    BY LenProperties, EmptySeq DEF HandlePack, ChannelInv, LinkInv, Answers
  <2> QED
    BY <2>1 DEF ChannelInv, LinkInv, Answers
<1>5. CASE drp_queue' = drp_queue
  BY <1>2, <1>5 DEF Pending, Channel!channelVars
<1>6. ASSUME NEW k \in AckedBy(Head(rx)), drp_queue' = Cut(drp_queue, k, k)
      PROVE  k \in 1..Len(Pending) /\ Channel!Acknowledged(k)
  <2>1. k \in 1..Len(drp_queue) /\ Matches(Head(rx), k) /\ k \in k..Len(drp_queue)
    BY <1>1, <1>6 DEF AckedBy
  <2>2. Name(drp_queue[k]) \in got
    BY <1>4, <2>1 DEF Matches, Name, ChannelInv, LinkInv, IdsGrow
  <2>3. Pending' = Channel!Without(k, k)
    BY <1>1, <1>6, <2>1, CutPending
  <2> QED
    BY <1>1, <1>2, <1>3, <2>1, <2>2, <2>3 DEF Channel!Acknowledged
<1> QED
  BY <1>5, <1>6 DEF HandlePack

\* drp_send_check gives packs up.
LEMMA DropMaps ==
  ASSUME ChannelInv, DropWhole \/ DropFragments, got' = got
  PROVE  \E from \in 1..Len(Pending) : \E to \in from..Len(Pending) : Channel!GiveUp(from, to)
<1>1. /\ pc = "send" /\ pc' = pc /\ Used' = Used
      /\ drp_queue \in Seq(Pack) /\ Len(drp_queue) \in Nat
      /\ pos \in 1..Len(drp_queue) /\ pos \in pos..Len(drp_queue)
  BY SameUsed, LenProperties
     DEF DropWhole, DropFragments, AtPack, ChannelInv, LinkInv, IInv, QueueInv, SendInv
<1>2. PICK last \in pos..Len(drp_queue) : drp_queue' = Cut(drp_queue, pos, last)
  <2>1. CASE DropWhole
    BY <1>1, <2>1 DEF DropWhole
  <2>2. CASE DropFragments
    BY <2>2 DEF DropFragments
  <2> QED
    BY <2>1, <2>2
<1>3. Pending' = Channel!Without(pos, last)
  BY <1>1, <1>2, CutPending
<1>4. UNCHANGED <<Used, got, pc = "recv">>
  BY <1>1
<1>5. Len(Pending) = Len(drp_queue)
  BY <1>1, PendingType
<1>6. Channel!GiveUp(pos, last)
  BY <1>1, <1>3, <1>4 DEF Channel!GiveUp
<1> QED
  BY <1>1, <1>2, <1>5, <1>6

\* The rest of the send check, and the timer, change nothing the channel sees.
LEMMA QuietMaps ==
  ASSUME ChannelInv, got' = got,
         AsyncFire \/ Tick \/ StopWaiting \/ StopNoRoom \/ PutPack
  PROVE  UNCHANGED Channel!channelVars
<1>1. IInv /\ Len(drp_queue) \in Nat
  BY LenProperties DEF ChannelInv, LinkInv, IInv, QueueInv
<1>2. Used' = Used
  BY SameUsed DEF AsyncFire, Tick, StopWaiting, StopNoRoom, PutPack, Put
<1>3. pc # "recv" /\ pc' # "recv"
  BY DEF AsyncFire, Tick, StartSendCheck, StopWaiting, StopNoRoom, PutPack, Put, AtPack, Break
<1>4. Pending' = Pending
  <2>1. CASE AsyncFire \/ StopWaiting
    BY <2>1 DEF AsyncFire, StopWaiting, Pending
  <2>2. CASE StopNoRoom
    BY <1>1, <2>2, SentStillFits DEF StopNoRoom, Pending
  <2>3. CASE Tick \/ PutPack
    BY <1>1, <2>3, NamesStay, SamePending
  <2> QED
    BY <2>1, <2>2, <2>3
<1>5. (pc = "recv")' = (pc = "recv")
  BY <1>3
<1> QED
  BY <1>2, <1>4, <1>5 DEF Channel!channelVars

\* handle_drp begins and ends.
LEMMA AnswerMaps ==
  ASSUME got' = got, ReceiveEnd \/ \E d : Receive(d)
  PROVE  Channel!Answer
<1>1. /\ Used' = Used /\ drp_queue' = drp_queue
      /\ (pc = "recv" /\ pc' = "idle") \/ (pc = "idle" /\ pc' = "recv")
  BY SameUsed DEF ReceiveEnd, Receive
<1>2. Pending' = Pending
  BY <1>1 DEF Pending
<1>3. (pc = "recv")' = ~(pc = "recv")
  BY <1>1
<1> QED
  BY <1>1, <1>2, <1>3 DEF Channel!Answer

\* Nothing happens to the client and nothing arrives.
LEMMA RestMaps ==
  ASSUME UNCHANGED <<vars, got>>
  PROVE  UNCHANGED Channel!channelVars
<1>1. drp_queue' = drp_queue /\ new_id' = new_id /\ pc' = pc
  BY DEF vars
<1>2. Pending' = Pending /\ Used' = Used /\ (pc = "recv")' = (pc = "recv")
  BY <1>1 DEF Pending, Used
<1> QED
  BY <1>2 DEF Channel!channelVars

\* The steps that neither write nor send nor deliver to the daemon.
LEMMA OtherNames ==
  ASSUME ChannelInv,
         ClientStep \/ ClientReceive \/ PeerRequest \/ Lose \/ UNCHANGED linkVars
  PROVE  NamesInv'
<1>1. NamesInv /\ LinkInv /\ IInv /\ drp_queue \in Seq(Pack) /\ Len(drp_queue) \in Nat
  BY LenProperties DEF ChannelInv, LinkInv, IInv, QueueInv
<1>2. CASE ClientStep
  <2>1. /\ AsyncFire \/ Tick \/ SendCheckStep \/ HandlePack \/ ReceiveEnd
        /\ got' = got /\ up' = up
    BY <1>2 DEF ClientStep, SendCheckStep
  <2>2. Shrinks /\ new_id' = new_id
    BY <1>1, <2>1, ClientShrinks
  <2> QED
    BY <1>1, <2>1, <2>2, ShrinkNames
<1>3. CASE ClientReceive
  <2>1. drp_queue' = drp_queue /\ new_id' = new_id /\ got' = got /\ up' = up
    BY <1>3 DEF ClientReceive, Receive
  <2>2. Shrinks
    BY <1>1, <2>1, SameNamesShrink
  <2> QED
    BY <1>1, <2>1, <2>2, ShrinkNames
<1>4. CASE PeerRequest \/ Lose \/ UNCHANGED linkVars
  <2>1. UNCHANGED <<vars, got>> /\ up' \subseteq up
    BY <1>4 DEF PeerRequest, Lose, linkVars
  <2>2. Shrinks
    BY <1>1, <2>1, ClientRests
  <2>3. new_id' = new_id
    BY <2>1 DEF vars
  <2> QED
    BY <1>1, <2>1, <2>2, <2>3, ShrinkNames
<1> QED
  BY <1>2, <1>3, <1>4

\* Every step of client, network and daemon is one of the channel, or none.
LEMMA StepMaps ==
  ASSUME ChannelInv, LinkInv', [LinkNext]_linkVars
  PROVE  NamesInv' /\ [Channel!ChannelNext]_Channel!channelVars
<1>1. CASE ClientStep
  <2>1. got' = got
    BY <1>1 DEF ClientStep
  <2>2. NamesInv'
    BY <1>1, OtherNames
  <2>3. CASE AsyncFire \/ Tick \/ StopWaiting \/ StopNoRoom \/ PutPack
    BY <2>1, <2>2, <2>3, QuietMaps
  <2>4. CASE DropWhole \/ DropFragments
    BY <2>1, <2>2, <2>4, DropMaps DEF Channel!ChannelNext
  <2>5. CASE HandlePack
    BY <2>1, <2>2, <2>5, HandleMaps DEF Channel!ChannelNext
  <2>6. CASE ReceiveEnd
    BY <2>1, <2>2, <2>6, AnswerMaps DEF Channel!ChannelNext
  <2> QED
    BY <1>1, <2>3, <2>4, <2>5, <2>6 DEF ClientStep
<1>2. CASE ClientWrite
  BY <1>2, WriteMaps DEF Channel!ChannelNext
<1>3. CASE ClientSend
  BY <1>3, SendMaps
<1>4. CASE ClientReceive
  <2>1. NamesInv'
    BY <1>4, OtherNames
  <2>2. Channel!Answer
    BY <1>4, AnswerMaps DEF ClientReceive
  <2> QED
    BY <2>1, <2>2 DEF Channel!ChannelNext
<1>5. CASE PeerReceive
  BY <1>5, PeerReceiveMaps DEF Channel!ChannelNext
<1>6. CASE PeerRequest \/ Lose \/ UNCHANGED linkVars
  <2>1. NamesInv'
    BY <1>6, OtherNames
  <2>2. UNCHANGED <<vars, got>>
    BY <1>6 DEF PeerRequest, Lose, linkVars
  <2> QED
    BY <2>1, <2>2, RestMaps
<1> QED
  BY <1>1, <1>2, <1>3, <1>4, <1>5, <1>6 DEF LinkNext

\* Client, network and daemon implement the channel: written packs get names that never
\* come back, arrive in order, and leave the queue as arrived only if they have.
THEOREM LinkIsChannel == LinkSpec => ImplementsChannel
<1>1. LinkInit => NamesInv /\ Channel!ChannelInit
  <2> SUFFICES ASSUME LinkInit PROVE Channel!ChannelInit
    BY ChannelStart
  <2>1. drp_queue = <<>> /\ new_id = [e \in Endpoints |-> 0] /\ pc = "idle" /\ got = {}
    BY DEF LinkInit, Init
  <2>2. Pending = <<>>
    BY <2>1 DEF Pending
  <2>3. Used = {}
    BY <2>1 DEF Used
  <2>4. (pc = "recv") = FALSE
    BY <2>1
  <2> QED
    BY <2>1, <2>2, <2>3, <2>4 DEF Channel!ChannelInit
<1>2. /\ LinkInv /\ LinkInv' /\ NamesInv /\ [LinkNext]_linkVars
      => NamesInv' /\ [Channel!ChannelNext]_Channel!channelVars
  BY StepMaps DEF ChannelInv
<1> QED
  BY LinkInductive, <1>1, <1>2, PTL DEF LinkSpec, ImplementsChannel, Channel!ChannelSpec

\* The client keeps its limits and the order of its queue whatever daemon and network do.
THEOREM ClientInLink ==
  LinkSpec => [](TypeOK /\ WithinLimits /\ InFlightInOrder /\ OneOutstanding)
<1>1. LinkInv => TypeOK /\ WithinLimits /\ InFlightInOrder /\ OneOutstanding
  BY SentStillFits
     DEF LinkInv, IInv, QueueInv, SameTimeout, NeverOversize, WithinLimits, InFlightInOrder,
         OneOutstanding
<1> QED
  BY LinkInductive, <1>1, PTL

(***************************************************************************)
(* The client alone.                                                       *)
(***************************************************************************)
LEMMA HeadInductive == Spec => [](IInv /\ HeadInv)
<1>1. Init => IInv /\ HeadInv
  BY InitIInv, OutsideHead DEF Init, HeadInv, DatagramIsHead
<1>2. IInv /\ HeadInv /\ [Next]_vars => (IInv /\ HeadInv)'
  <2> SUFFICES ASSUME IInv, HeadInv, [Next]_vars
               PROVE  IInv' /\ HeadInv'
    OBVIOUS
  <2>1. IInv'
    BY StepIInv
  <2>2. CASE AsyncFire \/ Tick
    BY <2>1, <2>2, LoopHead
  <2>3. CASE SendCheckStep
    BY <2>1, <2>3, SendCheckHead
  <2>4. CASE \E d \in RxDatagrams : Receive(d)
    BY <2>1, <2>4, QuietHead, DrpAssumption
  <2>5. CASE UNCHANGED vars
    BY <2>1, <2>5 DEF vars, HeadInv, DatagramIsHead
  <2> QED
    BY <2>1, <2>2, <2>3, <2>4, <2>5, QuietHead DEF Next
<1> QED
  BY <1>1, <1>2, PTL DEF Spec

\* drp_send_check: the datagram names the head of the queue, pack by pack, and
\* the packs it names wait for their timeout.
THEOREM DatagramCopiesHead == Spec => []DatagramIsHead
<1>1. HeadInv => DatagramIsHead
  BY DEF HeadInv
<1> QED
  BY HeadInductive, <1>1, PTL

\* New packs go behind the old ones.
LEMMA WriteLeaves ==
  ASSUME IInv, NEW k \in 1..Len(drp_queue),
         \/ \E e \in Endpoints, length \in Lengths : WriteLong(e, length)
         \/ \E e \in Endpoints, length \in Lengths, flags \in {0, 2} :
               WriteSingle(e, length, flags)
  PROVE  \E m \in 1..Len(drp_queue') : drp_queue'[m] = drp_queue[k]
<1>1. ASSUME NEW e, NEW S, NEW packs \in Seq(S), Enqueue(e, packs)
      PROVE  k \in 1..Len(drp_queue') /\ drp_queue'[k] = drp_queue[k]
  <2>1. /\ drp_queue \in Seq(Pack) /\ Len(drp_queue) \in Nat /\ Len(packs) \in Nat
        /\ drp_queue' = drp_queue \o packs
    BY <1>1, LenProperties DEF IInv, QueueInv, Enqueue
  <2> QED
    BY <2>1
<1>2. ASSUME NEW e \in Endpoints, NEW length \in Lengths, WriteLong(e, length)
      PROVE  k \in 1..Len(drp_queue') /\ drp_queue'[k] = drp_queue[k]
  <2> DEFINE n == FragCount(length)
             packs == [j \in 1..n |-> Fragment(e, length, j)]
             S == {Fragment(e, length, j) : j \in 1..n}
  <2>1. n \in Nat
    BY <1>2, FragmentLengths, DrpAssumption DEF WriteLong
  <2>2. Enqueue(e, packs)
    BY <1>2 DEF WriteLong
  <2>3. \A j \in 1..n : Fragment(e, length, j) \in S
    OBVIOUS
  <2> HIDE DEF n, S
  <2>4. packs \in Seq(S)
    BY <2>1, <2>3, IsASeq
  <2> HIDE DEF packs
  <2> QED
    BY <1>1, <2>2, <2>4
<1>3. ASSUME NEW e, NEW length, NEW flags, WriteSingle(e, length, flags)
      PROVE  k \in 1..Len(drp_queue') /\ drp_queue'[k] = drp_queue[k]
  <2> DEFINE p == NewPack(e, IdAfter(new_id[e], 1), IF flags = 0 THEN "NOACK" ELSE "FULL",
                          length, IF flags = 0 THEN 1 ELSE TRY_TIMES)
  <2>1. Enqueue(e, <<p>>)
    BY <1>3 DEF WriteSingle
  <2> HIDE DEF p
  <2>2. <<p>> \in Seq({p})
    OBVIOUS
  <2> QED
    BY <1>1, <2>1, <2>2
<1> QED
  BY <1>2, <1>3

\* What a step of the client may take from the queue.
MayLeave(k) ==
    drp_queue[k].tcf = "FULL" =>
        \/ drp_queue[k].try_times = 0
        \/ pc = "recv" /\ rx # <<>> /\ Matches(Head(rx), k)

Stays(k) == \E m \in 1..Len(drp_queue') : Name(drp_queue'[m]) = Name(drp_queue[k])

\* drp_send_check gives up packs out of tries, and fragments.
LEMMA DropTakes ==
  ASSUME IInv, DropWhole \/ DropFragments, NEW k \in 1..Len(drp_queue)
  PROVE  MayLeave(k) \/ Stays(k)
<1>1. /\ pos \in 1..Len(drp_queue) /\ pos \in pos..Len(drp_queue)
      /\ drp_queue \in Seq(Pack) /\ Len(drp_queue) \in Nat /\ ~(Cur.try_times > 0)
  BY LenProperties DEF DropWhole, DropFragments, AtPack, IInv, QueueInv, SendInv
<1>2. PICK last \in pos..Len(drp_queue) :
        /\ drp_queue' = Cut(drp_queue, pos, last)
        /\ last = pos \/ \A j \in pos..last : drp_queue[j].tcf # "FULL"
  <2>1. CASE DropWhole
    BY <1>1, <2>1 DEF DropWhole
  <2>2. CASE DropFragments
    BY <2>2 DEF DropFragments
  <2> QED
    BY <2>1, <2>2
<1>3. CASE k \notin pos..last
  BY <1>1, <1>2, <1>3, CutLeaves DEF Stays
<1>4. CASE k = pos
  <2>1. Cur \in Pack /\ Cur = drp_queue[k]
    BY <1>1, <1>4, ElementOfSeq DEF Cur
  <2>2. Cur.try_times \in 0..TRY_TIMES
    BY <2>1 DEF Pack
  <2>3. Cur.try_times = 0
    BY <1>1, <2>2, DrpAssumption
  <2> QED
    BY <2>1, <2>3 DEF MayLeave
<1>5. CASE k \in pos..last /\ k # pos
  BY <1>1, <1>2, <1>5 DEF MayLeave
<1> QED
  BY <1>3, <1>4, <1>5

\* handle_drp takes the pack with the endpoint and id of the peer's.
LEMMA AckTakes ==
  ASSUME IInv, HandlePack, NEW k \in 1..Len(drp_queue)
  PROVE  MayLeave(k) \/ Stays(k)
<1>1. pc = "recv" /\ rx # <<>> /\ drp_queue \in Seq(Pack) /\ Len(drp_queue) \in Nat
  BY LenProperties DEF HandlePack, IInv, QueueInv
<1>2. CASE drp_queue' = drp_queue
  BY <1>2 DEF Stays
<1>3. ASSUME NEW i \in AckedBy(Head(rx)), drp_queue' = Cut(drp_queue, i, i)
      PROVE  MayLeave(k) \/ Stays(k)
  <2>1. i \in 1..Len(drp_queue) /\ i \in i..Len(drp_queue) /\ Matches(Head(rx), i)
    BY <1>1 DEF AckedBy
  <2>2. CASE k = i
    BY <1>1, <2>1, <2>2 DEF MayLeave
  <2>3. CASE k # i
    <3>1. k \notin i..i
      BY <2>1, <2>3
    <3> QED
      BY <1>1, <1>3, <2>1, <3>1, CutLeaves DEF Stays
  <2> QED
    BY <2>2, <2>3
<1> QED
  BY <1>2, <1>3 DEF HandlePack

\* No step of the client takes another pack.
LEMMA StepTakes ==
  ASSUME IInv, [Next]_vars, NEW k \in 1..Len(drp_queue)
  PROVE  MayLeave(k) \/ Stays(k)
<1>1. CASE drp_queue' = drp_queue
  BY <1>1 DEF Stays
<1>2. CASE Tick \/ PutPack
  BY <1>2, NamesStay DEF Stays
<1>3. CASE \/ \E e \in Endpoints, length \in Lengths : WriteLong(e, length)
           \/ \E e \in Endpoints, length \in Lengths, flags \in {0, 2} :
                 WriteSingle(e, length, flags)
  BY <1>3, WriteLeaves DEF Stays
<1>4. CASE DropWhole \/ DropFragments
  BY <1>4, DropTakes
<1>5. CASE HandlePack
  BY <1>5, AckTakes
<1>6. CASE StopNoRoom
  BY <1>1, <1>6, SentStillFits DEF StopNoRoom
<1>7. CASE \/ AsyncFire \/ StopWaiting \/ Flush \/ ReceiveEnd
           \/ \E d \in RxDatagrams : Receive(d)
           \/ UNCHANGED vars
  BY <1>1, <1>7 DEF AsyncFire, StopWaiting, Flush, ReceiveEnd, Receive, vars
<1> QED
  BY <1>2, <1>3, <1>4, <1>5, <1>6, <1>7 DEF Next, SendCheckStep

\* A whole acknowledged message leaves the queue out of tries or acknowledged.
THEOREM FullPacksLeaveJustly == Spec => FullLeavesJustly
<1> DEFINE Justly ==
      \A e \in Endpoints, id \in 0..ID_MAX :
         Queued(e, id) /\ ~Queued(e, id)' =>
            \A k \in 1..Len(drp_queue) :
                /\ drp_queue[k].endpoint = e /\ drp_queue[k].id = id
                /\ drp_queue[k].tcf = "FULL"
                => \/ drp_queue[k].try_times = 0
                   \/ pc = "recv" /\ rx # <<>> /\ Matches(Head(rx), k)
<1>1. ASSUME IInv, [Next]_vars
      PROVE  Justly
  <2> SUFFICES ASSUME NEW e \in Endpoints, NEW id \in 0..ID_MAX, ~Queued(e, id)',
                      NEW k \in 1..Len(drp_queue),
                      drp_queue[k].endpoint = e, drp_queue[k].id = id,
                      drp_queue[k].tcf = "FULL"
               PROVE  \/ drp_queue[k].try_times = 0
                      \/ pc = "recv" /\ rx # <<>> /\ Matches(Head(rx), k)
    OBVIOUS
  <2>1. ~Stays(k)
    BY DEF Queued, Stays, Name
  <2>2. MayLeave(k)
    BY <1>1, <2>1, StepTakes
  <2> QED
    BY <2>2 DEF MayLeave
<1>2. IInv /\ [Next]_vars => [Justly]_vars
  BY <1>1
<1> QED
  BY Inductive, <1>2, PTL DEF Spec, FullLeavesJustly
=============================================================================
