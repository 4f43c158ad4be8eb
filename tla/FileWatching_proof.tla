-------------------------- MODULE FileWatching_proof ---------------------------
(***************************************************************************)
(* Proofs about the two halves of fs.watch: FsEventRing, for every         *)
(* capacity and every number of pushes, and FsWatch, for any set of        *)
(* watchers and any room of their rings.                                   *)
(***************************************************************************)
EXTENDS FsEventRing, FsWatch, SequenceTheorems, TLAPS

-------------------------------------------------------------------------------
(* The ring: the arithmetic of the indices.                                 *)

\* Succ wraps at the last index, so it needs no division.
LEMMA SuccWraps ==
  ASSUME NEW i \in Index
  PROVE  /\ Succ(i) = IF i + 1 = Capacity THEN 0 ELSE i + 1
         /\ Succ(i) \in Index
<1>1. Capacity \in Nat /\ Capacity >= 2
  BY CapacityAssumption
<1>2. CASE i + 1 = Capacity
  BY <1>1, <1>2 DEF Succ, Index
<1>3. CASE i + 1 # Capacity
  BY <1>1, <1>3 DEF Succ, Index
<1> QED BY <1>2, <1>3

-------------------------------------------------------------------------------
(* Type correctness.                                                        *)

LEMMA InitTypeOK == RingInit => TypeOK
<1> SUFFICES ASSUME RingInit PROVE TypeOK
  OBVIOUS
<1> USE CapacityAssumption, MaxPushesAssumption DEF RingInit
<1>1. ring \in [Index -> Slot]
  <2>1. Empty \in Slot
    BY DEF Empty, EventOf, Slot
  <2> QED BY <2>1
<1>2. head \in Index /\ tail \in Index
  BY DEF Index
<1>3. received \in Seq(Slot)
  OBVIOUS
<1> QED BY <1>1, <1>2, <1>3 DEF TypeOK

LEMMA NextTypeOK == TypeOK /\ [RingNext]_watcherVars => TypeOK'
<1> SUFFICES ASSUME TypeOK, [RingNext]_watcherVars
             PROVE  TypeOK'
  OBVIOUS
<1> USE MaxPushesAssumption DEF TypeOK
<1>1. CASE BeginPush
  BY <1>1 DEF BeginPush, consumerVars
<1>2. CASE MarkOverflow
  <2>1. Len(received) \in Nat
    OBVIOUS
  <2> QED BY <1>2, <2>1 DEF MarkOverflow, consumerVars
<1>3. CASE WriteType
  BY <1>3 DEF WriteType, consumerVars, Slot
<1>4. CASE WriteFilename
  BY <1>4 DEF WriteFilename, consumerVars, Slot
<1>5. CASE Publish
  BY <1>5, SuccWraps DEF Publish, consumerVars
<1>6. CASE Wake
  BY <1>6 DEF Wake, consumerVars
<1>7. CASE ConsumerSleeps \/ ConsumerWoken \/ ConsumerTimedOut \/ CheckEmpty
  BY <1>7 DEF ConsumerSleeps, ConsumerWoken, ConsumerTimedOut, CheckEmpty, ringVars, producerVars
<1>8. CASE Take
  <2>1. ring[head] \in Slot
    OBVIOUS
  <2>2. [ring[head] EXCEPT !.filename = 0] = [type |-> ring[head].type, filename |-> 0]
    BY <2>1 DEF Slot
  <2>3. 0 \in 0 .. MaxPushes
    OBVIOUS
  <2>4. [type |-> ring[head].type, filename |-> 0] \in Slot
    BY <2>1, <2>3 DEF Slot
  <2>5. [ring EXCEPT ![head].filename = 0] \in [Index -> Slot]
    BY <2>2, <2>4
  <2> QED BY <1>8, <2>1, <2>5 DEF Take, producerVars
<1>9. CASE Advance
  BY <1>9, SuccWraps DEF Advance, producerVars
<1>10. CASE ExchangeOverflow
  <2>1. OverflowMark \in Slot
    BY DEF OverflowMark, EventOf, Slot
  <2>2. received' \in Seq(Slot)
    BY <1>10, <2>1 DEF ExchangeOverflow
  <2> QED BY <1>10, <2>2 DEF ExchangeOverflow, producerVars
<1>11. CASE UNCHANGED watcherVars
  BY <1>11 DEF watcherVars
<1> QED
  BY <1>1, <1>2, <1>3, <1>4, <1>5, <1>6, <1>7, <1>8, <1>9, <1>10, <1>11
     DEF RingNext, Producer, Consumer, Drain

\* Every variable keeps its type: the indices stay inside the ring, so no slot
\* outside the vector is touched whatever the capacity.
THEOREM TypeCorrect == RingSpec => []TypeOK
<1>1. QED BY InitTypeOK, NextTypeOK, PTL DEF RingSpec

-------------------------------------------------------------------------------
(* The wake protocol.                                                       *)

LEMMA NextNoSleep == TypeOK /\ NoSleepOnEvents /\ [RingNext]_watcherVars => NoSleepOnEvents'
<1> SUFFICES ASSUME TypeOK, NoSleepOnEvents, [RingNext]_watcherVars
             PROVE  NoSleepOnEvents'
  OBVIOUS
<1> USE DEF NoSleepOnEvents, consumerVars, producerVars, ringVars
<1>1. CASE Producer
  <2>1. CASE BeginPush \/ MarkOverflow \/ WriteType \/ WriteFilename
    BY <2>1 DEF BeginPush, MarkOverflow, WriteType, WriteFilename
  <2>2. CASE Publish
    BY <2>2 DEF Publish
  <2>3. CASE Wake
    BY <2>3 DEF Wake
  <2> QED BY <1>1, <2>1, <2>2, <2>3 DEF Producer
<1>2. CASE Consumer
  <2>1. CASE ConsumerSleeps \/ ConsumerWoken \/ ConsumerTimedOut
    BY <2>1 DEF ConsumerSleeps, ConsumerWoken, ConsumerTimedOut
  <2>2. CASE CheckEmpty
    BY <2>2 DEF CheckEmpty
  <2>3. CASE Take \/ Advance \/ ExchangeOverflow
    BY <2>3 DEF Take, Advance, ExchangeOverflow
  <2> QED BY <1>2, <2>1, <2>2, <2>3 DEF Consumer, Drain
<1>3. CASE UNCHANGED watcherVars
  BY <1>3 DEF watcherVars
<1> QED BY <1>1, <1>2, <1>3 DEF RingNext

\* No lost wakeup: whenever the JS thread is in its wait, or past drain's last
\* look at the ring, a published event has raised the flag or is about to.
THEOREM NoLostWakeup == RingSpec => []NoSleepOnEvents
<1>1. RingInit => NoSleepOnEvents
  BY DEF RingInit, NoSleepOnEvents
<1> QED BY <1>1, TypeCorrect, NextNoSleep, PTL DEF RingSpec

-------------------------------------------------------------------------------
(* Losses are reported.                                                     *)

\* A loss was recorded at a point of the stream that has been reached.
LossesPast == \A d \in lost : d[2] <= Len(received)

LossInv == LossesPast /\ DropsReported

LEMMA NextLossInv == TypeOK /\ LossInv /\ [RingNext]_watcherVars => LossInv'
<1> SUFFICES ASSUME TypeOK, LossInv, [RingNext]_watcherVars
             PROVE  LossInv'
  OBVIOUS
<1> USE DEF LossInv, LossesPast, DropsReported, consumerVars, producerVars, ringVars
<1>1. Len(received) \in Nat /\ \A d \in lost : d[2] \in Nat
  BY DEF TypeOK
<1>2. CASE MarkOverflow
  BY <1>1, <1>2 DEF MarkOverflow
<1>3. CASE Take
  BY <1>1, <1>3 DEF Take, TypeOK
<1>4. CASE ExchangeOverflow
  <2>1. CASE overflow
    <3>1. /\ Len(received') = Len(received) + 1
          /\ received'[Len(received) + 1] = OverflowMark
      BY <1>4, <2>1 DEF ExchangeOverflow, TypeOK
    <3> QED BY <1>1, <1>4, <2>1, <3>1 DEF ExchangeOverflow
  <2>2. CASE ~overflow
    BY <1>4, <2>2 DEF ExchangeOverflow
  <2> QED BY <2>1, <2>2
<1>5. CASE BeginPush \/ WriteType \/ WriteFilename \/ Publish \/ Wake
  BY <1>5 DEF BeginPush, WriteType, WriteFilename, Publish, Wake
<1>6. CASE ConsumerSleeps \/ ConsumerWoken \/ ConsumerTimedOut \/ CheckEmpty \/ Advance
  BY <1>6 DEF ConsumerSleeps, ConsumerWoken, ConsumerTimedOut, CheckEmpty, Advance
<1>7. CASE UNCHANGED watcherVars
  BY <1>7 DEF watcherVars
<1> QED
  BY <1>2, <1>3, <1>4, <1>5, <1>6, <1>7 DEF RingNext, Producer, Consumer, Drain

\* A dropped event leaves the flag up or an Error event behind it in the stream,
\* however the drop and the drain interleave.
THEOREM LossesReported == RingSpec => []DropsReported
<1>1. RingInit => LossInv
  BY DEF RingInit, LossInv, LossesPast, DropsReported
<1>2. LossInv => DropsReported
  BY DEF LossInv
<1> QED BY <1>1, <1>2, TypeCorrect, NextLossInv, PTL DEF RingSpec

-------------------------------------------------------------------------------
(* Order: each event is handed out whole, once, in turn.                    *)

\* How far ahead of the index h the index i is, going round the ring.
Dist(h, i) == IF i >= h THEN i - h ELSE i - h + Capacity

\* The slots the consumer has yet to give back, and the one it already copied.
Live(i) == Dist(head, i) < Dist(head, tail)
Taken(i) == i = head /\ cpc = "advance"

\* The event begun has not been published.
Pushing == ppc \in {"full", "type", "filename", "publish"}

\* An event published or received is no newer than the latest call.
Old(k) == k <= begun /\ (Pushing => k < begun)

\* The producer writes a slot that is not live, in two halves.
WriterInv == /\ ppc # "idle" => begun >= 1
             /\ ppc \in {"type", "filename", "publish"} => Succ(tail) # head
             /\ ppc \in {"filename", "publish"} => ring[tail].type = begun
             /\ ppc = "publish" => ring[tail].filename = begun

\* The consumer moves a slot out only when one is live.
ReaderInv == cpc \in {"take", "advance"} => head # tail

SlotsWhole == \A i \in Index : Live(i) =>
                 /\ ring[i].type >= 1
                 /\ ~Taken(i) => ring[i].filename = ring[i].type

SlotsOrdered == \A i, j \in Index :
                   Live(i) /\ Live(j) /\ Dist(head, i) < Dist(head, j)
                      => ring[i].type < ring[j].type

SlotsOld == \A i \in Index : Live(i) => Old(ring[i].type)

ReceivedOld == \A n \in 1 .. Len(received) : Old(received[n].type)

ReceivedFirst == \A n \in 1 .. Len(received) : \A i \in Index :
                    Live(i) /\ ~Taken(i) => received[n].type < ring[i].type

OrderInv == /\ WriterInv
            /\ ReaderInv
            /\ SlotsWhole
            /\ SlotsOrdered
            /\ SlotsOld
            /\ ReceivedOld
            /\ ReceivedFirst
            /\ InOrder

\* Going round the ring from head, every index is met once.
LEMMA DistProps ==
  ASSUME NEW h \in Index, NEW i \in Index
  PROVE  /\ Dist(h, i) \in 0 .. Capacity - 1
         /\ Dist(h, i) = 0 <=> i = h
         /\ \A j \in Index : Dist(h, i) = Dist(h, j) => i = j
  BY CapacityAssumption DEF Index, Dist

\* Moving tail on makes exactly the old tail live.
LEMMA DistTail ==
  ASSUME NEW h \in Index, NEW t \in Index, Succ(t) # h
  PROVE  Dist(h, Succ(t)) = Dist(h, t) + 1
  BY CapacityAssumption, SuccWraps DEF Index, Dist

\* Moving head on brings every index but the old head one step nearer.
LEMMA DistHead ==
  ASSUME NEW h \in Index, NEW i \in Index, i # h
  PROVE  Dist(Succ(h), i) = Dist(h, i) - 1
  BY CapacityAssumption, SuccWraps DEF Index, Dist

\* Moving head on puts the old head last.
LEMMA DistOldHead ==
  ASSUME NEW h \in Index
  PROVE  Dist(Succ(h), h) = Capacity - 1
  BY CapacityAssumption, SuccWraps DEF Index, Dist

LEMMA TypedSlots ==
  ASSUME TypeOK
  PROVE  /\ ring \in [Index -> Slot] /\ head \in Index /\ tail \in Index
         /\ begun \in Nat /\ received \in Seq(Slot) /\ Len(received) \in Nat
         /\ \A i \in Index : ring[i].type \in Nat /\ ring[i].filename \in Nat
         /\ \A n \in 1 .. Len(received) : received[n].type \in Nat
<1>1. 0 .. MaxPushes \subseteq Nat
  BY MaxPushesAssumption
<1>2. \A s \in Slot : s.type \in Nat /\ s.filename \in Nat
  BY <1>1 DEF Slot
<1>3. \A n \in 1 .. Len(received) : received[n] \in Slot
  BY DEF TypeOK
<1> QED BY <1>1, <1>2, <1>3 DEF TypeOK

\* The producer's writes, and the steps that leave the ring alone.
LEMMA ProducerOrder == TypeOK /\ OrderInv /\ Producer => OrderInv'
<1> SUFFICES ASSUME TypeOK, OrderInv, Producer
             PROVE  OrderInv'
  OBVIOUS
<1>0. /\ ring \in [Index -> Slot] /\ head \in Index /\ tail \in Index
      /\ begun \in Nat /\ received \in Seq(Slot) /\ Len(received) \in Nat
      /\ \A i \in Index : ring[i].type \in Nat /\ ring[i].filename \in Nat
      /\ \A n \in 1 .. Len(received) : received[n].type \in Nat
  BY TypedSlots
<1>01. ~Live(tail)
  BY <1>0, DistProps DEF Live
<1> USE DEF OrderInv, consumerVars
<1>1. CASE BeginPush
  BY <1>0, <1>1 DEF BeginPush, WriterInv, ReaderInv, SlotsWhole, SlotsOrdered, SlotsOld,
       ReceivedOld, ReceivedFirst, InOrder, Live, Taken, Pushing, Old
<1>2. CASE MarkOverflow \/ Wake
  BY <1>0, <1>2 DEF MarkOverflow, Wake, WriterInv, ReaderInv, SlotsWhole, SlotsOrdered,
       SlotsOld, ReceivedOld, ReceivedFirst, InOrder, Live, Taken, Pushing, Old
<1>3. CASE WriteType \/ WriteFilename
  <2>1. /\ \A i \in Index : Live(i) => ring'[i] = ring[i]
        /\ \A i \in Index : Live(i)' <=> Live(i)
        /\ \A i \in Index : Taken(i)' <=> Taken(i)
        /\ Pushing /\ Pushing'
        /\ UNCHANGED <<head, tail, begun, cpc, received>>
    BY <1>0, <1>01, <1>3 DEF WriteType, WriteFilename, Live, Taken, Pushing
  <2>2. WriterInv'
    <3>1. CASE WriteType
      <4>1. ring'[tail].type = begun
        BY <1>0, <3>1 DEF WriteType, Slot
      <4> QED BY <3>1, <4>1 DEF WriteType, WriterInv
    <3>2. CASE WriteFilename
      <4>1. ring'[tail].type = ring[tail].type /\ ring'[tail].filename = begun
        BY <1>0, <3>2 DEF WriteFilename, Slot
      <4> QED BY <3>2, <4>1 DEF WriteFilename, WriterInv
    <3> QED BY <1>3, <3>1, <3>2
  <2>3. (ReaderInv /\ ReceivedOld /\ InOrder)'
    BY <2>1 DEF ReaderInv, ReceivedOld, InOrder, Old
  <2>4. (SlotsWhole /\ SlotsOrdered /\ SlotsOld /\ ReceivedFirst)'
    BY <2>1 DEF SlotsWhole, SlotsOrdered, SlotsOld, ReceivedFirst, Old
  <2> QED BY <2>2, <2>3, <2>4
<1>4. CASE Publish
  <2>1. /\ \A i \in Index : Live(i)' <=> Live(i) \/ i = tail
        /\ UNCHANGED <<ring, head, begun, cpc, received>>
        /\ Pushing /\ ~Pushing'
        /\ tail' # head
    BY <1>0, <1>4, DistProps, DistTail, SuccWraps DEF Publish, Live, Pushing, WriterInv
  <2>2. ring[tail].type = begun /\ ring[tail].filename = begun /\ begun >= 1
    BY <1>4 DEF Publish, WriterInv
  <2>3. (WriterInv /\ ReaderInv /\ ReceivedOld /\ InOrder)'
    BY <1>0, <1>4, <2>1 DEF Publish, WriterInv, ReaderInv, ReceivedOld, InOrder, Old
  <2>4. (SlotsWhole /\ SlotsOld)'
    BY <1>0, <2>1, <2>2 DEF SlotsWhole, SlotsOld, Old, Taken
  <2>5. SlotsOrdered'
    <3>1. \A i \in Index : Live(i) => Dist(head, i) < Dist(head, tail)
      BY DEF Live
    <3>2. Dist(head, tail) \in Int /\ \A i \in Index : Dist(head, i) \in Int
      BY <1>0, DistProps
    <3> QED BY <1>0, <2>1, <2>2, <3>1, <3>2 DEF SlotsOrdered, SlotsOld, Old
  <2>6. ReceivedFirst'
    BY <1>0, <2>1, <2>2 DEF ReceivedFirst, ReceivedOld, Old, Taken
  <2> QED BY <2>3, <2>4, <2>5, <2>6
<1> QED BY <1>1, <1>2, <1>3, <1>4 DEF Producer

\* The drain, the wait, and the steps that leave everything alone.
LEMMA ConsumerOrder == TypeOK /\ OrderInv /\ (Consumer \/ UNCHANGED watcherVars) => OrderInv'
<1> SUFFICES ASSUME TypeOK, OrderInv, Consumer \/ UNCHANGED watcherVars
             PROVE  OrderInv'
  OBVIOUS
<1>0. /\ ring \in [Index -> Slot] /\ head \in Index /\ tail \in Index
      /\ begun \in Nat /\ received \in Seq(Slot) /\ Len(received) \in Nat
      /\ \A i \in Index : ring[i].type \in Nat /\ ring[i].filename \in Nat
      /\ \A n \in 1 .. Len(received) : received[n].type \in Nat
  BY TypedSlots
<1> USE DEF OrderInv, producerVars, ringVars
<1>1. CASE ConsumerSleeps \/ ConsumerWoken \/ ConsumerTimedOut \/ CheckEmpty \/ UNCHANGED watcherVars
  BY <1>0, <1>1 DEF ConsumerSleeps, ConsumerWoken, ConsumerTimedOut, CheckEmpty, watcherVars, consumerVars, WriterInv, ReaderInv,
       SlotsWhole, SlotsOrdered, SlotsOld, ReceivedOld, ReceivedFirst, InOrder, Live, Taken,
       Pushing, Old
<1>2. CASE Take
  <2> DEFINE m == Len(received) + 1
  <2>1. /\ Live(head) /\ ~Taken(head) /\ Taken(head)'
        /\ \A i \in Index : Live(i)' <=> Live(i)
        /\ \A i \in Index : ~Taken(i)' <=> i # head
        /\ \A i \in Index : ~Taken(i)
        /\ UNCHANGED <<head, tail, begun, ppc>>
    <3>1. Dist(head, head) = 0 /\ Dist(head, tail) \in Nat /\ Dist(head, tail) # 0
      BY <1>0, <1>2, DistProps DEF Take, ReaderInv, Index
    <3> QED BY <1>0, <1>2, <3>1 DEF Take, Live, Taken
  <2>2. /\ Len(received') = m
        /\ received'[m] = ring[head]
        /\ \A n \in 1 .. Len(received) : received'[n] = received[n]
        /\ \A n \in 1 .. Len(received') : n = m \/ n \in 1 .. Len(received)
    BY <1>0, <1>2 DEF Take
  <2>3. /\ \A i \in Index : ring'[i].type = ring[i].type
        /\ \A i \in Index : i # head => ring'[i] = ring[i]
    BY <1>0, <1>2 DEF Take, Slot
  <2>4. /\ ring[head].type >= 1
        /\ ring[head].filename = ring[head].type
        /\ Old(ring[head].type)
        /\ \A n \in 1 .. Len(received) : received[n].type < ring[head].type
        /\ \A i \in Index : Live(i) /\ i # head => ring[head].type < ring[i].type
    <3>1. \A i \in Index : i # head => Dist(head, head) < Dist(head, i)
      BY <1>0, DistProps DEF Index
    <3> QED BY <1>0, <2>1, <3>1 DEF SlotsWhole, SlotsOld, ReceivedFirst, SlotsOrdered
  <2>5. WriterInv' /\ ReaderInv'
    <3>1. tail # head
      BY <1>2 DEF Take, ReaderInv
    <3> QED BY <1>0, <1>2, <2>3, <3>1 DEF Take, WriterInv, ReaderInv
  <2>6. (SlotsWhole /\ SlotsOrdered /\ SlotsOld)'
    BY <2>1, <2>3 DEF SlotsWhole, SlotsOrdered, SlotsOld, Old, Pushing
  <2>7. ReceivedOld' /\ ReceivedFirst'
    <3>1. ReceivedOld'
      BY <2>1, <2>2, <2>4 DEF ReceivedOld, Old, Pushing
    <3>2. ReceivedFirst'
      BY <2>1, <2>2, <2>3, <2>4 DEF ReceivedFirst
    <3> QED BY <3>1, <3>2
  <2>8. InOrder'
    BY <1>0, <2>2, <2>4 DEF InOrder
  <2> QED BY <2>5, <2>6, <2>7, <2>8
<1>3. CASE Advance
  <2>1. head # tail
    BY <1>3 DEF Advance, ReaderInv
  <2>2. /\ UNCHANGED <<ring, tail, begun, ppc, received>>
        /\ \A i \in Index : Live(i)' => Live(i) /\ i # head
        /\ \A i, j \in Index : i # head /\ j # head =>
              (Dist(head, i)' < Dist(head, j)' => Dist(head, i) < Dist(head, j))
    <3>1. /\ \A i \in Index : Dist(head, i) \in 0 .. Capacity - 1
          /\ \A i \in Index : i # head => Dist(head, i)' = Dist(head, i) - 1
          /\ Dist(head, head)' = Capacity - 1 \/ TRUE
      BY <1>0, <1>3, DistProps, DistHead DEF Advance
    <3>2. Dist(head', head) = Capacity - 1
      BY <1>0, <1>3, DistOldHead DEF Advance
    <3>3. UNCHANGED <<ring, tail, begun, ppc, received>>
      BY <1>3 DEF Advance
    <3>4. /\ Dist(head, tail)' = Dist(head, tail) - 1
          /\ Dist(head, tail) \in Nat /\ Dist(head, tail) < Capacity /\ Capacity \in Nat
      BY <1>0, <2>1, <3>1, <3>3, CapacityAssumption DEF Index
    <3>5. ASSUME NEW i \in Index, i = head
          PROVE  ~Live(i)'
      BY <3>2, <3>4, <3>5 DEF Live
    <3>6. ASSUME NEW i \in Index, Live(i)'
          PROVE  Live(i) /\ i # head
      <4>1. i # head
        BY <3>5, <3>6
      <4>2. Dist(head, i)' = Dist(head, i) - 1 /\ Dist(head, i) \in Nat
        BY <3>1, <4>1
      <4>3. Dist(head, i)' < Dist(head, tail)'
        BY <3>6 DEF Live
      <4>4. Dist(head, i) < Dist(head, tail)
        BY <3>4, <4>2, <4>3
      <4> QED BY <4>1, <4>4 DEF Live
    <3>7. ASSUME NEW i \in Index, NEW j \in Index, i # head, j # head,
                 Dist(head, i)' < Dist(head, j)'
          PROVE  Dist(head, i) < Dist(head, j)
      <4>1. /\ Dist(head, i)' = Dist(head, i) - 1 /\ Dist(head, i) \in Nat
            /\ Dist(head, j)' = Dist(head, j) - 1 /\ Dist(head, j) \in Nat
        BY <3>1, <3>7
      <4> QED BY <3>7, <4>1
    <3> QED BY <3>3, <3>6, <3>7
  <2>3. WriterInv' /\ ReaderInv'
    <3>1. ppc \in {"type", "filename", "publish"} => Succ(tail) # Succ(head)
      BY <1>0, <2>1, SuccWraps, CapacityAssumption DEF Index
    <3> QED BY <1>3, <3>1 DEF Advance, WriterInv, ReaderInv
  <2>4. (SlotsWhole /\ SlotsOrdered /\ SlotsOld)'
    BY <1>3, <2>2 DEF Advance, SlotsWhole, SlotsOrdered, SlotsOld, Old, Pushing, Taken
  <2>5. (ReceivedOld /\ ReceivedFirst /\ InOrder)'
    BY <1>3, <2>2 DEF Advance, ReceivedOld, ReceivedFirst, InOrder, Old, Pushing, Taken
  <2> QED BY <2>3, <2>4, <2>5
<1>4. CASE ExchangeOverflow
  <2>1. /\ UNCHANGED <<ring, head, tail, begun, ppc>>
        /\ ~Taken(head)'
        /\ \A i \in Index : Live(i)' <=> Live(i)
        /\ \A i \in Index : ~Taken(i) /\ ~Taken(i)'
    BY <1>4 DEF ExchangeOverflow, Live, Taken
  <2>2. (WriterInv /\ ReaderInv /\ SlotsWhole /\ SlotsOrdered /\ SlotsOld)'
    BY <1>4, <2>1 DEF ExchangeOverflow, WriterInv, ReaderInv, SlotsWhole, SlotsOrdered,
         SlotsOld, Old, Pushing
  <2>3. CASE overflow
    <3>1. /\ Len(received') = Len(received) + 1
          /\ received'[Len(received) + 1] = OverflowMark
          /\ \A n \in 1 .. Len(received) : received'[n] = received[n]
          /\ \A n \in 1 .. Len(received') : n = Len(received) + 1 \/ n \in 1 .. Len(received)
      BY <1>0, <1>4, <2>3 DEF ExchangeOverflow, OverflowMark, EventOf, Slot, TypeOK
    <3>2. OverflowMark.type = 0 /\ OverflowMark.filename = 0
      BY DEF OverflowMark, EventOf
    <3>3. ReceivedOld'
      <4>1. Old(0)
        BY <1>0 DEF Old, Pushing, WriterInv
      <4> QED BY <2>1, <3>1, <3>2, <4>1 DEF ReceivedOld, Old, Pushing
    <3>4. ReceivedFirst'
      <4>1. \A i \in Index : Live(i) => ring[i].type > 0
        BY <1>0 DEF SlotsWhole
      <4> QED BY <2>1, <3>1, <3>2, <4>1 DEF ReceivedFirst
    <3>5. InOrder'
      <4> SUFFICES ASSUME NEW j \in 1 .. Len(received')
                   PROVE  /\ received'[j].type = received'[j].filename
                          /\ \A i \in 1 .. j - 1 :
                                received'[i] # OverflowMark /\ received'[j] # OverflowMark
                                   => received'[i].type < received'[j].type
        BY DEF InOrder, OverflowMark, EventOf
      <4>1. CASE j = Len(received) + 1
        BY <3>1, <3>2, <4>1
      <4>2. CASE j \in 1 .. Len(received)
        <5>1. \A i \in 1 .. j - 1 : i \in 1 .. Len(received)
          BY <1>0, <4>2
        <5> QED BY <3>1, <4>2, <5>1 DEF InOrder
      <4> QED BY <3>1, <4>1, <4>2
    <3> QED BY <2>2, <3>3, <3>4, <3>5
  <2>4. CASE ~overflow
    BY <1>4, <2>1, <2>2, <2>4 DEF ExchangeOverflow, ReceivedOld, ReceivedFirst, InOrder, Old, Pushing
  <2> QED BY <2>3, <2>4
<1> QED BY <1>1, <1>2, <1>3, <1>4 DEF Consumer, Drain

\* drain delivers whole events in the order of the pushEvent calls, each at most
\* once, for every capacity: the two threads never meet in a slot.
THEOREM DeliveredInOrder == RingSpec => []InOrder
<1>1. RingInit => OrderInv
  BY CapacityAssumption
     DEF RingInit, OrderInv, WriterInv, ReaderInv, SlotsWhole, SlotsOrdered, SlotsOld, ReceivedOld,
         ReceivedFirst, InOrder, Live, Dist, Index
<1>2. TypeOK /\ OrderInv /\ [RingNext]_watcherVars => OrderInv'
  BY ProducerOrder, ConsumerOrder DEF RingNext
<1>3. OrderInv => InOrder
  BY DEF OrderInv
<1> QED BY <1>1, <1>2, <1>3, TypeCorrect, PTL DEF RingSpec

-------------------------------------------------------------------------------
(* The ring implements the lossy queue.                                     *)

\* The position k steps ahead of h.
LEMMA PositionWraps ==
  ASSUME NEW h \in Index, NEW k \in 0 .. Capacity - 1
  PROVE  /\ (h + k) % Capacity = IF h + k < Capacity THEN h + k ELSE h + k - Capacity
         /\ (h + k) % Capacity \in Index
<1>1. Capacity \in Nat /\ Capacity >= 2
  BY CapacityAssumption
<1>2. h \in Int /\ k \in Int /\ 0 <= h /\ h < Capacity /\ 0 <= k /\ k < Capacity
  BY <1>1 DEF Index
<1>3. CASE h + k < Capacity
  <2>1. (h + k) % Capacity = h + k
    BY <1>1, <1>2, <1>3
  <2> QED BY <1>1, <1>2, <1>3, <2>1 DEF Index
<1>4. CASE h + k >= Capacity
  <2>1. (h + k) % Capacity = h + k - Capacity
    BY <1>1, <1>2, <1>4
  <2>2. h + k - Capacity \in Index
    BY <1>1, <1>2, <1>4 DEF Index
  <2> QED BY <1>1, <1>2, <1>4, <2>1, <2>2
<1> QED BY <1>1, <1>2, <1>3, <1>4

LEMMA UsedIsDist ==
  ASSUME NEW h \in Index, NEW t \in Index
  PROVE  (t - h) % Capacity = Dist(h, t) /\ Dist(h, t) \in 0 .. Capacity - 1
<1>1. /\ Capacity \in Nat /\ Capacity >= 2 /\ h \in Int /\ t \in Int
      /\ 0 <= h /\ h < Capacity /\ 0 <= t /\ t < Capacity
  BY CapacityAssumption DEF Index
<1>2. CASE t >= h
  BY <1>1, <1>2 DEF Dist
<1>3. CASE t < h
  <2>1. (t - h) % Capacity = t - h + Capacity
    BY <1>1, <1>3
  <2> QED BY <1>1, <1>3, <2>1 DEF Dist
<1> QED BY <1>1, <1>2, <1>3

\* The slot of the i-th buffered event.
Position(i) == (head + InHand + i - 1) % Capacity

BufferedFact ==
  /\ InHand \in {0, 1} /\ Used - InHand \in 0 .. Capacity - 1
  /\ Buffered \in Seq(Slot)
  /\ Len(Buffered) = Used - InHand
  /\ \A i \in 1 .. Used - InHand :
        /\ Position(i) \in Index
        /\ Live(Position(i)) /\ Position(i) # tail
        /\ Dist(head, Position(i)) = InHand + i - 1
        /\ Buffered[i] = ring[Position(i)]

LEMMA BufferedProps == TypeOK /\ ReaderInv => BufferedFact
<1> SUFFICES ASSUME TypeOK, ReaderInv
             PROVE  BufferedFact
  OBVIOUS
<1>1. Capacity \in Nat /\ Capacity >= 2 /\ head \in Index /\ tail \in Index
      /\ ring \in [Index -> Slot]
  BY CapacityAssumption DEF TypeOK
<1>2. Used = Dist(head, tail) /\ Used \in 0 .. Capacity - 1
  BY <1>1, UsedIsDist DEF Used
<1>3. InHand \in {0, 1} /\ Used - InHand \in 0 .. Capacity - 1
  <2>1. cpc = "advance" => Used >= 1
    BY <1>1, <1>2, DistProps DEF ReaderInv
  <2> QED BY <1>1, <1>2, <2>1 DEF InHand
<1>4. ASSUME NEW i \in 1 .. Used - InHand
      PROVE  /\ Position(i) \in Index
             /\ Dist(head, Position(i)) = InHand + i - 1
             /\ Dist(head, Position(i)) < Used
  <2> DEFINE k == InHand + i - 1
  <2>1. k \in 0 .. Capacity - 1 /\ k < Used
    BY <1>1, <1>2, <1>3
  <2>2. head + InHand + i - 1 = head + k
    BY <1>1, <1>3 DEF Index
  <2>3. /\ Position(i) = IF head + k < Capacity THEN head + k ELSE head + k - Capacity
        /\ Position(i) \in Index
    <3> HIDE DEF k
    <3> QED BY <1>1, <2>1, <2>2, PositionWraps DEF Position
  <2>4. Dist(head, Position(i)) = k
    <3> HIDE DEF k
    <3> QED BY <1>1, <2>1, <2>3 DEF Dist, Index
  <2> QED BY <2>1, <2>3, <2>4
<1>5. \A i \in 1 .. Used - InHand : Live(Position(i)) /\ Position(i) # tail
  BY <1>1, <1>2, <1>4 DEF Live, Index
<1>6. Buffered = [i \in 1 .. Used - InHand |-> ring[Position(i)]]
  BY DEF Buffered, Position
<1>7. \A i \in 1 .. Used - InHand : ring[Position(i)] \in Slot
  BY <1>1, <1>4
<1>8. Buffered \in Seq(Slot) /\ Len(Buffered) = Used - InHand
  BY <1>3, <1>6, <1>7
<1> QED BY <1>3, <1>4, <1>5, <1>6, <1>8 DEF BufferedFact

\* A step that moves neither index and leaves the live slots alone.
LEMMA BufferedKept ==
  ASSUME TypeOK, TypeOK', ReaderInv, ReaderInv', UNCHANGED <<head, tail>>,
         InHand' = InHand, \A i \in Index : Live(i) => ring'[i] = ring[i]
  PROVE  Buffered' = Buffered
<1>1. Used' = Used /\ \A i \in 1 .. Used - InHand : Position(i)' = Position(i)
  BY DEF Used, Position
<1> QED BY <1>1, BufferedProps DEF Buffered, BufferedFact, Position

\* Moving tail on appends the slot it leaves.
LEMMA BufferedPublish ==
  ASSUME TypeOK, TypeOK', ReaderInv, ReaderInv', Publish, Succ(tail) # head
  PROVE  Buffered' = Append(Buffered, ring[tail])
<1>1. /\ Capacity \in Nat /\ head \in Index /\ tail \in Index /\ ring[tail] \in Slot
      /\ UNCHANGED <<ring, head, cpc>> /\ tail' = Succ(tail)
  BY CapacityAssumption DEF TypeOK, Publish, consumerVars
<1>2. InHand' = InHand /\ \A i \in Nat : Position(i)' = Position(i)
  BY <1>1 DEF InHand, Position
<1>3. Used' = Used + 1
  <2>1. Succ(tail) \in Index /\ Dist(head, Succ(tail)) = Dist(head, tail) + 1
    BY <1>1, DistTail, SuccWraps
  <2> QED BY <1>1, <2>1, UsedIsDist DEF Used
<1> DEFINE n == Used - InHand
<1>4. n \in Nat /\ InHand \in {0, 1} /\ Used \in Int
  BY <1>1, BufferedProps, UsedIsDist DEF Used, BufferedFact
<1>5. /\ Buffered \in Seq(Slot) /\ Len(Buffered) = n
      /\ \A i \in 1 .. n : Buffered[i] = ring[Position(i)]
  BY BufferedProps DEF BufferedFact
<1>6. /\ Buffered' \in Seq(Slot) /\ Len(Buffered') = n + 1
      /\ \A i \in 1 .. n + 1 :
            /\ Buffered'[i] = ring[Position(i)]
            /\ Position(i) \in Index
            /\ Dist(head, Position(i)) = InHand + i - 1
  <2>1. BufferedFact'
    BY BufferedProps, PTL
  <2>2. Used' - InHand' = n + 1
    BY <1>2, <1>3, <1>4
  <2>3. \A i \in 1 .. n + 1 : Position(i)' = Position(i)
    BY <1>2, <1>4
  <2> QED BY <1>1, <1>2, <2>1, <2>2, <2>3 DEF BufferedFact
<1>7. Position(n + 1) = tail
  <2>1. Dist(head, Position(n + 1)) = Used
    BY <1>4, <1>6
  <2> QED BY <1>1, <1>4, <1>6, <2>1, UsedIsDist, DistProps DEF Used
<1>8. /\ Append(Buffered, ring[tail]) \in Seq(Slot)
      /\ Len(Append(Buffered, ring[tail])) = n + 1
      /\ \A i \in 1 .. n + 1 :
            Append(Buffered, ring[tail])[i] = IF i = n + 1 THEN ring[tail] ELSE Buffered[i]
  <2> HIDE DEF n
  <2> QED BY <1>1, <1>4, <1>5
<1>9. \A i \in 1 .. n + 1 : Buffered'[i] = Append(Buffered, ring[tail])[i]
  <2> HIDE DEF n
  <2>1. \A i \in 1 .. n + 1 : i = n + 1 \/ i \in 1 .. n
    BY <1>4
  <2> QED BY <1>4, <1>5, <1>6, <1>7, <1>8, <2>1
<1> QED
  <2> HIDE DEF n
  <2> QED BY <1>6, <1>8, <1>9, SeqEqual

\* Copying the slot at head_ out takes the first buffered event.
LEMMA BufferedTake ==
  ASSUME TypeOK, TypeOK', ReaderInv, ReaderInv', Take
  PROVE  /\ Buffered # <<>>
         /\ Head(Buffered) = ring[head]
         /\ Buffered' = Tail(Buffered)
<1>1. /\ Capacity \in Nat /\ head \in Index /\ tail \in Index /\ head # tail
      /\ ring \in [Index -> Slot] /\ UNCHANGED <<head, tail>>
      /\ InHand = 0 /\ InHand' = 1
      /\ \A i \in Index : i # head => ring'[i] = ring[i]
  BY CapacityAssumption DEF TypeOK, Take, ReaderInv, InHand
<1>2. Used' = Used /\ Used \in Nat /\ Used >= 1
  <2>1. Dist(head, tail) \in Nat /\ Dist(head, tail) # 0
    BY <1>1, DistProps
  <2> QED BY <1>1, <2>1, UsedIsDist DEF Used
<1>3. /\ Buffered \in Seq(Slot) /\ Len(Buffered) = Used
      /\ \A i \in 1 .. Used : /\ Buffered[i] = ring[Position(i)]
                             /\ Position(i) \in Index
                             /\ Dist(head, Position(i)) = i - 1
  BY <1>1, <1>2, BufferedProps DEF BufferedFact
<1>4. Position(1) = head
  BY <1>1, <1>2, <1>3, DistProps
<1>5. Buffered # <<>> /\ Head(Buffered) = ring[head]
  BY <1>2, <1>3, <1>4
<1>6. \A i \in 1 .. Used - 1 : Position(i)' = Position(i + 1)
  <2> SUFFICES ASSUME NEW i \in 1 .. Used - 1
               PROVE  Position(i)' = Position(i + 1)
    OBVIOUS
  <2>1. head' + InHand' + i - 1 = head + InHand + (i + 1) - 1
    BY <1>1 DEF Index
  <2> QED BY <2>1 DEF Position
<1>7. /\ Buffered' \in Seq(Slot) /\ Len(Buffered') = Used - 1
      /\ \A i \in 1 .. Used - 1 : Buffered'[i] = ring'[Position(i + 1)]
  <2>1. BufferedFact'
    BY BufferedProps, PTL
  <2> QED BY <1>1, <1>2, <1>6, <2>1 DEF BufferedFact
<1>8. \A i \in 1 .. Used - 1 : ring'[Position(i + 1)] = ring[Position(i + 1)]
  <2> SUFFICES ASSUME NEW i \in 1 .. Used - 1
               PROVE  Position(i + 1) \in Index /\ Position(i + 1) # head
    BY <1>1
  <2>1. i + 1 \in 1 .. Used /\ (i + 1) - 1 # 0
    BY <1>2
  <2>2. Position(i + 1) \in Index /\ Dist(head, Position(i + 1)) # 0
    BY <1>3, <2>1
  <2> QED BY <1>1, <2>2, DistProps
<1>9. /\ Tail(Buffered) \in Seq(Slot)
      /\ Len(Tail(Buffered)) = Used - 1
      /\ \A i \in 1 .. Used - 1 : Tail(Buffered)[i] = Buffered[i + 1]
  BY <1>2, <1>3, <1>5, HeadTailProperties
<1>10. \A i \in 1 .. Used - 1 : Buffered'[i] = Tail(Buffered)[i]
  <2>1. \A i \in 1 .. Used - 1 : i + 1 \in 1 .. Used
    BY <1>2
  <2> QED BY <1>3, <1>7, <1>8, <1>9, <2>1
<1>11. Buffered' = Tail(Buffered)
  BY <1>7, <1>9, <1>10, SeqEqual
<1> QED BY <1>5, <1>11

\* Giving the copied slot back changes nothing the queue holds.
LEMMA BufferedAdvance ==
  ASSUME TypeOK, TypeOK', ReaderInv, Advance
  PROVE  Buffered' = Buffered
<1>1. /\ Capacity \in Nat /\ Capacity >= 2 /\ head \in Index /\ tail \in Index
      /\ head # tail /\ UNCHANGED <<ring, tail>> /\ head' = Succ(head)
      /\ InHand = 1 /\ InHand' = 0
  BY CapacityAssumption DEF TypeOK, Advance, ReaderInv, InHand
<1>2. Used' = Used - 1
  <2>1. Succ(head) \in Index /\ Dist(Succ(head), tail) = Dist(head, tail) - 1
    BY <1>1, DistHead, SuccWraps
  <2> QED BY <1>1, <2>1, UsedIsDist DEF Used
<1>3. Used \in Nat
  BY <1>1, UsedIsDist DEF Used
<1>4. \A i \in 1 .. Used - 1 : Position(i)' = Position(i)
  <2> SUFFICES ASSUME NEW i \in 1 .. Used - 1
               PROVE  Position(i)' = Position(i)
    OBVIOUS
  <2>1. Used <= Capacity - 1
    BY <1>1, UsedIsDist DEF Used
  <2>2. i \in 0 .. Capacity - 1 /\ i - 1 \in 0 .. Capacity - 1
    BY <1>1, <1>3, <2>1
  <2>3. Position(i) = (head + i) % Capacity /\ Position(i)' = (Succ(head) + (i - 1)) % Capacity
    <3>1. head + InHand + i - 1 = head + i /\ head' + InHand' + i - 1 = Succ(head) + (i - 1)
      BY <1>1, SuccWraps DEF Index
    <3> QED BY <3>1 DEF Position
  <2>4. Succ(head) \in Index /\ Succ(head) = IF head + 1 = Capacity THEN 0 ELSE head + 1
    BY <1>1, SuccWraps
  <2>5. /\ (head + i) % Capacity = IF head + i < Capacity THEN head + i ELSE head + i - Capacity
        /\ (Succ(head) + (i - 1)) % Capacity
              = IF Succ(head) + (i - 1) < Capacity THEN Succ(head) + (i - 1)
                                                  ELSE Succ(head) + (i - 1) - Capacity
    BY <1>1, <2>2, <2>4, PositionWraps
  <2> QED BY <1>1, <2>2, <2>3, <2>4, <2>5 DEF Index
<1>5. Used' - InHand' = Used - 1 /\ Used - InHand = Used - 1
  BY <1>1, <1>2, <1>3
<1> QED BY <1>1, <1>4, <1>5 DEF Buffered, Position

LEMMA StepRefines ==
  ASSUME TypeOK, TypeOK', OrderInv, OrderInv', [RingNext]_watcherVars
  PROVE  [Abstract!Next]_(Abstract!vars)
<1>1. ReaderInv /\ ReaderInv' /\ WriterInv
  BY DEF OrderInv
<1>2. head \in Index /\ tail \in Index /\ ring \in [Index -> Slot] /\ begun \in 0 .. MaxPushes
  BY DEF TypeOK
<1>3. ~Live(tail)
  BY <1>2, DistProps DEF Live, Index
<1> USE DEF Abstract!vars, consumerVars, producerVars, ringVars
<1>4. CASE Publish
  <2>1. /\ Succ(tail) # head /\ begun \in Serial
        /\ ring[tail].type = begun /\ ring[tail].filename = begun
    BY <1>1, <1>2, <1>4, MaxPushesAssumption DEF Publish, WriterInv, Serial
  <2>2. ring[tail] = EventOf(begun)
    BY <1>2, <2>1 DEF EventOf, Slot
  <2>3. Abstract!Put(EventOf(begun))
    BY <1>1, <1>4, <2>1, <2>2, BufferedPublish DEF Publish, Abstract!Put
  <2> QED BY <2>1, <2>3 DEF Abstract!Next
<1>5. CASE MarkOverflow
  <2>1. Buffered' = Buffered
    BY <1>1, <1>5, BufferedKept DEF MarkOverflow, InHand
  <2> QED BY <1>5, <2>1 DEF MarkOverflow, Abstract!Drop, Abstract!Next
<1>6. CASE Take
  <2>1. Abstract!Get
    BY <1>1, <1>6, BufferedTake DEF Take, Abstract!Get
  <2> QED BY <2>1 DEF Abstract!Next
<1>7. CASE ExchangeOverflow
  <2>1. Buffered' = Buffered
    BY <1>1, <1>7, BufferedKept DEF ExchangeOverflow, InHand
  <2>2. CASE overflow
    BY <1>7, <2>1, <2>2 DEF ExchangeOverflow, Abstract!Report, Abstract!Next
  <2>3. CASE ~overflow
    BY <1>7, <2>1, <2>3 DEF ExchangeOverflow, TypeOK
  <2> QED BY <2>2, <2>3
<1>8. CASE Advance
  <2>1. Buffered' = Buffered
    BY <1>1, <1>8, BufferedAdvance
  <2> QED BY <1>8, <2>1 DEF Advance
<1>9. CASE WriteType \/ WriteFilename
  <2>1. \A i \in Index : Live(i) => ring'[i] = ring[i]
    BY <1>2, <1>3, <1>9 DEF WriteType, WriteFilename
  <2>2. InHand' = InHand /\ UNCHANGED <<head, tail, overflow, received>>
    BY <1>9 DEF WriteType, WriteFilename, InHand
  <2>3. Buffered' = Buffered
    BY <1>1, <2>1, <2>2, BufferedKept
  <2> QED BY <2>2, <2>3
<1>10. CASE BeginPush \/ Wake \/ ConsumerSleeps \/ ConsumerWoken \/ ConsumerTimedOut \/ CheckEmpty \/ UNCHANGED watcherVars
  <2>1. InHand' = InHand /\ UNCHANGED <<ring, head, tail, overflow, received>>
    BY <1>10 DEF BeginPush, Wake, ConsumerSleeps, ConsumerWoken, ConsumerTimedOut, CheckEmpty, watcherVars, InHand
  <2>2. Buffered' = Buffered
    BY <1>1, <2>1, BufferedKept
  <2> QED BY <2>1, <2>2
<1> QED
  BY <1>4, <1>5, <1>6, <1>7, <1>8, <1>9, <1>10 DEF RingNext, Producer, Consumer, Drain

\* The ring, with its slots written in halves and its two indices, is a first-in
\* first-out queue whose losses are remembered until they are reported.
THEOREM ImplementsLossyQueue == RingSpec => LossyQueueSpec
<1>1. RingInit => Abstract!Init
  <2> SUFFICES ASSUME RingInit PROVE Abstract!Init
    OBVIOUS
  <2>1. Used = 0 /\ InHand = 0
    BY CapacityAssumption DEF RingInit, Used, InHand
  <2>2. Buffered = <<>>
    BY <2>1 DEF Buffered
  <2> QED BY <2>2 DEF RingInit, Abstract!Init
<1>2. RingInit => OrderInv
  BY CapacityAssumption
     DEF RingInit, OrderInv, WriterInv, ReaderInv, SlotsWhole, SlotsOrdered, SlotsOld, ReceivedOld,
         ReceivedFirst, InOrder, Live, Dist, Index
<1>3. TypeOK /\ OrderInv /\ [RingNext]_watcherVars => OrderInv'
  BY ProducerOrder, ConsumerOrder DEF RingNext
<1>4. TypeOK /\ TypeOK' /\ OrderInv /\ OrderInv' /\ [RingNext]_watcherVars
         => [Abstract!Next]_(Abstract!vars)
  BY StepRefines
<1> QED BY <1>1, <1>2, <1>3, <1>4, TypeCorrect, PTL DEF RingSpec, LossyQueueSpec, Abstract!Spec

-------------------------------------------------------------------------------
(* The watchers: what they are told of, and of their close once and what    *)
(* may follow it.                                                           *)

Kinds == {"change", "overflow", "refused", "close", "thrown"}
Notes == [kind : Kinds, k : Nat]

\* The emissions under way.
Frames == [w : Watchers, told : Kinds]

\* What the rings' events become.
News == [kind : {"change", "overflow"}, k : Nat]

Typed == /\ queue \in [Watchers -> Seq(Nat)]
         /\ seen \in [Watchers -> Nat]
         /\ revoked \in Seq(Watchers)
         /\ refusals \in Seq(Watchers)
         /\ pending \in Seq(Watchers \X News)
         /\ emitted \in [Watchers -> Seq(Notes)]
         /\ frames \in Seq(Frames)
         /\ todo \subseteq Watchers
         /\ cur \in Watchers \union {None}
         /\ pc \in {"drain", "close"} => cur \in Watchers

Flags == /\ registry \in [Watchers -> BOOLEAN]
         /\ opened \in [Watchers -> BOOLEAN]

\* What CloseEndsTheEvents says of one watcher's notes.
Ends(h) == \A i, j \in 1 .. Len(h) :
              i < j => /\ h[i] = Closed => h[j] = Thrown
                       /\ h[i] = Refused => h[j] \in {Closed, Thrown}
                       /\ h[i] = Refused /\ j = i + 1 => h[j] = Closed

Has(h, n) == \E i \in 1 .. Len(h) : h[i] = n

\* w has an emission under way, and: none that tells what a listener throws.
Emitting(w) == \E i \in 1 .. Len(frames) : frames[i].w = w
Muted(w) == \A i \in 1 .. Len(frames) : frames[i].w = w => IsError(frames[i].told)

\* A watcher is told nothing before it is opened and of no event after its close.
\* One that was told of its refusal and is not closed yet is the one the tick is at,
\* and none of its emissions under way tells what a listener throws.
History(w) == /\ Ends(emitted[w])
              /\ Has(emitted[w], Closed) => ~registry[w]
              /\ Has(emitted[w], Refused) /\ ~Has(emitted[w], Closed) =>
                    pc = "close" /\ cur = w /\ registry[w] /\ Muted(w)
              /\ registry[w] => opened[w]
              /\ ~opened[w] => emitted[w] = <<>>
              /\ Emitting(w) => opened[w]

WatchInv == Typed /\ Flags /\ \A w \in Watchers : History(w)

LEMMA NotesDiffer ==
  /\ Closed \in Notes /\ Refused \in Notes /\ Thrown \in Notes /\ Overflow \in News
  /\ Closed # Refused /\ Closed # Thrown /\ Refused # Thrown
  /\ IsError(Refused.kind)
  /\ \A k \in Nat : Change(k) \in News
  /\ \A n \in News : n \in Notes /\ n # Closed /\ n # Refused /\ n # Thrown
<1> QED BY DEF Kinds, Notes, News, Closed, Refused, Thrown, Overflow, Change, Note, IsError

\* One more note: after the close what a listener threw, and after a refusal the
\* close first.
LEMMA EndsAppend ==
  ASSUME NEW h \in Seq(Notes), NEW n \in Notes, Ends(h),
         Has(h, Closed) => n = Thrown,
         Has(h, Refused) => n = Closed \/ (n = Thrown /\ Has(h, Closed))
  PROVE  Ends(Append(h, n))
<1> DEFINE g == Append(h, n)
<1>1. /\ Len(g) = Len(h) + 1 /\ Len(h) \in Nat
      /\ g[Len(g)] = n
      /\ \A i \in 1 .. Len(h) : g[i] = h[i]
  OBVIOUS
<1> HIDE DEF g
<1>2. ASSUME NEW i \in 1 .. Len(g), NEW j \in 1 .. Len(g), i < j
      PROVE  /\ g[i] = Closed => g[j] = Thrown
             /\ g[i] = Refused => g[j] \in {Closed, Thrown}
             /\ g[i] = Refused /\ j = i + 1 => g[j] = Closed
  <2>1. i \in 1 .. Len(h) /\ g[i] = h[i]
    BY <1>1, <1>2
  <2>2. CASE j \in 1 .. Len(h)
    BY <1>1, <1>2, <2>1, <2>2 DEF Ends
  <2>3. CASE j = Len(g)
    <3>1. g[i] = Closed => g[j] = Thrown
      BY <1>1, <2>1, <2>3 DEF Has
    <3>2. g[i] = Refused => g[j] \in {Closed, Thrown}
      BY <1>1, <2>1, <2>3 DEF Has
    <3>3. ASSUME g[i] = Refused, j = i + 1, g[j] # Closed PROVE FALSE
      <4>1. Has(h, Closed)
        BY <1>1, <2>1, <2>3, <3>3 DEF Has
      <4>2. PICK m \in 1 .. Len(h) : h[m] = Closed
        BY <4>1 DEF Has
      <4>3. m < i \/ m = i
        BY <1>1, <2>3, <3>3, <4>2
      <4> QED BY <2>1, <3>3, <4>2, <4>3, NotesDiffer DEF Ends
    <3> QED BY <3>1, <3>2, <3>3
  <2> QED BY <1>1, <1>2, <2>1, <2>2, <2>3
<1> QED BY <1>2 DEF Ends, g

LEMMA HasAppend ==
  ASSUME NEW h \in Seq(Notes), NEW n \in Notes, NEW m, Has(Append(h, n), m)
  PROVE  Has(h, m) \/ m = n
<1> QED BY DEF Has

LEMMA HasLast ==
  ASSUME NEW h \in Seq(Notes), NEW n
  PROVE  Has(Append(h, n), n)
<1>1. Append(h, n)[Len(h) + 1] = n /\ Len(Append(h, n)) = Len(h) + 1 /\ Len(h) \in Nat
  OBVIOUS
<1> QED BY <1>1 DEF Has

LEMMA HasKept ==
  ASSUME NEW h \in Seq(Notes), NEW n, NEW m, Has(h, m)
  PROVE  Has(Append(h, n), m)
<1>1. /\ Len(Append(h, n)) = Len(h) + 1 /\ Len(h) \in Nat
      /\ \A i \in 1 .. Len(h) : Append(h, n)[i] = h[i]
  OBVIOUS
<1> QED BY <1>1 DEF Has

LEMMA HasNone == \A m : ~Has(<<>>, m)
<1> QED BY DEF Has

\* The emission of a note: the listeners of w are called, and no other's.
LEMMA EmitEnds ==
  ASSUME Typed, NEW w \in Watchers, NEW n \in Notes, Emit(w, n), Ends(emitted[w]),
         Has(emitted[w], Closed) => n = Thrown,
         Has(emitted[w], Refused) => n = Closed \/ (n = Thrown /\ Has(emitted[w], Closed))
  PROVE  /\ emitted' \in [Watchers -> Seq(Notes)]
         /\ emitted'[w] = Append(emitted[w], n)
         /\ Ends(emitted'[w])
         /\ frames' \in Seq(Frames)
         /\ IsError(n.kind) /\ Muted(w) => Muted(w)'
         /\ \A u \in Watchers \ {w} : /\ emitted'[u] = emitted[u]
                                      /\ Emitting(u)' => Emitting(u)
                                      /\ Muted(u) => Muted(u)'
<1>1. emitted \in [Watchers -> Seq(Notes)] /\ frames \in Seq(Frames)
  BY DEF Typed
<1>2. /\ emitted' \in [Watchers -> Seq(Notes)]
      /\ emitted'[w] = Append(emitted[w], n)
      /\ \A u \in Watchers \ {w} : emitted'[u] = emitted[u]
  BY <1>1 DEF Emit
<1>3. Ends(Append(emitted[w], n))
  BY <1>1, EndsAppend
<1> DEFINE f == [w |-> w, told |-> n.kind]
<1>4. f \in Frames
  BY DEF Frames, Notes
<1>5. /\ frames' = <<f>> \o frames /\ frames' \in Seq(Frames)
      /\ Len(frames') = Len(frames) + 1 /\ Len(frames) \in Nat
      /\ frames'[1] = f
      /\ \A i \in 1 .. Len(frames') : i # 1 => i - 1 \in 1 .. Len(frames) /\ frames'[i] = frames[i - 1]
  BY <1>1, <1>4 DEF Emit
<1>6. f.w = w /\ f.told = n.kind
  OBVIOUS
<1> HIDE DEF f
<1>7. IsError(n.kind) /\ Muted(w) => Muted(w)'
  BY <1>5, <1>6 DEF Muted
<1>8. ASSUME NEW u \in Watchers \ {w}
      PROVE  (Emitting(u)' => Emitting(u)) /\ (Muted(u) => Muted(u)')
  BY <1>5, <1>6 DEF Emitting, Muted
<1> QED BY <1>2, <1>3, <1>5, <1>7, <1>8

LEMMA InitWatch == Init => WatchInv
<1> SUFFICES ASSUME Init PROVE WatchInv
  OBVIOUS
<1> USE DEF Init
<1>1. Typed
  BY DEF Typed
<1>2. Flags
  BY DEF Flags
<1>3. ASSUME NEW w \in Watchers PROVE History(w)
  BY DEF History, Ends, Has, Emitting, Muted
<1> QED BY <1>1, <1>2, <1>3 DEF WatchInv

\* A watcher to whom nothing happens.
LEMMA HistoryFrame ==
  ASSUME NEW w \in Watchers, History(w), emitted'[w] = emitted[w],
         registry'[w] = registry[w], opened'[w] = opened[w],
         Emitting(w)' => Emitting(w), Muted(w) => Muted(w)',
         pc = "close" /\ cur = w => pc' = "close" /\ cur' = cur
  PROVE  History(w)'
<1> QED BY DEF History

\* The watchers' threads, and a grant that is taken back.
LEMMA ThreadWatch ==
  ASSUME WatchInv, NEW w \in Watchers, Push(w) \/ Drop(w) \/ Revoke(w)
  PROVE  WatchInv'
<1> USE DEF WatchInv, jsVars, tickVars, Emitting, Muted
<1>1. CASE Push(w)
  <2> USE <1>1 DEF Push
  <2>1. seen'[w] \in Nat /\ seen' \in [Watchers -> Nat]
    BY DEF Typed
  <2>2. queue' \in [Watchers -> Seq(Nat)]
    BY <2>1 DEF Typed
  <2>3. Typed'
    BY <2>1, <2>2 DEF Typed
  <2> QED BY <2>3, HistoryFrame DEF Flags
<1>2. CASE Drop(w)
  <2>1. Typed'
    BY <1>2 DEF Drop, Typed
  <2> QED BY <1>2, <2>1, HistoryFrame DEF Drop, Flags
<1>3. CASE Revoke(w)
  <2>1. Typed'
    BY <1>3 DEF Revoke, Destroy, Typed
  <2> QED BY <1>3, <2>1, HistoryFrame DEF Revoke, Flags
<1> QED BY <1>1, <1>2, <1>3

LEMMA OpenWatch ==
  ASSUME WatchInv, NEW w \in Watchers, Open(w)
  PROVE  WatchInv'
<1> USE DEF WatchInv, Open, tickVars
<1>1. Typed'
  BY DEF Typed
<1>2. Flags'
  BY DEF Flags
<1>3. ASSUME NEW u \in Watchers PROVE History(u)'
  <2>1. CASE u # w
    BY <2>1, HistoryFrame DEF Flags, Emitting, Muted
  <2>2. CASE u = w
    <3>1. emitted'[w] = <<>>
      BY DEF History
    <3>2. opened'[w]
      BY DEF Flags
    <3>3. Ends(<<>>)
      BY DEF Ends
    <3> QED BY <2>2, <3>1, <3>2, <3>3, HasNone DEF History
  <2> QED BY <2>1, <2>2
<1> QED BY <1>1, <1>2, <1>3

\* close(), by the program or by the tick after a refusal.
LEMMA CloseEffectWatch ==
  ASSUME WatchInv, NEW w \in Watchers, CloseEffect(w), UNCHANGED opened,
         \A u \in Watchers \ {w} : pc = "close" /\ cur = u => pc' = "close" /\ cur' = cur
  PROVE  Flags' /\ emitted' \in [Watchers -> Seq(Notes)]
                /\ frames' \in Seq(Frames)
                /\ queue' \in [Watchers -> Seq(Nat)]
                /\ \A u \in Watchers : History(u)'
<1> USE DEF WatchInv
<1>1. CASE ~registry[w]
  <2>1. UNCHANGED <<registry, queue, emitted, frames>>
    BY <1>1 DEF CloseEffect, TellsNothing
  <2>2. ASSUME NEW u \in Watchers PROVE History(u)'
    BY <1>1, <2>1 DEF History, Emitting, Muted
  <2> QED BY <2>1, <2>2 DEF Typed, Flags
<1>2. CASE registry[w]
  <2>1. /\ registry' = [registry EXCEPT ![w] = FALSE]
        /\ queue' = [queue EXCEPT ![w] = <<>>]
        /\ Emit(w, Closed)
    BY <1>2 DEF CloseEffect, Destroy
  <2>0. /\ ~Has(emitted[w], Closed) /\ Ends(emitted[w]) /\ Closed \in Notes
        /\ Has(emitted[w], Closed) => Closed = Thrown
        /\ Has(emitted[w], Refused) => Closed = Closed \/ (Closed = Thrown /\ Has(emitted[w], Closed))
    BY <1>2, NotesDiffer DEF History
  <2>2. /\ emitted' \in [Watchers -> Seq(Notes)]
        /\ emitted'[w] = Append(emitted[w], Closed)
        /\ Ends(emitted'[w])
        /\ frames' \in Seq(Frames)
        /\ \A u \in Watchers \ {w} : /\ emitted'[u] = emitted[u]
                                     /\ Emitting(u)' => Emitting(u)
                                     /\ Muted(u) => Muted(u)'
    <3>1. Typed /\ Emit(w, Closed)
      BY <2>1
    <3> QED BY ONLY <2>0, <3>1, EmitEnds
  <2>6. Has(emitted'[w], Closed)
    <3>1. emitted[w] \in Seq(Notes)
      BY DEF Typed
    <3> QED BY <2>2, <3>1, HasLast
  <2>3. Flags' /\ ~registry'[w] /\ \A u \in Watchers \ {w} : registry'[u] = registry[u]
    BY <2>1 DEF Flags
  <2>4. ASSUME NEW u \in Watchers PROVE History(u)'
    <3>1. CASE u # w
      <4>1. /\ emitted'[u] = emitted[u] /\ registry'[u] = registry[u]
            /\ Emitting(u)' => Emitting(u)
            /\ Muted(u) => Muted(u)'
            /\ pc = "close" /\ cur = u => pc' = "close" /\ cur' = cur
        BY <2>2, <2>3, <3>1
      <4>2. opened' = opened /\ History(u)
        OBVIOUS
      <4> QED BY ONLY <4>1, <4>2, HistoryFrame
    <3>2. CASE u = w
      BY <1>2, <2>2, <2>3, <2>6, <3>2 DEF History
    <3> QED BY <3>1, <3>2
  <2>5. queue' \in [Watchers -> Seq(Nat)]
    BY <2>1 DEF Typed
  <2> QED BY <2>2, <2>3, <2>4, <2>5
<1> QED BY <1>1, <1>2

LEMMA CloseWatch ==
  ASSUME WatchInv, NEW w \in Watchers, Close(w)
  PROVE  WatchInv'
<1>1. CloseEffect(w) /\ UNCHANGED <<seen, revoked, opened, pc, refusals, todo, cur, pending>>
  BY DEF Close
<1>2. /\ Flags' /\ emitted' \in [Watchers -> Seq(Notes)]
      /\ frames' \in Seq(Frames)
      /\ queue' \in [Watchers -> Seq(Nat)]
      /\ \A u \in Watchers : History(u)'
  BY <1>1, CloseEffectWatch
<1>3. Typed'
  BY <1>1, <1>2 DEF WatchInv, Typed
<1> QED BY <1>2, <1>3 DEF WatchInv

LEMMA CloseRefusedWatch ==
  ASSUME WatchInv, CloseRefused
  PROVE  WatchInv'
<1>1. /\ pc = "close" /\ pc' = "refuse" /\ CloseEffect(cur)
      /\ UNCHANGED <<seen, revoked, opened, refusals, todo, cur, pending>>
  BY DEF CloseRefused
<1>2. cur \in Watchers
  BY <1>1 DEF WatchInv, Typed
<1>3. /\ Flags' /\ emitted' \in [Watchers -> Seq(Notes)]
      /\ frames' \in Seq(Frames)
      /\ queue' \in [Watchers -> Seq(Nat)]
      /\ \A u \in Watchers : History(u)'
  BY <1>1, <1>2, CloseEffectWatch
<1>4. Typed'
  BY <1>1, <1>3 DEF WatchInv, Typed
<1> QED BY <1>3, <1>4 DEF WatchInv

\* The refusal is told to a watcher that is not closed, and that was not told before.
LEMMA RefuseWatch ==
  ASSUME WatchInv, Refuse
  PROVE  WatchInv'
<1> USE DEF WatchInv
<1>1. /\ pc = "refuse" /\ refusals # <<>> /\ frames = <<>>
      /\ cur' = Head(refusals) /\ refusals' = Tail(refusals)
      /\ UNCHANGED <<queue, seen, revoked, registry, opened, todo, pending>>
  BY DEF Refuse, nativeVars, Listening
<1>2. PICK w \in Watchers : w = cur' /\ refusals' \in Seq(Watchers)
  BY <1>1 DEF Typed
<1>3. Flags'
  BY <1>1 DEF Flags
<1>4. CASE ~registry[w]
  <2>1. UNCHANGED <<pc, emitted, frames>>
    BY <1>2, <1>4 DEF Refuse, TellsNothing
  <2>2. Typed'
    BY <1>1, <1>2, <2>1 DEF Typed
  <2>3. ASSUME NEW u \in Watchers PROVE History(u)'
    BY <1>1, <2>1, HistoryFrame DEF Emitting, Muted
  <2> QED BY <1>3, <2>2, <2>3
<1>5. CASE registry[w]
  <2>1. pc' = "close" /\ Emit(w, Refused)
    BY <1>2, <1>5 DEF Refuse
  <2>2. ~Has(emitted[w], Closed) /\ ~Has(emitted[w], Refused)
    BY <1>1, <1>2, <1>5 DEF History
  <2>3. /\ emitted' \in [Watchers -> Seq(Notes)]
        /\ emitted'[w] = Append(emitted[w], Refused)
        /\ Ends(emitted'[w])
        /\ frames' \in Seq(Frames)
        /\ IsError(Refused.kind) /\ Muted(w) => Muted(w)'
        /\ \A u \in Watchers \ {w} : /\ emitted'[u] = emitted[u]
                                     /\ Emitting(u)' => Emitting(u)
                                     /\ Muted(u) => Muted(u)'
    BY <1>2, <2>1, <2>2, EmitEnds, NotesDiffer DEF History
  <2>7. Muted(w)'
    BY <1>1, <2>3, NotesDiffer DEF Muted
  <2>4. Typed'
    BY <1>1, <1>2, <2>3 DEF Typed
  <2>5. ASSUME NEW u \in Watchers, u # w PROVE History(u)'
    <3>1. /\ emitted'[u] = emitted[u] /\ registry'[u] = registry[u] /\ opened'[u] = opened[u]
          /\ Emitting(u)' => Emitting(u)
          /\ Muted(u) => Muted(u)'
          /\ pc = "close" /\ cur = u => pc' = "close" /\ cur' = cur
      BY <1>1, <2>3, <2>5
    <3>2. History(u)
      OBVIOUS
    <3> QED BY ONLY <3>1, <3>2, HistoryFrame
  <2>6. History(w)'
    <3>1. ~Has(emitted'[w], Closed)
      BY <1>2, <2>2, <2>3, HasAppend, NotesDiffer DEF Typed
    <3>2. opened'[w] /\ registry'[w]
      BY <1>1, <1>2, <1>5 DEF History
    <3> QED BY <1>2, <2>1, <2>3, <2>7, <3>1, <3>2 DEF History
  <2> QED BY <1>3, <2>4, <2>5, <2>6
<1> QED BY <1>4, <1>5

\* What was drained is told to a watcher that is not closed; none has been refused,
\* since the tick closes those before it drains.
LEMMA DispatchWatch ==
  ASSUME WatchInv, Dispatch
  PROVE  WatchInv'
<1> USE DEF WatchInv
<1>1. /\ pc = "dispatch" /\ pending # <<>> /\ pending' = Tail(pending)
      /\ UNCHANGED <<queue, seen, revoked, registry, opened, pc, refusals, todo, cur>>
  BY DEF Dispatch, nativeVars
<1>2. Head(pending) \in Watchers \X News /\ pending' \in Seq(Watchers \X News)
  BY <1>1 DEF Typed
<1>3. PICK w \in Watchers, n \in News :
         /\ registry[w] => Emit(w, n)
         /\ ~registry[w] => UNCHANGED <<emitted, frames>>
  <2>1. Head(pending)[1] \in Watchers /\ Head(pending)[2] \in News
    BY <1>2
  <2> QED BY <2>1 DEF Dispatch, TellsNothing
<1>4. Flags'
  BY <1>1 DEF Flags
<1>5. CASE ~registry[w]
  <2>1. Typed'
    BY <1>1, <1>2, <1>3, <1>5 DEF Typed
  <2>2. ASSUME NEW u \in Watchers PROVE History(u)'
    BY <1>1, <1>3, <1>5, HistoryFrame DEF Emitting, Muted
  <2> QED BY <1>4, <2>1, <2>2
<1>6. CASE registry[w]
  <2>1. n \in Notes /\ n # Closed /\ n # Refused
    BY NotesDiffer
  <2>2. ~Has(emitted[w], Closed) /\ ~Has(emitted[w], Refused)
    BY <1>1, <1>2, <1>6 DEF History
  <2>3. /\ emitted' \in [Watchers -> Seq(Notes)]
        /\ emitted'[w] = Append(emitted[w], n)
        /\ Ends(emitted'[w])
        /\ frames' \in Seq(Frames)
        /\ \A u \in Watchers \ {w} : /\ emitted'[u] = emitted[u]
                                     /\ Emitting(u)' => Emitting(u)
                                     /\ Muted(u) => Muted(u)'
    BY <1>3, <1>6, <2>1, <2>2, EmitEnds DEF History
  <2>4. Typed'
    BY <1>1, <1>2, <2>3 DEF Typed
  <2>5. ASSUME NEW u \in Watchers, u # w PROVE History(u)'
    <3>1. /\ emitted'[u] = emitted[u] /\ registry'[u] = registry[u] /\ opened'[u] = opened[u]
          /\ Emitting(u)' => Emitting(u)
          /\ Muted(u) => Muted(u)'
          /\ pc = "close" /\ cur = u => pc' = "close" /\ cur' = cur
      BY <1>1, <2>3, <2>5
    <3>2. History(u)
      OBVIOUS
    <3> QED BY ONLY <3>1, <3>2, HistoryFrame
  <2>6. History(w)'
    <3>1. ~Has(emitted'[w], Closed) /\ ~Has(emitted'[w], Refused)
      BY <1>2, <2>1, <2>2, <2>3, HasAppend DEF Typed
    <3>2. opened'[w]
      BY <1>1, <1>2, <1>6 DEF History
    <3> QED BY <2>3, <3>1, <3>2 DEF History
  <2> QED BY <1>4, <2>4, <2>5, <2>6
<1> QED BY <1>5, <1>6

\* A listener throws: the watcher is told of it, after its close too.
LEMMA ThrowsWatch ==
  ASSUME WatchInv, ListenerThrows
  PROVE  WatchInv'
<1> USE DEF WatchInv
<1>1. /\ frames # <<>> /\ ~IsError(Head(frames).told) /\ Emit(Head(frames).w, Thrown)
      /\ UNCHANGED <<queue, seen, revoked, registry, opened, pc, refusals, todo, cur, pending>>
  BY DEF ListenerThrows, Listening, nativeVars
<1>2. /\ frames \in Seq(Frames) /\ Head(frames) \in Frames
      /\ 1 \in 1 .. Len(frames) /\ Head(frames) = frames[1]
  BY <1>1 DEF Typed
<1>3. PICK w \in Watchers : w = Head(frames).w
  BY <1>2 DEF Frames
<1>4. Emitting(w) /\ ~Muted(w)
  BY <1>1, <1>2, <1>3 DEF Emitting, Muted
<1>5. opened[w] /\ (Has(emitted[w], Refused) => Has(emitted[w], Closed))
  BY <1>4 DEF History
<1>6. /\ emitted' \in [Watchers -> Seq(Notes)]
      /\ emitted'[w] = Append(emitted[w], Thrown)
      /\ Ends(emitted'[w])
      /\ frames' \in Seq(Frames)
      /\ \A u \in Watchers \ {w} : /\ emitted'[u] = emitted[u]
                                   /\ Emitting(u)' => Emitting(u)
                                   /\ Muted(u) => Muted(u)'
  BY <1>1, <1>3, <1>5, EmitEnds, NotesDiffer DEF History
<1>7. Typed' /\ Flags'
  BY <1>1, <1>6 DEF Typed, Flags
<1>8. ASSUME NEW u \in Watchers, u # w PROVE History(u)'
  <2>1. /\ emitted'[u] = emitted[u] /\ registry'[u] = registry[u] /\ opened'[u] = opened[u]
        /\ Emitting(u)' => Emitting(u)
        /\ Muted(u) => Muted(u)'
        /\ pc = "close" /\ cur = u => pc' = "close" /\ cur' = cur
    BY <1>1, <1>6, <1>8
  <2>2. History(u)
    OBVIOUS
  <2> QED BY ONLY <2>1, <2>2, HistoryFrame
<1>9. History(w)'
  <2>1. emitted[w] \in Seq(Notes)
    BY DEF Typed
  <2>2. Has(emitted'[w], Closed) => Has(emitted[w], Closed)
    BY <1>6, <2>1, HasAppend, NotesDiffer
  <2>3. Has(emitted'[w], Refused) => Has(emitted'[w], Closed)
    BY <1>5, <1>6, <2>1, HasAppend, HasKept, NotesDiffer
  <2> QED BY <1>1, <1>5, <1>6, <2>2, <2>3 DEF History
<1> QED BY <1>7, <1>8, <1>9

\* The steps of the host and of the tick that tell nothing.
LEMMA QuietWatch ==
  ASSUME WatchInv,
         \/ EmissionEnds \/ Sleep \/ Woken \/ TimedOut \/ BeginDrain \/ NextWatcher
         \/ DrainOne \/ DrainOverflow \/ BeginDispatch \/ EndTick
  PROVE  WatchInv'
<1> USE DEF WatchInv, nativeVars, jsVars
<1>1. UNCHANGED <<registry, opened, emitted>>
  BY DEF EmissionEnds, Sleep, Woken, TimedOut, BeginTick, BeginDrain, NextWatcher, DrainOne,
         DrainOverflow, BeginDispatch, EndTick
<1>2. pc = "close" => pc' = "close" /\ cur' = cur
  BY DEF EmissionEnds, Sleep, Woken, TimedOut, BeginTick, BeginDrain, NextWatcher, DrainOne,
         DrainOverflow, BeginDispatch, EndTick
<1>5. frames' \in Seq(Frames) /\ \A u \in Watchers : (Emitting(u)' => Emitting(u)) /\ (Muted(u) => Muted(u)')
  <2>1. CASE EmissionEnds
    <3>1. frames \in Seq(Frames) /\ frames # <<>> /\ frames' = Tail(frames)
      BY <2>1 DEF EmissionEnds, Listening, Typed
    <3>2. /\ frames' \in Seq(Frames)
          /\ \A i \in 1 .. Len(frames') : i + 1 \in 1 .. Len(frames) /\ frames'[i] = frames[i + 1]
      BY <3>1
    <3> QED BY <3>2 DEF Emitting, Muted
  <2>2. CASE ~EmissionEnds
    <3>1. UNCHANGED frames
      BY <2>2 DEF Sleep, Woken, TimedOut, BeginTick, BeginDrain, NextWatcher, DrainOne,
                  DrainOverflow, BeginDispatch, EndTick
    <3> QED BY <3>1 DEF Emitting, Muted, Typed
  <2> QED BY <2>1, <2>2
<1>6. frames' \in Seq(Frames)
  BY <1>5
<1>3. Flags' /\ \A u \in Watchers : History(u)'
  BY <1>1, <1>2, <1>5, HistoryFrame DEF Flags
<1>4. Typed'
  <2>1. CASE EmissionEnds \/ Sleep \/ BeginDrain \/ BeginDispatch \/ EndTick
    BY <1>6, <2>1 DEF EmissionEnds, Sleep, BeginDrain, BeginDispatch, EndTick, Typed
  <2>2. CASE Woken \/ TimedOut
    <3>1. /\ pc' = "refuse" /\ refusals' = revoked /\ revoked' = <<>>
          /\ UNCHANGED <<queue, seen, emitted, pending, todo, cur>>
      BY <2>2 DEF Woken, TimedOut, BeginTick
    <3> QED BY <1>6, <3>1 DEF Typed
  <2>3. CASE NextWatcher
    BY <1>6, <2>3 DEF NextWatcher, Typed
  <2>4. CASE DrainOne
    <3>1. Head(queue[cur]) \in Nat /\ Tail(queue[cur]) \in Seq(Nat) /\ cur \in Watchers
      BY <2>4 DEF DrainOne, Typed
    <3>2. <<cur, Change(Head(queue[cur]))>> \in Watchers \X News
      BY <3>1, NotesDiffer
    <3>3. pending' \in Seq(Watchers \X News) /\ queue' \in [Watchers -> Seq(Nat)]
      BY <2>4, <3>1, <3>2 DEF DrainOne, Typed
    <3> QED BY <1>6, <2>4, <3>3 DEF DrainOne, Typed
  <2>5. CASE DrainOverflow
    <3>1. <<cur, Overflow>> \in Watchers \X News
      BY <2>5, NotesDiffer DEF DrainOverflow, Typed
    <3>2. pending' \in Seq(Watchers \X News)
      BY <2>5, <3>1 DEF DrainOverflow, Typed
    <3> QED BY <1>6, <2>5, <3>2 DEF DrainOverflow, Typed
  <2> QED BY <2>1, <2>2, <2>3, <2>4, <2>5
<1> QED BY <1>3, <1>4

LEMMA NextWatch == WatchInv /\ [Next]_vars => WatchInv'
<1> SUFFICES ASSUME WatchInv, [Next]_vars PROVE WatchInv'
  OBVIOUS
<1>1. ASSUME NEW w \in Watchers, Push(w) \/ Drop(w) \/ Open(w) \/ Close(w) \/ Revoke(w)
      PROVE  WatchInv'
  BY <1>1, ThreadWatch, OpenWatch, CloseWatch
<1>2. CASE ListenerThrows \/ Sleep \/ Woken \/ TimedOut
  BY <1>2, QuietWatch, ThrowsWatch
<1>3. CASE Tick
  BY <1>3, QuietWatch, RefuseWatch, CloseRefusedWatch, DispatchWatch DEF Tick
<1>4. CASE UNCHANGED vars
  <2> USE <1>4 DEF vars, nativeVars, jsVars, tickVars, WatchInv
  <2>1. Typed' /\ Flags'
    BY DEF Typed, Flags
  <2>2. \A w \in Watchers : History(w)'
    BY HistoryFrame DEF Emitting, Muted
  <2> QED BY <2>1, <2>2
<1> QED BY <1>1, <1>2, <1>3, <1>4 DEF Next

LEMMA WatchHolds == Spec => []WatchInv
<1> QED BY InitWatch, NextWatch, PTL DEF Spec

\* The 'close' of a watcher is told once and ends its events, though a tick had
\* drained some before it was closed; only what its own listeners throw follows, and
\* a refusal is followed by the close (js_fs_watch_tick; _emit and close() of
\* fs_watch.js).
THEOREM NoEventAfterClose == Spec => []CloseEndsTheEvents
<1>1. WatchInv => CloseEndsTheEvents
  BY DEF WatchInv, History, Ends, CloseEndsTheEvents
<1> QED BY <1>1, WatchHolds, PTL

-------------------------------------------------------------------------------
(* Where each event is: told, held by the tick, in the ring, or dropped. *)

Sets == /\ native \in [Watchers -> BOOLEAN]
        /\ missed \in [Watchers -> BOOLEAN]
        /\ dropped \in [Watchers -> SUBSET Nat]

\* Events have the numbers that were given out; a watcher that is not closed is
\* the only one that runs, and one that was not opened has seen nothing.
Account(w) == /\ Accounted(w)
              /\ Told(w) \union Held(w) \union Queued(w) \union dropped[w] \subseteq 1 .. seen[w]
              /\ native[w] => registry[w]
              /\ ~opened[w] => ~native[w] /\ seen[w] = 0

AccountInv == Sets /\ \A w \in Watchers : Account(w)

LEMMA InitAccount == Init => AccountInv
<1> SUFFICES ASSUME Init, NEW w \in Watchers PROVE Sets /\ Account(w)
  BY DEF AccountInv, Init, Sets
<1> USE DEF Init
<1>1. ToldAt(w) = {} /\ HeldAt(w) = {} /\ Queued(w) = {}
  BY DEF ToldAt, HeldAt, Queued
<1>2. Told(w) = {} /\ Held(w) = {}
  BY <1>1 DEF Told, Held
<1> QED BY <1>1, <1>2 DEF Sets, Account, Accounted, Before

\* A watcher to which nothing happens, but that it may stop.
LEMMA AccountFrame ==
  ASSUME NEW w \in Watchers, Account(w),
         HeldAt(w)' = HeldAt(w), \A i \in HeldAt(w) : pending'[i] = pending[i],
         emitted'[w] = emitted[w], queue'[w] = queue[w], dropped'[w] = dropped[w],
         seen'[w] = seen[w], registry'[w] = registry[w], opened'[w] = opened[w],
         native'[w] => native[w]
  PROVE  Account(w)'
<1>1. Told(w)' = Told(w) /\ ToldAt(w)' = ToldAt(w)
  BY DEF Told, ToldAt
<1>2. Held(w)' = Held(w)
  BY DEF Held
<1>3. Queued(w)' = Queued(w)
  BY DEF Queued
<1>4. Accounted(w)'
  BY <1>1, <1>2, <1>3 DEF Account, Accounted, Before
<1> QED BY <1>1, <1>2, <1>3, <1>4 DEF Account

LEMMA HeldFrame ==
  ASSUME UNCHANGED pending, NEW w
  PROVE  HeldAt(w)' = HeldAt(w) /\ \A i \in HeldAt(w) : pending'[i] = pending[i]
<1> QED BY DEF HeldAt

\* pushEvent: the new number is beyond all others.
LEMMA PushAccount ==
  ASSUME Typed, AccountInv, NEW w \in Watchers, Push(w)
  PROVE  AccountInv'
<1> USE DEF AccountInv, Push, jsVars, tickVars
<1>1. /\ seen[w] \in Nat /\ seen'[w] = seen[w] + 1 /\ queue[w] \in Seq(Nat)
      /\ queue'[w] = Append(queue[w], seen[w] + 1)
  BY DEF Typed
<1>2. ASSUME NEW u \in Watchers, u # w PROVE Account(u)'
  BY <1>2, HeldFrame, AccountFrame DEF Typed
<1>3. /\ Told(w)' = Told(w) /\ ToldAt(w)' = ToldAt(w)
      /\ Held(w)' = Held(w) /\ HeldAt(w)' = HeldAt(w)
  BY DEF Told, ToldAt, Held, HeldAt
<1>4. /\ Len(queue'[w]) = Len(queue[w]) + 1 /\ Len(queue[w]) \in Nat
      /\ queue'[w][Len(queue[w]) + 1] = seen[w] + 1
      /\ \A i \in 1 .. Len(queue[w]) : queue'[w][i] = queue[w][i]
  BY <1>1
<1>5. Queued(w)' = Queued(w) \union {seen[w] + 1}
  BY <1>4 DEF Queued
<1>6. /\ Told(w) \union Held(w) \union Queued(w) \union dropped[w] \subseteq 1 .. seen[w]
      /\ native[w] /\ 1 .. seen[w] = dropped[w] \union Told(w) \union Held(w) \union Queued(w)
      /\ dropped'[w] = dropped[w] /\ native'[w] /\ registry'[w] /\ opened'[w] = opened[w]
      /\ emitted'[w] = emitted[w] /\ pending' = pending
      /\ opened[w]
  BY DEF Account, Accounted
<1>7. \A i, j \in 1 .. Len(queue'[w]) : i < j => queue'[w][i] < queue'[w][j]
  <2>1. \A i \in 1 .. Len(queue[w]) : queue[w][i] \in 1 .. seen[w]
    BY <1>6 DEF Queued
  <2>2. \A i, j \in 1 .. Len(queue[w]) : i < j => queue[w][i] < queue[w][j]
    BY DEF Account, Accounted
  <2> QED BY <1>1, <1>4, <2>1, <2>2
<1>8. 1 .. seen'[w] = 1 .. seen[w] \union {seen[w] + 1}
  BY <1>1
<1>9. Before(Told(w)', Held(w)' \union Queued(w)') /\ Before(Held(w)', Queued(w)')
  <2>1. Before(Told(w), Held(w) \union Queued(w)) /\ Before(Held(w), Queued(w))
    BY DEF Account, Accounted
  <2>2. \A k \in Told(w) \union Held(w) : k < seen[w] + 1
    BY <1>1, <1>6
  <2> HIDE DEF AccountInv, Push, jsVars, tickVars
  <2> QED BY <1>3, <1>5, <2>1, <2>2 DEF Before
<1>10. dropped'[w] \intersect (Told(w)' \union Held(w)' \union Queued(w)') = {}
  <2>1. dropped[w] \intersect (Told(w) \union Held(w) \union Queued(w)) = {}
    BY DEF Account, Accounted
  <2>2. seen[w] + 1 \notin dropped[w]
    BY <1>1, <1>6
  <2> HIDE DEF AccountInv, Push, jsVars, tickVars
  <2> QED BY <1>3, <1>5, <1>6, <2>1, <2>2
<1>11. Accounted(w)'
  <2>1. /\ \A i, j \in ToldAt(w) : i < j => emitted[w][i].k < emitted[w][j].k
        /\ \A i, j \in HeldAt(w) : i < j => pending[i][2].k < pending[j][2].k
    BY DEF Account, Accounted
  <2> HIDE DEF AccountInv, Push, jsVars, tickVars
  <2>2. 1 .. seen'[w] = dropped'[w] \union Told(w)' \union Held(w)' \union Queued(w)'
    BY <1>3, <1>5, <1>6, <1>8
  <2> QED BY <1>3, <1>6, <1>7, <1>9, <1>10, <2>1, <2>2 DEF Accounted
<1>12. Account(w)'
  BY <1>3, <1>5, <1>6, <1>8, <1>11 DEF Account
<1> QED BY <1>2, <1>12 DEF Sets

LEMMA DropAccount ==
  ASSUME Typed, AccountInv, NEW w \in Watchers, Drop(w)
  PROVE  AccountInv'
<1> USE DEF AccountInv, Drop, jsVars, tickVars
<1>1. /\ seen[w] \in Nat /\ seen'[w] = seen[w] + 1 /\ dropped[w] \in SUBSET Nat
      /\ dropped'[w] = dropped[w] \union {seen[w] + 1}
  BY DEF Typed, Sets
<1>2. ASSUME NEW u \in Watchers, u # w PROVE Account(u)'
  BY <1>2, HeldFrame, AccountFrame DEF Typed, Sets
<1>3. /\ Told(w)' = Told(w) /\ ToldAt(w)' = ToldAt(w)
      /\ Held(w)' = Held(w) /\ HeldAt(w)' = HeldAt(w) /\ Queued(w)' = Queued(w)
  BY DEF Told, ToldAt, Held, HeldAt, Queued
<1>4. /\ Told(w) \union Held(w) \union Queued(w) \union dropped[w] \subseteq 1 .. seen[w]
      /\ native[w] /\ 1 .. seen[w] = dropped[w] \union Told(w) \union Held(w) \union Queued(w)
      /\ dropped[w] \intersect (Told(w) \union Held(w) \union Queued(w)) = {}
  BY DEF Account, Accounted
<1>5. 1 .. seen'[w] = 1 .. seen[w] \union {seen[w] + 1}
  BY <1>1
<1>6. dropped'[w] \intersect (Told(w)' \union Held(w)' \union Queued(w)') = {}
  <2>1. seen[w] + 1 \notin Told(w) \union Held(w) \union Queued(w)
    BY <1>1, <1>4
  <2> HIDE DEF AccountInv, Drop, jsVars, tickVars
  <2> QED BY <1>1, <1>3, <1>4, <2>1
<1>7. Accounted(w)'
  <2>1. /\ \A i, j \in ToldAt(w) : i < j => emitted[w][i].k < emitted[w][j].k
        /\ \A i, j \in HeldAt(w) : i < j => pending[i][2].k < pending[j][2].k
        /\ \A i, j \in 1 .. Len(queue[w]) : i < j => queue[w][i] < queue[w][j]
        /\ Before(Told(w), Held(w) \union Queued(w)) /\ Before(Held(w), Queued(w))
        /\ emitted' = emitted /\ pending' = pending /\ queue' = queue
    BY DEF Account, Accounted
  <2> HIDE DEF AccountInv, Drop, jsVars, tickVars
  <2>2. 1 .. seen'[w] = dropped'[w] \union Told(w)' \union Held(w)' \union Queued(w)'
    BY <1>1, <1>3, <1>4, <1>5
  <2>3. Before(Told(w)', Held(w)' \union Queued(w)') /\ Before(Held(w)', Queued(w)')
    BY <1>3, <2>1 DEF Before
  <2> QED BY <1>3, <1>6, <2>1, <2>2, <2>3 DEF Accounted
<1>8. Account(w)'
  BY <1>1, <1>3, <1>4, <1>5, <1>7 DEF Account
<1>9. Sets'
  BY <1>1 DEF Sets
<1> QED BY <1>2, <1>8, <1>9

LEMMA OpenAccount ==
  ASSUME Typed, Flags, AccountInv, NEW w \in Watchers, Open(w)
  PROVE  AccountInv'
<1> USE DEF AccountInv, Open, tickVars
<1>1. ASSUME NEW u \in Watchers, u # w PROVE Account(u)'
  BY <1>1, HeldFrame, AccountFrame DEF Sets, Flags
<1>2. /\ Told(w)' = Told(w) /\ ToldAt(w)' = ToldAt(w)
      /\ Held(w)' = Held(w) /\ HeldAt(w)' = HeldAt(w) /\ Queued(w)' = Queued(w)
  BY DEF Told, ToldAt, Held, HeldAt, Queued
<1>3. seen[w] = 0 /\ Told(w) \union Held(w) \union Queued(w) \union dropped[w] \subseteq 1 .. seen[w]
  BY DEF Account
<1>4. Told(w) \union Held(w) \union Queued(w) \union dropped[w] = {} /\ 1 .. seen[w] = {}
  BY <1>3
<1>5. Accounted(w)'
  <2>1. /\ \A i, j \in ToldAt(w) : i < j => emitted[w][i].k < emitted[w][j].k
        /\ \A i, j \in HeldAt(w) : i < j => pending[i][2].k < pending[j][2].k
        /\ \A i, j \in 1 .. Len(queue[w]) : i < j => queue[w][i] < queue[w][j]
        /\ emitted' = emitted /\ pending' = pending /\ queue' = queue
        /\ dropped' = dropped /\ seen' = seen
    BY DEF Account, Accounted
  <2> HIDE DEF AccountInv, Open, tickVars
  <2>2. Told(w)' = {} /\ Held(w)' = {} /\ Queued(w)' = {} /\ dropped'[w] = {} /\ 1 .. seen'[w] = {}
    BY <1>2, <1>4, <2>1
  <2>3. Before(Told(w)', Held(w)' \union Queued(w)') /\ Before(Held(w)', Queued(w)')
    BY <2>2 DEF Before
  <2> QED BY <1>2, <2>1, <2>2, <2>3 DEF Accounted
<1>6. registry'[w] /\ opened'[w]
  BY DEF Flags
<1>7. Account(w)'
  BY <1>2, <1>3, <1>5, <1>6 DEF Account
<1> QED BY <1>1, <1>7 DEF Sets

\* A note that is no change, or none at all.
LEMMA EmitAccount ==
  ASSUME Typed, NEW w \in Watchers, NEW n, ~IsChange(n), Emit(w, n)
  PROVE  /\ ToldAt(w)' = ToldAt(w) /\ Told(w)' = Told(w)
         /\ emitted'[w] = Append(emitted[w], n)
<1>1. emitted[w] \in Seq(Notes) /\ emitted'[w] = Append(emitted[w], n)
  BY DEF Typed, Emit
<1>2. /\ Len(emitted'[w]) = Len(emitted[w]) + 1 /\ Len(emitted[w]) \in Nat
      /\ emitted'[w][Len(emitted[w]) + 1] = n
      /\ \A i \in 1 .. Len(emitted[w]) : emitted'[w][i] = emitted[w][i]
  BY <1>1
<1>3. ToldAt(w)' = ToldAt(w)
  BY <1>2 DEF ToldAt
<1> QED BY <1>1, <1>2, <1>3 DEF Told, ToldAt

LEMMA CloseEffectAccount ==
  ASSUME Typed, Flags, AccountInv, NEW w \in Watchers, CloseEffect(w),
         UNCHANGED <<seen, dropped, opened, pending>>
  PROVE  AccountInv'
<1> USE DEF AccountInv
<1>1. CASE ~registry[w]
  <2>1. UNCHANGED <<registry, native, queue, missed, emitted>>
    BY <1>1 DEF CloseEffect, TellsNothing
  <2> QED BY <2>1, HeldFrame, AccountFrame DEF Sets
<1>2. CASE registry[w]
  <2>1. Destroy(w) /\ Emit(w, Closed) /\ registry' = [registry EXCEPT ![w] = FALSE]
    BY <1>2 DEF CloseEffect
  <2>2. ASSUME NEW u \in Watchers, u # w PROVE Account(u)'
    <3>1. /\ emitted'[u] = emitted[u] /\ queue'[u] = queue[u] /\ registry'[u] = registry[u]
          /\ native'[u] = native[u]
      BY <2>1, <2>2 DEF Destroy, Emit, Typed, Flags, Sets
    <3>2. Account(u)
      OBVIOUS
    <3> QED BY <3>1, <3>2, HeldFrame, AccountFrame
  <2>3. ToldAt(w)' = ToldAt(w) /\ Told(w)' = Told(w) /\ emitted'[w] = Append(emitted[w], Closed)
    BY <2>1, EmitAccount DEF Closed, Note, IsChange
  <2>4. HeldAt(w)' = HeldAt(w) /\ Held(w)' = Held(w)
    BY DEF HeldAt, Held
  <2>5. queue'[w] = <<>> /\ Queued(w)' = {} /\ ~native'[w]
    BY <2>1 DEF Destroy, Queued, Typed, Sets
  <2>6. \A i, j \in ToldAt(w) : i < j => emitted'[w][i].k < emitted'[w][j].k
    <3>1. \A i \in ToldAt(w) : emitted'[w][i] = emitted[w][i]
      BY <2>3 DEF ToldAt, Typed
    <3> QED BY <3>1 DEF Account, Accounted
  <2>7. Accounted(w)'
    <3>1. /\ \A i, j \in HeldAt(w) : i < j => pending[i][2].k < pending[j][2].k
          /\ Before(Told(w), Held(w) \union Queued(w))
          /\ dropped[w] \intersect (Told(w) \union Held(w) \union Queued(w)) = {}
          /\ pending' = pending /\ dropped' = dropped
      BY DEF Account, Accounted
    <3>2. Before(Told(w)', Held(w)' \union Queued(w)') /\ Before(Held(w)', Queued(w)')
      BY <2>3, <2>4, <2>5, <3>1 DEF Before
    <3>3. dropped'[w] \intersect (Told(w)' \union Held(w)' \union Queued(w)') = {}
      BY <2>3, <2>4, <2>5, <3>1
    <3>4. \A i, j \in 1 .. Len(queue'[w]) : FALSE
      BY <2>5
    <3> QED BY <2>3, <2>4, <2>5, <2>6, <3>1, <3>2, <3>3, <3>4 DEF Accounted
  <2>8. Account(w)'
    BY <2>3, <2>4, <2>5, <2>7 DEF Account
  <2> QED BY <2>1, <2>2, <2>8 DEF Destroy, Sets
<1> QED BY <1>1, <1>2

\* A watcher is told something that is no change, and nothing else happens.
LEMMA NoticeAccount ==
  ASSUME Typed, AccountInv, NEW w \in Watchers, NEW n, ~IsChange(n), Emit(w, n),
         UNCHANGED <<native, queue, missed, seen, dropped, registry, opened, pending>>
  PROVE  AccountInv'
<1> USE DEF AccountInv
<1>2. ASSUME NEW u \in Watchers, u # w PROVE Account(u)'
  <2>1. emitted'[u] = emitted[u] /\ Account(u)
    BY <1>2 DEF Emit, Typed
  <2> QED BY <2>1, HeldFrame, AccountFrame
<1>3. ToldAt(w)' = ToldAt(w) /\ Told(w)' = Told(w) /\ emitted'[w] = Append(emitted[w], n)
  BY EmitAccount
<1>4. HeldAt(w)' = HeldAt(w) /\ Held(w)' = Held(w) /\ Queued(w)' = Queued(w)
  BY DEF HeldAt, Held, Queued
<1>5. \A i, j \in ToldAt(w) : i < j => emitted'[w][i].k < emitted'[w][j].k
  <2>1. \A i \in ToldAt(w) : emitted'[w][i] = emitted[w][i]
    BY <1>3 DEF ToldAt, Typed
  <2> QED BY <2>1 DEF Account, Accounted
<1>6. Accounted(w)'
  BY <1>3, <1>4, <1>5 DEF Account, Accounted
<1>7. Account(w)'
  BY <1>3, <1>4, <1>6 DEF Account
<1> QED BY <1>2, <1>7 DEF Sets

LEMMA RefuseAccount ==
  ASSUME Typed, AccountInv, Refuse
  PROVE  AccountInv'
<1>1. UNCHANGED <<native, queue, missed, seen, dropped, registry, opened, pending>> /\ cur' \in Watchers
  BY DEF Refuse, nativeVars, Typed
<1>2. CASE ~registry[cur']
  <2>1. UNCHANGED emitted
    BY <1>2 DEF Refuse, TellsNothing
  <2> QED BY <1>1, <2>1, HeldFrame, AccountFrame DEF Sets, AccountInv
<1>3. CASE registry[cur']
  <2>1. Emit(cur', Refused)
    BY <1>3 DEF Refuse
  <2>2. ~IsChange(Refused)
    BY DEF Refused, Note, IsChange
  <2> QED BY <1>1, <2>1, <2>2, NoticeAccount
<1> QED BY <1>2, <1>3

LEMMA ThrowsAccount ==
  ASSUME Typed, AccountInv, ListenerThrows
  PROVE  AccountInv'
<1>1. /\ frames # <<>> /\ Emit(Head(frames).w, Thrown)
      /\ UNCHANGED <<native, queue, missed, seen, dropped, registry, opened, pending>>
  BY DEF ListenerThrows, Listening, nativeVars
<1>2. Head(frames).w \in Watchers
  <2>1. Head(frames) \in Frames
    BY <1>1 DEF Typed
  <2> QED BY <2>1 DEF Frames
<1>3. ~IsChange(Thrown)
  BY DEF Thrown, Note, IsChange
<1> QED BY <1>1, <1>2, <1>3, NoticeAccount

\* The steps of the host and of the tick that move no event.
LEMMA QuietAccount ==
  ASSUME Typed, AccountInv,
         \/ EmissionEnds \/ Sleep \/ Woken \/ TimedOut \/ BeginDrain \/ NextWatcher
         \/ BeginDispatch \/ EndTick \/ UNCHANGED vars
  PROVE  AccountInv'
<1>1. UNCHANGED <<native, queue, missed, seen, dropped, registry, opened, emitted, pending>>
  BY DEF EmissionEnds, Sleep, Woken, TimedOut, BeginTick, BeginDrain, NextWatcher,
         BeginDispatch, EndTick, vars, nativeVars, jsVars, tickVars
<1>2. ASSUME NEW w \in Watchers PROVE Account(w)'
  BY <1>1, HeldFrame, AccountFrame DEF AccountInv
<1> QED BY <1>1, <1>2 DEF AccountInv, Sets

\* Revocation: the watcher stops, and what was in its ring is gone.
LEMMA RevokeAccount ==
  ASSUME Typed, AccountInv, NEW w \in Watchers, Revoke(w)
  PROVE  AccountInv'
<1>1. /\ Destroy(w)
      /\ UNCHANGED <<seen, dropped, registry, opened, emitted, pending>>
  BY DEF Revoke, jsVars, tickVars
<1>2. ASSUME NEW u \in Watchers, u # w PROVE Account(u)'
  <2>1. native'[u] = native[u] /\ queue'[u] = queue[u] /\ Account(u)
    BY <1>1, <1>2 DEF Destroy, AccountInv, Sets, Typed
  <2> QED BY <1>1, <2>1, HeldFrame, AccountFrame
<1>3. /\ Told(w)' = Told(w) /\ ToldAt(w)' = ToldAt(w)
      /\ Held(w)' = Held(w) /\ HeldAt(w)' = HeldAt(w)
  BY <1>1 DEF Told, ToldAt, Held, HeldAt
<1>4. queue'[w] = <<>> /\ Queued(w)' = {} /\ ~native'[w]
  BY <1>1 DEF Destroy, Queued, AccountInv, Sets, Typed
<1>5. /\ \A i, j \in ToldAt(w) : i < j => emitted[w][i].k < emitted[w][j].k
      /\ \A i, j \in HeldAt(w) : i < j => pending[i][2].k < pending[j][2].k
      /\ Before(Told(w), Held(w) \union Queued(w))
      /\ dropped[w] \intersect (Told(w) \union Held(w) \union Queued(w)) = {}
      /\ Told(w) \union Held(w) \union Queued(w) \union dropped[w] \subseteq 1 .. seen[w]
      /\ ~opened[w] => seen[w] = 0
  BY DEF AccountInv, Account, Accounted
<1>6. Before(Told(w)', Held(w)' \union Queued(w)') /\ Before(Held(w)', Queued(w)')
  BY <1>3, <1>4, <1>5 DEF Before
<1>7. dropped'[w] \intersect (Told(w)' \union Held(w)' \union Queued(w)') = {}
  BY <1>1, <1>3, <1>4, <1>5
<1>8. \A i, j \in 1 .. Len(queue'[w]) : FALSE
  BY <1>4
<1>9. Accounted(w)'
  BY <1>1, <1>3, <1>4, <1>5, <1>6, <1>7, <1>8 DEF Accounted
<1>10. Account(w)'
  BY <1>1, <1>3, <1>4, <1>5, <1>9 DEF Account
<1>11. Sets'
  BY <1>1 DEF Destroy, AccountInv, Sets
<1> QED BY <1>2, <1>10, <1>11 DEF AccountInv

\* One more event held by the tick, for w.
LEMMA HoldAppend ==
  ASSUME Typed, NEW w \in Watchers, NEW n, pending' = Append(pending, <<w, n>>)
  PROVE  /\ \A u \in Watchers \ {w} : HeldAt(u)' = HeldAt(u)
         /\ \A i \in 1 .. Len(pending) : pending'[i] = pending[i]
         /\ \A u \in Watchers : HeldAt(u) \subseteq 1 .. Len(pending)
         /\ Len(pending) \in Nat
         /\ pending'[Len(pending) + 1] = <<w, n>>
         /\ HeldAt(w)' = HeldAt(w) \union {i \in {Len(pending) + 1} : IsChange(n)}
<1>1. Len(pending') = Len(pending) + 1 /\ Len(pending) \in Nat
      /\ pending'[Len(pending) + 1] = <<w, n>>
      /\ \A i \in 1 .. Len(pending) : pending'[i] = pending[i]
  BY DEF Typed
<1>2. <<w, n>>[1] = w /\ <<w, n>>[2] = n
  OBVIOUS
<1>3. \A u \in Watchers : HeldAt(u) \subseteq 1 .. Len(pending)
  BY DEF HeldAt
<1>4. ASSUME NEW u \in Watchers \ {w} PROVE HeldAt(u)' = HeldAt(u)
  BY <1>1, <1>2, <1>4 DEF HeldAt
<1>5. HeldAt(w)' = HeldAt(w) \union {i \in {Len(pending) + 1} : IsChange(n)}
  BY <1>1, <1>2 DEF HeldAt
<1> QED BY <1>1, <1>3, <1>4, <1>5

\* The oldest event of the ring is the youngest that the tick holds.
LEMMA DrainOneAccount ==
  ASSUME Typed, AccountInv, DrainOne
  PROVE  AccountInv'
<1>1. PICK w \in Watchers : w = cur
  BY DEF Typed, DrainOne
<1>2. PICK k \in Nat : k = Head(queue[w])
  BY <1>1 DEF Typed, DrainOne
<1>3. /\ UNCHANGED <<native, missed, seen, dropped, registry, opened, emitted>>
      /\ pending' = Append(pending, <<w, Change(k)>>)
      /\ queue' = [queue EXCEPT ![w] = Tail(@)]
      /\ queue[w] # <<>>
  BY <1>1, <1>2 DEF DrainOne, jsVars
<1>4. IsChange(Change(k)) /\ Change(k).k = k
  BY DEF IsChange, Change, Note
<1>5. /\ \A u \in Watchers \ {w} : HeldAt(u)' = HeldAt(u)
      /\ \A i \in 1 .. Len(pending) : pending'[i] = pending[i]
      /\ \A u \in Watchers : HeldAt(u) \subseteq 1 .. Len(pending)
      /\ Len(pending) \in Nat
      /\ pending'[Len(pending) + 1] = <<w, Change(k)>>
      /\ HeldAt(w)' = HeldAt(w) \union {Len(pending) + 1}
  BY <1>3, <1>4, HoldAppend
<1>6. ASSUME NEW u \in Watchers, u # w PROVE Account(u)'
  <2>1. HeldAt(u)' = HeldAt(u) /\ \A i \in HeldAt(u) : pending'[i] = pending[i]
    BY <1>5, <1>6
  <2>2. queue'[u] = queue[u] /\ Account(u)
    BY <1>3, <1>6 DEF Typed, AccountInv
  <2> QED BY <1>3, <2>1, <2>2, AccountFrame
<1>7. /\ Len(queue[w]) \in Nat \ {0} /\ Len(queue'[w]) = Len(queue[w]) - 1
      /\ k = queue[w][1]
      /\ \A i \in 1 .. Len(queue'[w]) : queue'[w][i] = queue[w][i + 1]
  BY <1>2, <1>3 DEF Typed
<1>8. Told(w)' = Told(w) /\ ToldAt(w)' = ToldAt(w)
  BY <1>3 DEF Told, ToldAt
<1>9. Queued(w) = Queued(w)' \union {k}
  <2>1. \A i \in 1 .. Len(queue[w]) : i = 1 \/ i - 1 \in 1 .. Len(queue'[w])
    BY <1>7
  <2>2. \A i \in 1 .. Len(queue'[w]) : i + 1 \in 1 .. Len(queue[w])
    BY <1>7
  <2>3. \A i \in 1 .. Len(queue[w]) : i = 1 \/ queue[w][i] = queue'[w][i - 1]
    BY <1>7, <2>1
  <2>4. \A i \in 1 .. Len(queue[w]) : queue[w][i] \in Queued(w)' \union {k}
    BY <1>7, <2>1, <2>3 DEF Queued
  <2>5. \A i \in 1 .. Len(queue'[w]) : queue'[w][i] \in Queued(w)
    BY <1>7, <2>2 DEF Queued
  <2>6. k \in Queued(w)
    BY <1>7 DEF Queued
  <2> QED BY <2>4, <2>5, <2>6 DEF Queued
<1>10. Held(w)' = Held(w) \union {k}
  <2>1. pending'[Len(pending) + 1][2].k = k
    BY <1>4, <1>5
  <2>2. \A i \in HeldAt(w) : pending'[i] = pending[i]
    BY <1>5
  <2> QED BY <1>5, <2>1, <2>2 DEF Held
<1>11. /\ \A i, j \in ToldAt(w) : i < j => emitted[w][i].k < emitted[w][j].k
       /\ \A i, j \in HeldAt(w) : i < j => pending[i][2].k < pending[j][2].k
       /\ \A i, j \in 1 .. Len(queue[w]) : i < j => queue[w][i] < queue[w][j]
       /\ Before(Told(w), Held(w) \union Queued(w)) /\ Before(Held(w), Queued(w))
       /\ dropped[w] \intersect (Told(w) \union Held(w) \union Queued(w)) = {}
       /\ native[w] => 1 .. seen[w] = dropped[w] \union Told(w) \union Held(w) \union Queued(w)
       /\ Told(w) \union Held(w) \union Queued(w) \union dropped[w] \subseteq 1 .. seen[w]
       /\ native[w] => registry[w]
       /\ ~opened[w] => ~native[w] /\ seen[w] = 0
  BY DEF AccountInv, Account, Accounted
<1>12. \A i, j \in 1 .. Len(queue'[w]) : i < j => queue'[w][i] < queue'[w][j]
  <2>1. ASSUME NEW i \in 1 .. Len(queue'[w]), NEW j \in 1 .. Len(queue'[w]), i < j
        PROVE  queue'[w][i] < queue'[w][j]
    <3>1. i + 1 \in 1 .. Len(queue[w]) /\ j + 1 \in 1 .. Len(queue[w]) /\ i + 1 < j + 1
      BY <1>7, <2>1
    <3> QED BY <1>7, <1>11, <3>1
  <2> QED BY <2>1
<1>13. \A m \in Queued(w)' : k < m
  <2>1. ASSUME NEW i \in 1 .. Len(queue'[w]) PROVE k < queue'[w][i]
    <3>1. i + 1 \in 1 .. Len(queue[w]) /\ 1 \in 1 .. Len(queue[w]) /\ 1 < i + 1
      BY <1>7
    <3> QED BY <1>7, <1>11, <3>1
  <2> QED BY <2>1 DEF Queued
<1>14. \A i, j \in HeldAt(w)' : i < j => pending'[i][2].k < pending'[j][2].k
  <2>1. \A i \in HeldAt(w) : pending'[i][2].k < k
    <3>1. \A i \in HeldAt(w) : pending[i][2].k \in Held(w) /\ pending'[i] = pending[i]
      BY <1>5 DEF Held
    <3>2. k \in Queued(w)
      BY <1>9
    <3> QED BY <1>11, <3>1, <3>2 DEF Before
  <2>2. \A i, j \in HeldAt(w) : i < j => pending'[i][2].k < pending'[j][2].k
    BY <1>5, <1>11
  <2>3. pending'[Len(pending) + 1][2].k = k
    BY <1>4, <1>5
  <2>4. \A i \in HeldAt(w) : i < Len(pending) + 1 /\ i \in Nat
    BY <1>5
  <2> QED BY <1>5, <2>1, <2>2, <2>3, <2>4
<1>15. Before(Told(w)', Held(w)' \union Queued(w)') /\ Before(Held(w)', Queued(w)')
  BY <1>8, <1>9, <1>10, <1>11, <1>13 DEF Before
<1>16. /\ Held(w)' \union Queued(w)' = Held(w) \union Queued(w)
       /\ UNCHANGED <<seen, dropped, native, emitted>>
  BY <1>3, <1>9, <1>10
<1>17. Accounted(w)'
  <2>1. dropped'[w] \intersect (Told(w)' \union Held(w)' \union Queued(w)') = {}
    BY <1>8, <1>11, <1>16
  <2>2. native'[w] => 1 .. seen'[w] = dropped'[w] \union Told(w)' \union Held(w)' \union Queued(w)'
    BY <1>8, <1>11, <1>16
  <2> QED BY <1>8, <1>11, <1>12, <1>14, <1>15, <1>16, <2>1, <2>2 DEF Accounted
<1>18. Account(w)'
  BY <1>3, <1>8, <1>11, <1>16, <1>17 DEF Account
<1>19. Sets'
  BY <1>3 DEF AccountInv, Sets
<1> QED BY <1>6, <1>18, <1>19 DEF AccountInv

LEMMA DrainOverflowAccount ==
  ASSUME Typed, AccountInv, DrainOverflow
  PROVE  AccountInv'
<1>1. /\ UNCHANGED <<native, queue, seen, dropped, registry, opened, emitted>>
      /\ missed' = [missed EXCEPT ![cur] = FALSE]
      /\ cur \in Watchers
      /\ pending' = pending \/ pending' = Append(pending, <<cur, Overflow>>)
  BY DEF DrainOverflow, jsVars, Typed
<1>2. ~IsChange(Overflow)
  BY DEF IsChange, Overflow, Note
<1>3. ASSUME NEW u \in Watchers
      PROVE  HeldAt(u)' = HeldAt(u) /\ \A i \in HeldAt(u) : pending'[i] = pending[i]
  BY <1>1, <1>2, HoldAppend, HeldFrame
<1>4. ASSUME NEW u \in Watchers PROVE Account(u)'
  BY <1>1, <1>3, AccountFrame DEF AccountInv
<1> QED BY <1>1, <1>4 DEF AccountInv, Sets

\* The first of what the tick holds is gone.
LEMMA HoldTail ==
  ASSUME Typed, AccountInv, pending # <<>>, pending' = Tail(pending), NEW w \in Watchers
  PROVE  /\ \A i, j \in HeldAt(w)' : i < j => pending'[i][2].k < pending'[j][2].k
         /\ Held(w)' \subseteq Held(w)
         /\ 1 \notin HeldAt(w) => Held(w)' = Held(w)
         /\ 1 \in HeldAt(w) => /\ Held(w) = Held(w)' \union {pending[1][2].k}
                               /\ \A m \in Held(w)' : pending[1][2].k < m
<1>1. /\ Len(pending) \in Nat \ {0} /\ Len(pending') = Len(pending) - 1
      /\ \A i \in 1 .. Len(pending') : pending'[i] = pending[i + 1]
  BY DEF Typed
<1>2. ASSUME NEW i \in HeldAt(w)'
      PROVE  i \in Nat /\ i + 1 \in HeldAt(w) /\ pending'[i] = pending[i + 1] /\ i + 1 > 1
  BY <1>1, <1>2 DEF HeldAt
<1>3. ASSUME NEW i \in HeldAt(w), i # 1
      PROVE  i - 1 \in HeldAt(w)' /\ pending'[i - 1] = pending[i]
  <2>1. i - 1 \in 1 .. Len(pending') /\ i - 1 + 1 = i
    BY <1>1, <1>3 DEF HeldAt
  <2>2. pending'[i - 1] = pending[i]
    BY <1>1, <2>1
  <2> QED BY <1>3, <2>1, <2>2 DEF HeldAt
<1>4. \A i, j \in HeldAt(w) : i < j => pending[i][2].k < pending[j][2].k
  BY DEF AccountInv, Account, Accounted
<1>5. \A i, j \in HeldAt(w)' : i < j => pending'[i][2].k < pending'[j][2].k
  <2>1. ASSUME NEW i \in HeldAt(w)', NEW j \in HeldAt(w)', i < j
        PROVE  pending'[i][2].k < pending'[j][2].k
    <3>1. i + 1 < j + 1
      BY <1>2, <2>1
    <3> QED BY <1>2, <1>4, <3>1
  <2> QED BY <2>1
<1>6. Held(w)' \subseteq Held(w)
  BY <1>2 DEF Held
<1>7. \A i \in HeldAt(w) : i # 1 => pending[i][2].k \in Held(w)'
  BY <1>3 DEF Held
<1>8. 1 \notin HeldAt(w) => Held(w)' = Held(w)
  BY <1>6, <1>7 DEF Held
<1>9. ASSUME 1 \in HeldAt(w)
      PROVE  /\ Held(w) = Held(w)' \union {pending[1][2].k}
             /\ \A m \in Held(w)' : pending[1][2].k < m
  <2>1. Held(w) = Held(w)' \union {pending[1][2].k}
    BY <1>6, <1>7, <1>9 DEF Held
  <2>2. \A i \in HeldAt(w)' : pending[1][2].k < pending'[i][2].k
    BY <1>2, <1>4, <1>9
  <2> QED BY <2>1, <2>2 DEF Held
<1> QED BY <1>5, <1>6, <1>8, <1>9

\* What a watcher that is closed is not told of is no loss.
LEMMA AccountShrinks ==
  ASSUME NEW w \in Watchers, Account(w), Told(w)' = Told(w), ToldAt(w)' = ToldAt(w),
         \A i \in ToldAt(w) : emitted'[w][i] = emitted[w][i],
         \A i, j \in HeldAt(w)' : i < j => pending'[i][2].k < pending'[j][2].k,
         Held(w)' \subseteq Held(w), native[w] => Held(w)' = Held(w),
         UNCHANGED <<native, queue, seen, dropped, registry, opened>>
  PROVE  Account(w)'
<1>1. Queued(w)' = Queued(w)
  BY DEF Queued
<1>2. /\ \A i, j \in ToldAt(w) : i < j => emitted[w][i].k < emitted[w][j].k
      /\ \A i, j \in 1 .. Len(queue[w]) : i < j => queue[w][i] < queue[w][j]
      /\ Before(Told(w), Held(w) \union Queued(w)) /\ Before(Held(w), Queued(w))
      /\ dropped[w] \intersect (Told(w) \union Held(w) \union Queued(w)) = {}
      /\ native[w] => 1 .. seen[w] = dropped[w] \union Told(w) \union Held(w) \union Queued(w)
  BY DEF Account, Accounted
<1>3. Before(Told(w)', Held(w)' \union Queued(w)') /\ Before(Held(w)', Queued(w)')
  BY <1>1, <1>2 DEF Before
<1>4. dropped'[w] \intersect (Told(w)' \union Held(w)' \union Queued(w)') = {}
  BY <1>1, <1>2
<1>5. native'[w] => 1 .. seen'[w] = dropped'[w] \union Told(w)' \union Held(w)' \union Queued(w)'
  BY <1>1, <1>2
<1>6. Accounted(w)'
  BY <1>1, <1>2, <1>3, <1>4, <1>5 DEF Accounted
<1> QED BY <1>1, <1>6 DEF Account

LEMMA DispatchAccount ==
  ASSUME Typed, AccountInv, Dispatch
  PROVE  AccountInv'
<1>1. /\ pending # <<>> /\ pending' = Tail(pending)
      /\ UNCHANGED <<native, queue, missed, seen, dropped, registry, opened>>
  BY DEF Dispatch, nativeVars
<1>2. PICK w \in Watchers, n \in News : w = pending[1][1] /\ n = pending[1][2]
  <2>1. pending[1] \in Watchers \X News
    BY <1>1 DEF Typed
  <2> QED BY <2>1
<1>3. /\ registry[w] => Emit(w, n)
      /\ ~registry[w] => UNCHANGED emitted
  BY <1>1, <1>2 DEF Dispatch, Typed, TellsNothing
<1>4. \A u \in Watchers : 1 \in HeldAt(u) <=> u = w /\ IsChange(n)
  <2>1. 1 \in 1 .. Len(pending)
    BY <1>1 DEF Typed
  <2> QED BY <1>2, <2>1 DEF HeldAt
<1>5. ASSUME NEW u \in Watchers, u # w \/ ~IsChange(n) \/ ~registry[w] PROVE Account(u)'
  <2>1. Account(u) /\ (native[w] => registry[w])
    BY DEF AccountInv, Account
  <2>2. CASE u # w \/ ~registry[w]
    <3>1. emitted'[u] = emitted[u]
      BY <1>3, <2>2 DEF Emit, Typed
    <3>2. Told(u)' = Told(u) /\ ToldAt(u)' = ToldAt(u)
      BY <3>1 DEF Told, ToldAt
    <3> QED BY <1>1, <1>4, <2>1, <2>2, <3>1, <3>2, HoldTail, AccountShrinks
  <2>3. CASE u = w /\ ~IsChange(n) /\ registry[w]
    <3>1. ToldAt(u)' = ToldAt(u) /\ Told(u)' = Told(u) /\ emitted'[u] = Append(emitted[u], n)
      BY <1>3, <2>3, EmitAccount
    <3>2. \A i \in ToldAt(u) : emitted'[u][i] = emitted[u][i]
      BY <3>1 DEF ToldAt, Typed
    <3> QED BY <1>1, <1>4, <2>1, <2>3, <3>1, <3>2, HoldTail, AccountShrinks
  <2> QED BY <1>5, <2>2, <2>3
<1>6. ASSUME IsChange(n), registry[w] PROVE Account(w)'
  <2>1. PICK k : k = n.k
    OBVIOUS
  <2>2. /\ \A i, j \in HeldAt(w)' : i < j => pending'[i][2].k < pending'[j][2].k
        /\ Held(w) = Held(w)' \union {k}
        /\ \A m \in Held(w)' : k < m
    BY <1>1, <1>2, <1>4, <1>6, <2>1, HoldTail
  <2>3. /\ emitted[w] \in Seq(Notes) /\ emitted'[w] = Append(emitted[w], n)
        /\ emitted'[w][Len(emitted[w]) + 1] = n
        /\ Len(emitted'[w]) = Len(emitted[w]) + 1 /\ Len(emitted[w]) \in Nat
        /\ \A i \in 1 .. Len(emitted[w]) : emitted'[w][i] = emitted[w][i]
    <3>1. emitted[w] \in Seq(Notes) /\ emitted'[w] = Append(emitted[w], n)
      BY <1>3, <1>6 DEF Emit, Typed
    <3> QED BY <3>1
  <2>4. /\ ToldAt(w) \subseteq 1 .. Len(emitted[w])
        /\ ToldAt(w)' = ToldAt(w) \union {Len(emitted[w]) + 1}
    BY <1>6, <2>3 DEF ToldAt
  <2>5. Told(w)' = Told(w) \union {k}
    BY <2>1, <2>3, <2>4 DEF Told
  <2>6. Queued(w)' = Queued(w)
    BY <1>1 DEF Queued
  <2>7. /\ \A i, j \in ToldAt(w) : i < j => emitted[w][i].k < emitted[w][j].k
        /\ \A i, j \in 1 .. Len(queue[w]) : i < j => queue[w][i] < queue[w][j]
        /\ Before(Told(w), Held(w) \union Queued(w)) /\ Before(Held(w), Queued(w))
        /\ dropped[w] \intersect (Told(w) \union Held(w) \union Queued(w)) = {}
        /\ native[w] => 1 .. seen[w] = dropped[w] \union Told(w) \union Held(w) \union Queued(w)
        /\ Told(w) \union Held(w) \union Queued(w) \union dropped[w] \subseteq 1 .. seen[w]
        /\ native[w] => registry[w]
        /\ ~opened[w] => ~native[w] /\ seen[w] = 0
    BY DEF AccountInv, Account, Accounted
  <2>8. \A i, j \in ToldAt(w)' : i < j => emitted'[w][i].k < emitted'[w][j].k
    <3>1. \A i \in ToldAt(w) : emitted'[w][i].k < k
      <4>1. \A i \in ToldAt(w) : emitted[w][i].k \in Told(w) /\ emitted'[w][i] = emitted[w][i]
        BY <2>3, <2>4 DEF Told
      <4>2. k \in Held(w)
        BY <2>2
      <4> QED BY <2>7, <4>1, <4>2 DEF Before
    <3>2. \A i, j \in ToldAt(w) : i < j => emitted'[w][i].k < emitted'[w][j].k
      BY <2>3, <2>4, <2>7
    <3>3. \A i \in ToldAt(w) : i < Len(emitted[w]) + 1 /\ i \in Nat
      BY <2>3, <2>4
    <3> QED BY <2>1, <2>3, <2>4, <3>1, <3>2, <3>3
  <2>9. Before(Told(w)', Held(w)' \union Queued(w)') /\ Before(Held(w)', Queued(w)')
    BY <2>2, <2>5, <2>6, <2>7 DEF Before
  <2>10. Told(w)' \union Held(w)' \union Queued(w)' = Told(w) \union Held(w) \union Queued(w)
    BY <2>2, <2>5, <2>6
  <2>11. dropped'[w] \intersect (Told(w)' \union Held(w)' \union Queued(w)') = {}
    BY <1>1, <2>7, <2>10
  <2>12. native'[w] => 1 .. seen'[w] = dropped'[w] \union Told(w)' \union Held(w)' \union Queued(w)'
    BY <1>1, <2>2, <2>5, <2>6, <2>7
  <2>13. Accounted(w)'
    BY <1>1, <2>2, <2>7, <2>8, <2>9, <2>11, <2>12 DEF Accounted
  <2> QED BY <1>1, <2>7, <2>10, <2>13 DEF Account
<1>7. \A u \in Watchers : Account(u)'
  BY <1>5, <1>6
<1> QED BY <1>1, <1>7 DEF AccountInv, Sets

LEMMA NextAccount == WatchInv /\ AccountInv /\ [Next]_vars => AccountInv'
<1> SUFFICES ASSUME WatchInv, AccountInv, [Next]_vars PROVE AccountInv'
  OBVIOUS
<1>1. Typed /\ Flags
  BY DEF WatchInv
<1>2. ASSUME NEW w \in Watchers, Close(w) PROVE AccountInv'
  BY <1>1, <1>2, CloseEffectAccount DEF Close, tickVars
<1>3. ASSUME NEW w \in Watchers, Push(w) \/ Drop(w) \/ Open(w) \/ Revoke(w) PROVE AccountInv'
  BY <1>1, <1>3, PushAccount, DropAccount, OpenAccount, RevokeAccount
<1>4. CASE CloseRefused
  BY <1>1, <1>4, CloseEffectAccount DEF CloseRefused, Typed
<1>5. CASE ListenerThrows \/ Refuse \/ DrainOne \/ DrainOverflow \/ Dispatch
  BY <1>1, <1>5, ThrowsAccount, RefuseAccount, DrainOneAccount, DrainOverflowAccount, DispatchAccount
<1> QED BY <1>1, <1>2, <1>3, <1>4, <1>5, QuietAccount DEF Next, Tick

\* Each event a running watcher's thread saw is told, held by the tick, in the ring or
\* dropped, in one of these places, in order (FsWatcher::drain, js_fs_watch_tick and
\* its dispatch), whatever listeners do to any watcher between drain and dispatch.
THEOREM NoEventGoesAstray == Spec => []EventsAccounted
<1>1. AccountInv => EventsAccounted
  BY DEF AccountInv, Account, EventsAccounted
<1> QED BY <1>1, WatchHolds, InitAccount, NextAccount, PTL DEF Spec

================================================================================
