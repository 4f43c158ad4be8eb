----------------------------- MODULE FsEventRing ------------------------------
(***************************************************************************)
(* The lock-free single-producer single-consumer ring of one FsWatcher     *)
(* (src/src/api/fs_watch.h, src/src/api/fs_watch.cpp).  The producer is    *)
(* the platform's watcher thread in pushEvent; the consumer is the JS      *)
(* thread: the host sleeps in waitForNetEvents, then the tick drains.      *)
(*                                                                         *)
(* Every access to a variable the two threads share is a step of its own.  *)
(* head_, tail_ and overflow_ are release/acquire atomics and each slot is *)
(* written before the index that publishes it, so interleaving the steps   *)
(* one at a time is exact.  An event is its serial number; a slot keeps    *)
(* type and filename apart because pushEvent writes them apart.            *)
(*                                                                         *)
(* The wake is the single flag `wakeRaised` here; module NetWait models    *)
(* how the process keeps that flag.                                        *)
(***************************************************************************)
EXTENDS Integers, Sequences

CONSTANTS Capacity,   \* kCap, the length of the ring (fs_watch.h:77: 1024)
          MaxPushes   \* bound: how many times the producer calls pushEvent

ASSUME CapacityAssumption == Capacity \in Nat /\ Capacity >= 2
ASSUME MaxPushesAssumption == MaxPushes \in Nat

VARIABLES ring,       \* ring_: [0 .. Capacity-1 -> slots]
          head,       \* head_: the consumer reads from here
          tail,       \* tail_: the producer writes here
          overflow,   \* overflow_
          wakeRaised, \* a wakeNetWait not yet answered by a return of the wait
          ppc,        \* where the producer is in pushEvent
          begun,      \* serial number of the latest pushEvent call
          cpc,        \* where the JS thread is
          received,   \* history: what drain handed to the tick, oldest first
          lost        \* history: <<serial, Len(received) at the drop>>

producerVars == <<ppc, begun>>
consumerVars == <<cpc, received>>
watcherVars == <<ring, head, tail, overflow, wakeRaised, ppc, begun, cpc, received, lost>>

Index == 0 .. Capacity - 1
Serial == 1 .. MaxPushes

\* The slot holding event k, fully written.
EventOf(k) == [type |-> k, filename |-> k]

\* A slot nothing was written to (Event's default constructor).
Empty == EventOf(0)

\* The synthetic Error event of drain, which carries no serial number.
OverflowMark == EventOf(0)

Slot == [type : 0 .. MaxPushes, filename : 0 .. MaxPushes]

Succ(i) == (i + 1) % Capacity

Used == (tail - head) % Capacity

TypeOK == /\ ring \in [Index -> Slot]
          /\ head \in Index
          /\ tail \in Index
          /\ overflow \in BOOLEAN
          /\ wakeRaised \in BOOLEAN
          /\ ppc \in {"idle", "full", "type", "filename", "publish", "wake"}
          /\ begun \in 0 .. MaxPushes
          /\ cpc \in {"idle", "wait", "loop", "take", "advance", "exchange"}
          /\ received \in Seq(Slot)
          /\ lost \subseteq (0 .. MaxPushes) \X Nat

RingInit == /\ ring = [i \in Index |-> Empty]
            /\ head = 0
            /\ tail = 0
            /\ overflow = FALSE
            /\ wakeRaised = FALSE
            /\ ppc = "idle"
            /\ begun = 0
            /\ cpc = "idle"
            /\ received = <<>>
            /\ lost = {}

-------------------------------------------------------------------------------
(* The producer: pushEvent, one shared access at a time.                    *)

\* Mutant: a push that does not look whether the ring is full.
BeginPushUnchecked == /\ ppc = "idle"
                      /\ begun < MaxPushes
                      /\ begun' = begun + 1
                      /\ ppc' = "type"
                      /\ UNCHANGED <<ring, head, tail, overflow, wakeRaised, consumerVars, lost>>

\* Mutant: a push that finds room takes an earlier overflow for reported.
BeginPushForgiving == /\ ppc = "idle"
                      /\ begun < MaxPushes
                      /\ begun' = begun + 1
                      /\ ppc' = IF Succ(tail) = head THEN "full" ELSE "type"
                      /\ overflow' = (overflow /\ Succ(tail) = head)
                      /\ UNCHANGED <<ring, head, tail, wakeRaised, consumerVars, lost>>

\* Compares the successor of tail_, its own index, with a fresh load of head_.
BeginPush == /\ ppc = "idle"
             /\ begun < MaxPushes
             /\ begun' = begun + 1
             /\ ppc' = IF Succ(tail) = head THEN "full" ELSE "type"
             /\ UNCHANGED <<ring, head, tail, overflow, wakeRaised, consumerVars, lost>>

\* The ring was full when head_ was read: the event is gone, and nothing wakes
\* the JS thread.
MarkOverflow == /\ ppc = "full"
                /\ overflow' = TRUE
                /\ lost' = lost \union {<<begun, Len(received)>>}
                /\ ppc' = "idle"
                /\ UNCHANGED <<ring, head, tail, wakeRaised, begun, consumerVars>>

WriteType == /\ ppc = "type"
             /\ ring' = [ring EXCEPT ![tail].type = begun]
             /\ ppc' = "filename"
             /\ UNCHANGED <<head, tail, overflow, wakeRaised, begun, consumerVars, lost>>

WriteFilename == /\ ppc = "filename"
                 /\ ring' = [ring EXCEPT ![tail].filename = begun]
                 /\ ppc' = "publish"
                 /\ UNCHANGED <<head, tail, overflow, wakeRaised, begun, consumerVars, lost>>

Publish == /\ ppc = "publish"
           /\ tail' = Succ(tail)
           /\ ppc' = "wake"
           /\ UNCHANGED <<ring, head, overflow, wakeRaised, begun, consumerVars, lost>>

Wake == /\ ppc = "wake"
        /\ wakeRaised' = TRUE
        /\ ppc' = "idle"
        /\ UNCHANGED <<ring, head, tail, overflow, begun, consumerVars, lost>>

Producer == BeginPush \/ MarkOverflow \/ WriteType \/ WriteFilename \/ Publish \/ Wake

-------------------------------------------------------------------------------
(* The JS thread: the host's wait and the drain of the tick.                *)

ringVars == <<ring, head, tail, overflow>>

ConsumerSleeps == /\ cpc = "idle"
                  /\ cpc' = "wait"
                  /\ UNCHANGED <<ringVars, wakeRaised, received, producerVars, lost>>

\* waitForNetEvents returns for a wake and forgets it; the host ticks.
ConsumerWoken == /\ cpc = "wait"
                 /\ wakeRaised
                 /\ wakeRaised' = FALSE
                 /\ cpc' = "loop"
                 /\ UNCHANGED <<ringVars, received, producerVars, lost>>

\* It returns for a socket or its timeout.
ConsumerTimedOut == /\ cpc = "wait"
                    /\ cpc' = "loop"
                    /\ UNCHANGED <<ringVars, wakeRaised, received, producerVars, lost>>

\* drain's loop condition: head_ against a fresh load of tail_.
CheckEmpty == /\ cpc = "loop"
              /\ cpc' = IF head = tail THEN "exchange" ELSE "take"
              /\ UNCHANGED <<ringVars, wakeRaised, received, producerVars, lost>>

\* Moves the slot out and clears its filename.
Take == /\ cpc = "take"
        /\ received' = Append(received, ring[head])
        /\ ring' = [ring EXCEPT ![head].filename = 0]
        /\ cpc' = "advance"
        /\ UNCHANGED <<head, tail, overflow, wakeRaised, producerVars, lost>>

Advance == /\ cpc = "advance"
           /\ head' = Succ(head)
           /\ cpc' = "loop"
           /\ UNCHANGED <<ring, tail, overflow, wakeRaised, received, producerVars, lost>>

\* Mutant: the wake is forgotten after the drain and not before it.
ExchangeAndForgetWake == /\ cpc = "exchange"
                         /\ received' = IF overflow THEN Append(received, OverflowMark)
                                                    ELSE received
                         /\ overflow' = FALSE
                         /\ wakeRaised' = FALSE
                         /\ cpc' = "idle"
                         /\ UNCHANGED <<ring, head, tail, producerVars, lost>>

\* Mutant: the flag is read first and lowered by a push, not exchanged.
LoadOverflow == /\ cpc = "exchange"
                /\ received' = IF overflow THEN Append(received, OverflowMark) ELSE received
                /\ cpc' = "idle"
                /\ UNCHANGED <<ring, head, tail, overflow, wakeRaised, producerVars, lost>>

\* After the loop: the overflow flag becomes an event.
ExchangeOverflow == /\ cpc = "exchange"
                    /\ received' = IF overflow THEN Append(received, OverflowMark)
                                               ELSE received
                    /\ overflow' = FALSE
                    /\ cpc' = "idle"
                    /\ UNCHANGED <<ring, head, tail, wakeRaised, producerVars, lost>>

Drain == CheckEmpty \/ Take \/ Advance \/ ExchangeOverflow

Consumer == ConsumerSleeps \/ ConsumerWoken \/ ConsumerTimedOut \/ Drain

RingNext == Producer \/ Consumer

\* The operating system runs both threads; the host goes back to its wait after
\* each tick.  Nothing makes a timeout or a socket end the wait.
RingFairness == /\ WF_watcherVars(MarkOverflow \/ WriteType \/ WriteFilename \/ Publish \/ Wake)
                /\ WF_watcherVars(ConsumerSleeps)
                /\ WF_watcherVars(ConsumerWoken)
                /\ WF_watcherVars(Drain)

RingSpec == RingInit /\ [][RingNext]_watcherVars /\ RingFairness

-------------------------------------------------------------------------------
(* Properties.                                                              *)

\* The slot at head_ the consumer has copied and not yet given back.
InHand == IF cpc = "advance" THEN 1 ELSE 0

\* The published events the consumer has not moved out, oldest first.
Buffered == [i \in 1 .. Used - InHand |-> ring[(head + InHand + i - 1) % Capacity]]

\* drain hands out whole events, each once and in the order pushEvent was called
\* for them: a slot is never read half-written nor read again after a wrap.
InOrder == \A j \in 1 .. Len(received) :
              /\ received[j].type = received[j].filename
              /\ \A i \in 1 .. j - 1 :
                    received[i] # OverflowMark /\ received[j] # OverflowMark
                       => received[i].type < received[j].type

\* A dropped event is never silent: until the overflow flag is turned into an
\* Error event, the flag stays up, whatever the drain is doing meanwhile.
DropsReported == \A d \in lost :
                    \/ overflow
                    \/ \E j \in d[2] + 1 .. Len(received) : received[j] = OverflowMark

\* The JS thread does not sleep on a published event: if it is in the wait (or on
\* its way from drain's last look at the ring) a wake is due or already raised.
NoSleepOnEvents == cpc \in {"exchange", "idle", "wait"} /\ head # tail
                      => wakeRaised \/ ppc = "wake"

\* The ring implements the lossy queue: LossyQueue's variables from the ring's.
Abstract == INSTANCE LossyQueue WITH
               Event <- {EventOf(k) : k \in Serial},
               queue <- Buffered,
               missed <- overflow

LossyQueueSpec == Abstract!Spec
===============================================================================
