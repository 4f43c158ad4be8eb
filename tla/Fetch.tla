--------------------------------- MODULE Fetch ---------------------------------
(***************************************************************************)
(* fetch() of one JS thread (src/src/api/fetch.cpp with its bridge         *)
(* js/fetch_helpers.js): the table of requests, the tick that pumps curl   *)
(* and settles promises, the natives that feed a streaming body, and the   *)
(* two ways a request is cut short, its signal and a revoked grant.        *)
(*                                                                         *)
(* The thread's state is a record, every operation an operator from it to  *)
(* the next one.  None of them runs code of the program: what they settle  *)
(* becomes a microtask in `jobs`.  The module that has the state among its *)
(* variables runs those, and says who called fetch().                      *)
(*                                                                         *)
(* Of a chunk only its size is kept.  A response that is complete when its *)
(* promise is resolved has received no data before (the first phase would  *)
(* have taken it as a streaming one), so its body is empty; a local one    *)
(* carries its bytes with it.  Neither needs a stream here: reading it     *)
(* ends at once.                                                           *)
(***************************************************************************)
EXTENDS ReadableStream, SequencesExt, FiniteSets

CONSTANTS MaxRequests,   \* bound: fetch() calls that reach the table
          MaxBytes       \* bound: bytes the server sends of one response

ASSUME FetchAssumption == MaxRequests \in Nat \ {0} /\ MaxBytes \in Nat

Ids == 1 .. MaxRequests

\* `easy`: curl has a transfer for the request; `promise`: it is not settled
\* yet; `wait`: the body's pull has left a callback.
NewRequest(http) ==
  [easy |-> http, held |-> http, promise |-> TRUE, resolved |-> FALSE,
   complete |-> ~http, received |-> FALSE, chunks |-> <<>>, wait |-> FALSE,
   revoked |-> FALSE]

\* `sent` and `end` are history: the bytes curl handed over, how the request
\* ended; `told`: how its promise was settled.
NewFetchState ==
  [req |-> <<>>, pending |-> <<>>, localPending |-> <<>>, next |-> 1,
   body |-> <<>>, jobs |-> <<>>, told |-> [i \in Ids |-> "nothing"],
   sent |-> [i \in Ids |-> 0], end |-> [i \in Ids |-> "running"]]

Live(f, id) == id \in DOMAIN f.req
Streaming(f, id) == id \in DOMAIN f.body
Transfers(f) == {id \in DOMAIN f.req : f.req[id].easy}

FetchJob(on, id, ok, chunk) == [on |-> on, id |-> id, ok |-> ok, chunk |-> chunk]

Queue(f, job) == [f EXCEPT !.jobs = Append(@, job)]

\* A table in which id has the entry v.
Enter(table, id, v) ==
  [i \in DOMAIN table \union {id} |-> IF i = id THEN v ELSE table[i]]

Erase(f, id) == [f EXCEPT !.req = [i \in DOMAIN @ \ {id} |-> @[i]]]

\* The promise of fetch() is settled, unless it was before.
Tell(f, id, outcome) ==
  IF ~f.req[id].promise THEN f
  ELSE Queue([f EXCEPT !.req[id].promise = FALSE, !.told[id] = outcome],
             FetchJob("fetched", id, outcome = "response", 0))

-------------------------------------------------------------------------------
(* A streaming body: its source pulls chunks out of the table. *)

\* The stream made a step; the reactions it queued are those of body `id`.
PutBody(f, id, s) ==
  [f EXCEPT !.body[id] = s.r,
            !.jobs = @ \o [i \in DOMAIN s.jobs |->
                             FetchJob(s.jobs[i].on, id, s.jobs[i].ok, s.jobs[i].chunk)]]

\* The promise that pull() returned is resolved.
PullDone(f, id) == Queue(f, FetchJob("pull", id, TRUE, 0))

\* __brokit_fetch_stream_read found the end; the entry goes if curl is done
\* with it.
ReadEnd(f, id) ==
  LET q == f.req[id]
      g == IF q.resolved /\ ~q.easy THEN Erase(f, id) ELSE f
  IN  PullDone(PutBody(g, id, IF q.revoked THEN ErrorReadable(g.body[id])
                              ELSE CloseReadable(g.body[id])), id)

\* Mutant: the callback is left when the body is complete as well.
TryReadWaits(f, id) ==
  IF ~Live(f, id) THEN PullDone(PutBody(f, id, CloseReadable(f.body[id])), id)
  ELSE IF f.req[id].chunks # <<>>
  THEN PullDone(PutBody([f EXCEPT !.req[id].chunks = Tail(@)], id,
                        Enqueue(f.body[id], Head(f.req[id].chunks))), id)
  ELSE [f EXCEPT !.req[id].wait = TRUE]

\* Mutant: the end is looked for before the chunks.
TryReadEndFirst(f, id) ==
  IF ~Live(f, id) THEN PullDone(PutBody(f, id, CloseReadable(f.body[id])), id)
  ELSE IF f.req[id].complete THEN ReadEnd(f, id)
  ELSE IF f.req[id].chunks # <<>>
  THEN PullDone(PutBody([f EXCEPT !.req[id].chunks = Tail(@)], id,
                        Enqueue(f.body[id], Head(f.req[id].chunks))), id)
  ELSE [f EXCEPT !.req[id].wait = TRUE]

\* tryRead of the source: a chunk, the end, or a callback for later.
TryRead(f, id) ==
  IF ~Live(f, id) THEN PullDone(PutBody(f, id, CloseReadable(f.body[id])), id)
  ELSE IF f.req[id].chunks # <<>>
  THEN PullDone(PutBody([f EXCEPT !.req[id].chunks = Tail(@)], id,
                        Enqueue(f.body[id], Head(f.req[id].chunks))), id)
  ELSE IF f.req[id].complete THEN ReadEnd(f, id)
  ELSE [f EXCEPT !.req[id].wait = TRUE]

\* The callback left by __brokit_fetch_stream_wait is taken and called.
CallWaiter(f, id) ==
  IF f.req[id].wait THEN TryRead([f EXCEPT !.req[id].wait = FALSE], id) ELSE f

\* The stream has called its source's pull().
Serve(f, id) ==
  IF f.body[id].asked THEN TryRead([f EXCEPT !.body[id].asked = FALSE], id) ELSE f

\* The two jobs behind the n-th change places.
Swapped(f, n) ==
  LET js == f.jobs
  IN  [f EXCEPT !.jobs = [js EXCEPT ![n + 1] = js[n + 2], ![n + 2] = js[n + 1]]]

\* reader.read() of a body, streaming or at hand.  What the source does at once it
\* does inside read(): its pull's reaction is queued before the reader has attached
\* its own.
ReadBody(f, id) ==
  IF ~Streaming(f, id) THEN Queue(f, FetchJob("read", id, TRUE, 0))
  ELSE LET g == Serve(PutBody(f, id, Read(f.body[id])), id)
           n == Len(f.jobs)
       IN  IF Len(g.jobs) = n + 2 THEN Swapped(g, n) ELSE g

\* The reaction to the promise of pull(): a reader that waits has attached its own.
BodyPulled(f, id) == Serve(PutBody(f, id, Pulled(f.body[id], TRUE)), id)

-------------------------------------------------------------------------------
(* The calls of fetch(). *)

\* An http request, in the hands of curl from now on.
StartTransfer(f) ==
  [f EXCEPT !.req = Enter(@, f.next, NewRequest(TRUE)),
            !.pending = Append(@, f.next), !.next = @ + 1]

\* A file:, data: or blob: response, built at once and parked for the next tick.
QueueLocalResponse(f) ==
  [f EXCEPT !.req = Enter(@, f.next, NewRequest(FALSE)),
            !.localPending = Append(@, f.next), !.next = @ + 1]

\* An aborted signal, a URL that is not allowed, a blob that is gone: the
\* promise is rejected before anything is in the table.
RejectAtOnce(f, outcome) ==
  Queue([f EXCEPT !.told[f.next] = outcome, !.end[f.next] = outcome, !.next = @ + 1],
        FetchJob("fetched", f.next, FALSE, 0))

AbortOutcome(revoked) == IF revoked THEN "denied" ELSE "aborted"

\* The request is over: it lets go of its transfer and of the data that waits.
CutOff(f, id, revoked) ==
  [f EXCEPT !.pending = RemoveFirst(@, id), !.localPending = RemoveFirst(@, id),
            !.req[id].easy = FALSE, !.req[id].held = FALSE,
            !.req[id].revoked = @ \/ revoked, !.req[id].complete = TRUE,
            !.req[id].chunks = <<>>, !.req[id].resolved = TRUE,
            !.end[id] = IF @ = "running" THEN AbortOutcome(revoked) ELSE @]

\* abortRequest: by the signal, or by the host that takes back the grant.
AbortRequest(f, id, revoked) ==
  IF ~Live(f, id) \/ (revoked /\ ~f.req[id].easy) THEN f
  ELSE LET g == CutOff(f, id, revoked)
       IN  IF f.req[id].resolved THEN CallWaiter(g, id)
           ELSE Erase(CallWaiter(Tell(g, id, AbortOutcome(revoked)), id), id)

-------------------------------------------------------------------------------
(* The tick. *)

SettleLocal(f, id) ==
  Erase(Tell([f EXCEPT !.end[id] = "ok"], id, "response"), id)

\* settleLocalResponses.
SettleLocalResponses(f) ==
  FoldLeft(LAMBDA g, id : IF Live(g, id) THEN SettleLocal(g, id) ELSE g,
           [f EXCEPT !.localPending = <<>>], f.localPending)

\* writeCallback, from inside curl_multi_perform.
Receive(f, id, size) ==
  IF size = 0 THEN f
  ELSE [f EXCEPT !.req[id].chunks = Append(@, size), !.req[id].received = TRUE,
                 !.sent[id] = @ + size]

\* Phase 1: data has come, so the response is a streaming one.
ResolveStreaming(f, id) ==
  IF f.req[id].resolved \/ ~f.req[id].received THEN f
  ELSE Tell([f EXCEPT !.req[id].resolved = TRUE,
                      !.body = Enter(@, id, [NewReadable EXCEPT !.started = TRUE])],
            id, "response")

\* Phase 2: readers that wait are called when there is something for them.
NotifyReader(f, id) ==
  IF Live(f, id) /\ (f.req[id].chunks # <<>> \/ f.req[id].complete)
  THEN CallWaiter(f, id) ELSE f

\* Mutant: the reader of a body that is over is not called any more.
CompleteQuietly(f, id, result) ==
  LET wasStreaming == f.req[id].resolved
      g == [f EXCEPT !.pending = RemoveFirst(@, id), !.req[id].complete = TRUE,
                     !.req[id].resolved = TRUE, !.end[id] = result]
      h == IF wasStreaming THEN g
           ELSE Tell(g, id, CASE result = "ok"      -> "response"
                              [] result = "refused" -> "denied"
                              [] result = "failed"  -> "network")
      k == [h EXCEPT !.req[id].easy = FALSE, !.req[id].held = FALSE]
  IN  IF wasStreaming THEN k ELSE Erase(k, id)

\* Phase 3: curl is done with the request.  After the headers the result is
\* not looked at; a reader is called while `easy` is still set, so an end it
\* reads leaves the entry in the table.
Complete(f, id, result) ==
  LET wasStreaming == f.req[id].resolved
      g == [f EXCEPT !.pending = RemoveFirst(@, id), !.req[id].complete = TRUE,
                     !.req[id].resolved = TRUE, !.end[id] = result]
      h == IF wasStreaming THEN g
           ELSE Tell(g, id, CASE result = "ok"      -> "response"
                              [] result = "refused" -> "denied"
                              [] result = "failed"  -> "network")
      k == [CallWaiter(h, id) EXCEPT !.req[id].easy = FALSE, !.req[id].held = FALSE]
  IN  IF wasStreaming THEN k ELSE Erase(k, id)

\* __brokit_fetch_tick, when curl_multi_perform hands over chunk[id] bytes and
\* reports result[id] for the requests it has.
FetchTick(f, chunk, result) ==
  LET ids == f.pending
      settled == SettleLocalResponses(f)
      performed == FoldLeft(LAMBDA g, id : Receive(g, id, chunk[id]), settled, ids)
      resolved == FoldLeft(ResolveStreaming, performed, ids)
      notified == FoldLeft(NotifyReader, resolved, SetToSeq(DOMAIN resolved.req))
  IN  IF ids = <<>> THEN settled
      ELSE FoldLeft(LAMBDA g, id : IF result[id] = "running" THEN g
                                   ELSE Complete(g, id, result[id]),
                    notified, ids)

HasPending(f) ==
  \/ f.pending # <<>>
  \/ f.localPending # <<>>
  \/ \E id \in DOMAIN f.req : f.req[id].wait

===============================================================================
