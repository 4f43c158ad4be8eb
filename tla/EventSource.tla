------------------------------ MODULE EventSource ------------------------------
(***************************************************************************)
(* One EventSource over fetch (src/src/api/js/eventsource.js), as          *)
(* operators from w = [f, es], the fetch state of the thread and the       *)
(* object, to the next one.  Its handlers may close it, which `closes`     *)
(* says of the one event, or of the k-th of a chunk, that they do it in;   *)
(* what they throw is caught.                                              *)
(*                                                                         *)
(* The server is asked for the events after Last-Event-ID and sends them   *)
(* in order, each one two units long, so that a chunk may end in the       *)
(* middle of an event.  The decoder the body is piped through hands the    *)
(* chunks on.                                                              *)
(***************************************************************************)
EXTENDS Fetch

CONNECTING == 0
OPEN == 1
CLOSED == 2

\* `conn` is the last request made, `controller` the one close() aborts, or 0;
\* `base` the Last-Event-ID it carried, `nth` counts the events it has brought,
\* `buf` the units of an event that is not complete; `timers` counts the
\* reconnections that are due, `pump` says that a read is outstanding.  `seen`
\* is history: the ids dispatched.
NewEventSource ==
  [readyState |-> CONNECTING, closed |-> FALSE, conn |-> 0, controller |-> 0, lastEventId |-> 0,
   base |-> 0, nth |-> 0, buf |-> 0, timers |-> 0, pump |-> FALSE, seen |-> <<>>]

\* _connect; `allowed`: the access policy lets fetch() through.
Connect(w, allowed) ==
  IF w.es.closed THEN w
  ELSE [f  |-> IF allowed THEN StartTransfer(w.f) ELSE RejectAtOnce(w.f, "denied"),
        es |-> [w.es EXCEPT !.readyState = CONNECTING, !.conn = w.f.next,
                            !.controller = w.f.next, !.base = w.es.lastEventId,
                            !.nth = 0, !.buf = 0]]

Close(w) ==
  LET g == [w EXCEPT !.es.closed = TRUE, !.es.readyState = CLOSED, !.es.controller = 0]
  IN  IF w.es.controller = 0 THEN g
      ELSE [g EXCEPT !.f = AbortRequest(@, w.es.controller, FALSE)]

CloseIf(w, closes) == IF closes THEN Close(w) ELSE w

\* Mutant: no second reconnection while the source is still connecting.
FailAndReconnectOnce(w, closes) ==
  LET g == CloseIf([w EXCEPT !.es.readyState = CONNECTING, !.es.pump = FALSE], closes)
  IN  IF w.es.closed THEN [w EXCEPT !.es.pump = FALSE]
      ELSE IF g.es.closed \/ w.es.readyState = CONNECTING THEN g
      ELSE [g EXCEPT !.es.timers = @ + 1]

\* _failAndReconnect: the error event, whose handlers may close the source.
FailAndReconnect(w, closes) ==
  LET g == CloseIf([w EXCEPT !.es.readyState = CONNECTING, !.es.pump = FALSE], closes)
  IN  IF w.es.closed THEN [w EXCEPT !.es.pump = FALSE]
      ELSE IF g.es.closed THEN g ELSE [g EXCEPT !.es.timers = @ + 1]

\* pump(): read on.
PumpStream(w) == [w EXCEPT !.f = ReadBody(@, w.es.conn), !.es.pump = TRUE]

\* The response is there: `okay` is its status.  The open event; then the body,
\* unless a handler has closed the source.
Opened(w, okay, closes) ==
  IF w.es.closed THEN w
  ELSE IF ~okay THEN FailAndReconnect(w, closes)
  ELSE LET g == CloseIf([w EXCEPT !.es.readyState = OPEN], closes)
       IN  IF g.es.closed THEN g ELSE PumpStream(g)

\* Mutant: the id is taken from the next event's block, so it lags by one.
ProcessEventIdLate(w) ==
  LET id == w.es.base + w.es.nth + 1
  IN  [w EXCEPT !.es.lastEventId = id - 1, !.es.nth = @ + 1, !.es.seen = Append(@, id)]

\* _processEvent: the block's id becomes the last one, and it is dispatched.
ProcessEvent(w) ==
  LET id == w.es.base + w.es.nth + 1
  IN  [w EXCEPT !.es.lastEventId = id, !.es.nth = @ + 1, !.es.seen = Append(@, id)]

\* A chunk: the events it completes are dispatched, all of them, whether or not
\* a handler of the k-th closes the source; then the next read.
ChunkRead(w, units, k) ==
  LET filled == [w EXCEPT !.es.buf = (@ + units) % 2]
      Dispatch[i \in 0 .. (w.es.buf + units) \div 2] ==
        IF i = 0 THEN filled
        ELSE CloseIf(ProcessEvent(Dispatch[i - 1]), i = k)
  IN  PumpStream(Dispatch[(w.es.buf + units) \div 2])

\* A read is settled.  The end drops what is in the buffer: the call that is to
\* process it fails, and its failure is what reconnects.
StreamRead(w, ok, units, closes, k) ==
  IF w.es.closed THEN [w EXCEPT !.es.pump = FALSE]
  ELSE IF ~ok \/ units = 0 THEN FailAndReconnect(w, closes)
  ELSE ChunkRead(w, units, k)

\* The timer of a reconnection.
Reconnect(w, allowed) == Connect([w EXCEPT !.es.timers = @ - 1], allowed)

===============================================================================
