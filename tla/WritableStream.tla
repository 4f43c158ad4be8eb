---------------------------- MODULE WritableStream ----------------------------
(***************************************************************************)
(* One writable stream (src/src/api/js/writable_stream.js): controller,    *)
(* default writer and stream, as operators from the stream's record to its *)
(* next one, with the reactions they queue on the promises of write() and  *)
(* close().  An entry of the queue is its chunk; the entry the sink is at  *)
(* work on is `writing`, 0 if there is none.                               *)
(*                                                                         *)
(* `closing` records the call of sink.close: "no", then "asked", then how  *)
(* its promise was settled.                                                *)
(***************************************************************************)
EXTENDS Naturals, Sequences

Wrote(chunk) == [on |-> "entry", ok |-> TRUE, chunk |-> chunk]
Refused(chunk) == [on |-> "entry", ok |-> FALSE, chunk |-> chunk]
ClosePromise(ok) == [on |-> "closed", ok |-> ok, chunk |-> 0]

NewWritable == [state |-> "writable", queue |-> <<>>, writing |-> 0,
                closeRequested |-> FALSE, closePending |-> FALSE,
                started |-> FALSE, closing |-> "no"]

Move(w, jobs) == [w |-> w, jobs |-> jobs]

-------------------------------------------------------------------------------
RejectPending(w) ==
  Move([w EXCEPT !.queue = <<>>, !.closePending = FALSE],
       [i \in DOMAIN w.queue |-> Refused(w.queue[i])]
         \o IF w.closePending THEN <<ClosePromise(FALSE)>> ELSE <<>>)

ErrorWritable(w) ==
  IF w.state = "writable" THEN RejectPending([w EXCEPT !.state = "errored"])
  ELSE Move(w, <<>>)

CloseStream(w) == [w EXCEPT !.state = "closed", !.closing = "asked"]

ProcessQueue(w) ==
  IF ~w.started \/ w.writing # 0 \/ w.state # "writable" THEN w
  ELSE IF w.queue # <<>>
       THEN [w EXCEPT !.queue = Tail(@), !.writing = Head(w.queue)]
       ELSE IF w.closeRequested THEN CloseStream(w) ELSE w

-------------------------------------------------------------------------------
\* The promises of the sink's start, write and close, and their reactions.
SinkStarted(w, ok) ==
  IF ok THEN Move(ProcessQueue([w EXCEPT !.started = TRUE]), <<>>)
  ELSE ErrorWritable(w)

\* The entry is settled before the queue goes on, or the stream errs.
SinkWrote(w, ok) ==
  LET idle == [w EXCEPT !.writing = 0]
      rest == ErrorWritable(idle)
  IN  IF ok THEN Move(ProcessQueue(idle), <<Wrote(w.writing)>>)
      ELSE Move(rest.w, <<Refused(w.writing)>> \o rest.jobs)

SinkClosed(w, ok) ==
  Move([w EXCEPT !.closing = IF ok THEN "ok" ELSE "failed"], <<ClosePromise(ok)>>)

-------------------------------------------------------------------------------
Write(w, chunk) ==
  IF w.state = "writable"
  THEN Move(ProcessQueue([w EXCEPT !.queue = Append(@, chunk)]), <<>>)
  ELSE Move(w, <<Refused(chunk)>>)

\* close() looks for a close, not for an error.
CloseWritable(w) ==
  LET asked == [w EXCEPT !.closeRequested = TRUE]
  IN  IF w.state = "closed" \/ w.closeRequested THEN Move(w, <<ClosePromise(FALSE)>>)
      ELSE IF w.queue = <<>> /\ w.writing = 0 THEN Move(CloseStream(asked), <<>>)
      ELSE Move([asked EXCEPT !.closePending = TRUE], <<>>)

\* abort() calls sink.abort, unless the stream is closed.
Abort(w) ==
  IF w.state = "closed" THEN Move(w, <<>>)
  ELSE RejectPending([w EXCEPT !.state = "errored"])

===============================================================================
