---------------------------------- MODULE Xhr ----------------------------------
(***************************************************************************)
(* One XMLHttpRequest over fetch (src/src/api/js/xhr.js), as operators     *)
(* from w = [f, x], the fetch state of the thread and the request object,  *)
(* to the next one.                                                        *)
(*                                                                         *)
(* Its methods dispatch events in the middle of their work, and a handler  *)
(* may call any method again, or throw.  What is left to do of the methods *)
(* that are on the stack is x.script, innermost first; a handler that      *)
(* calls a method puts that method's steps in front.                       *)
(***************************************************************************)
EXTENDS Fetch

CONSTANTS MaxSends,      \* bound: send() calls that are accepted
          MaxCalls       \* bound: method calls of the program

\* A send() calls fetch() once at most, so the table of the requests holds all.
ASSUME XhrAssumption == MaxSends \in 0 .. MaxRequests /\ MaxCalls \in Nat

UNSENT == 0
OPENED == 1
HEADERS_RECEIVED == 2
LOADING == 3
DONE == 4

\* A send() is known by its number.  `controller` is the send whose controller
\* the object holds, `flight` the fetch and the seq a send has captured,
\* `armed` the timers set and not cleared, each by its seq; `frame` is the send
\* in whose promise reaction the script runs.  `response`: the send whose
\* response the object shows; `hist`: the events each send has had.
NewXhr(timeout) ==
  [state |-> UNSENT, send |-> FALSE, hasBody |-> FALSE, controller |-> 0,
   timer |-> 0, seq |-> 0, response |-> 0, timeout |-> timeout,
   n |-> 0, calls |-> 0, aborted |-> {}, armed |-> {}, script |-> <<>>, frame |-> 0,
   flight |-> [i \in 1 .. MaxSends |-> [id |-> 0, seq |-> 0]],
   hist |-> [i \in 1 .. MaxSends |-> <<>>]]

ToState(s) == [do |-> "state", arg |-> s]
Event(type, n) == [do |-> "event", type |-> type, n |-> n]
\* An event of the upload object, or a progress event: dispatched, and not followed.
Progress == [do |-> "progress"]
IfBody(k) == [do |-> "ifbody", arg |-> k]
Guard(seq) == [do |-> "guard", seq |-> seq]
Call(step, n) == [do |-> step, n |-> n]

Push(w, steps) == [w EXCEPT !.x.script = steps \o @]

ClearTimer(w) == [w EXCEPT !.x.armed = @ \ {w.x.timer}, !.x.timer = 0]

\* The controller is given up, and what it started aborted.
AbortController(w) ==
  LET c == w.x.controller
      g == [w EXCEPT !.x.controller = 0]
  IN  IF c = 0 THEN g
      ELSE [g EXCEPT !.x.aborted = @ \union {c},
                     !.f = AbortRequest(@, w.x.flight[c].id, FALSE)]

\* What open(), abort() and the error steps begin with.
Terminate(w) == AbortController(ClearTimer([w EXCEPT !.x.seq = @ + 1]))

Open(w) ==
  LET g == [Terminate(w) EXCEPT !.x.send = FALSE, !.x.hasBody = FALSE, !.x.response = 0,
                                !.x.calls = @ + 1]
  IN  IF w.x.state = OPENED THEN g ELSE Push(g, <<ToState(OPENED)>>)

CanSend(w) == w.x.state = OPENED /\ ~w.x.send

Send(w, hasBody) ==
  LET n == w.x.n + 1
      g == [w EXCEPT !.x.n = n, !.x.seq = @ + 1, !.x.controller = n,
                     !.x.send = TRUE, !.x.hasBody = hasBody, !.x.calls = @ + 1,
                     !.x.flight[n].seq = w.x.seq + 1]
  IN  Push(g, <<Event("loadstart", n), IfBody(1), Call("fetch", n)>>)

\* _requestError, for the send that is current.
RequestError(w, type) ==
  LET g == [Terminate(w) EXCEPT !.x.send = FALSE, !.x.response = 0]
  IN  Push(g, <<ToState(DONE), IfBody(2), Event(type, w.x.n), Event("loadend", w.x.n)>>)

Abort(w) ==
  LET inFlight == w.x.send /\ w.x.state \in {OPENED, HEADERS_RECEIVED, LOADING}
      g == Push(Terminate([w EXCEPT !.x.calls = @ + 1]), <<Call("unsend", 0)>>)
  IN  IF inFlight THEN RequestError(g, "abort") ELSE g

-------------------------------------------------------------------------------
(* What a send() waits for. *)

\* The end of send(): the timer, and fetch() with the controller's signal.
\* `how` is what fetch() makes of the URL.
CallFetch(w, n, how) ==
  LET seq == w.x.flight[n].seq
      g == [w EXCEPT !.x.flight[n].id = w.f.next]
      h == IF w.x.timeout THEN [g EXCEPT !.x.armed = @ \union {seq}, !.x.timer = seq] ELSE g
  IN  [h EXCEPT !.f = CASE n \in w.x.aborted -> RejectAtOnce(@, "aborted")
                        [] OTHER -> CASE how = "http"  -> StartTransfer(@)
                                      [] how = "local" -> QueueLocalResponse(@)
                                      [] how = "denied" -> RejectAtOnce(@, "denied")]

Current(w, n) == w.x.seq = w.x.flight[n].seq

\* The timer of the send that had `seq`.
TimedOut(w, seq) ==
  LET g == [w EXCEPT !.x.armed = @ \ {seq}, !.x.timer = 0]
  IN  IF w.x.seq = seq THEN RequestError(g, "timeout") ELSE g

\* The reactions: of the promise of fetch(), of the whole body, of a failure in
\* one of these.  An AbortError is the controller's own.
Fetched(w, n) ==
  IF ~Current(w, n) THEN w
  ELSE Push([w EXCEPT !.x.frame = n], <<IfBody(3), Call("respond", n)>>)

\* Mutant: the end of a body is taken whoever asked for it.
BodyReadAnyway(w, n) ==
  LET g == [ClearTimer(w) EXCEPT !.x.seq = @ + 1, !.x.controller = 0,
                                 !.x.send = FALSE, !.x.frame = n]
  IN  Push(g, <<ToState(DONE), Progress, Event("load", n), Event("loadend", n)>>)

BodyRead(w, n) ==
  LET g == [ClearTimer(w) EXCEPT !.x.seq = @ + 1, !.x.controller = 0,
                                 !.x.send = FALSE, !.x.frame = n]
  IN  IF ~Current(w, n) THEN w
      ELSE Push(g, <<ToState(DONE), Progress, Event("load", n), Event("loadend", n)>>)

Rejected(w, n, aborted) ==
  IF ~Current(w, n) \/ aborted THEN w ELSE RequestError(w, "error")

-------------------------------------------------------------------------------
(* One step of the script; the steps that dispatch an event are followed by *)
(* what its handlers do.                                                    *)

Dispatches(step) == step.do \in {"state", "event", "progress"}

Respond(w, n) ==
  LET seq == w.x.flight[n].seq
  IN  Push([w EXCEPT !.x.response = n],
           <<ToState(HEADERS_RECEIVED), Guard(seq), ToState(LOADING), Guard(seq),
             Call("body", n)>>)

ScriptStep(v, step, how) ==
  LET w == [v EXCEPT !.x.script = Tail(@)]
  IN  CASE step.do = "state"   -> [w EXCEPT !.x.state = step.arg]
        [] step.do = "event"   -> [w EXCEPT !.x.hist[step.n] = Append(@, step.type)]
        [] step.do = "progress" -> w
        [] step.do = "ifbody"  -> IF w.x.hasBody
                                  THEN Push(w, [i \in 1 .. step.arg |-> Progress]) ELSE w
        [] step.do = "guard"   -> IF w.x.seq = step.seq THEN w
                                  ELSE [w EXCEPT !.x.script = <<>>]
        [] step.do = "fetch"   -> CallFetch(w, step.n, how)
        [] step.do = "respond" -> Respond(w, step.n)
        [] step.do = "body"    -> [w EXCEPT !.f = ReadBody(@, w.x.flight[step.n].id)]
        [] step.do = "send"    -> IF CanSend(w) /\ w.x.n < MaxSends THEN Send(w, FALSE) ELSE w
        [] step.do = "unsend"  -> IF w.x.state = DONE THEN [w EXCEPT !.x.state = UNSENT] ELSE w

\* An exception no handler catches leaves every method on the stack; in a
\* reaction it rejects the promise that the send's last reaction waits for, which
\* takes any AbortError for one of its own controller and does nothing.
Throw(w, abortError) ==
  LET g == [w EXCEPT !.x.script = <<>>, !.x.frame = 0]
  IN  IF w.x.frame = 0 \/ abortError THEN g
      ELSE [g EXCEPT !.f = Queue(@, FetchJob("threw", w.x.flight[w.x.frame].id, FALSE, 0))]

\* What a handler, or the program on its own, may do with the request.
XhrCalls(w) ==
  IF w.x.calls >= MaxCalls THEN {}
  ELSE {Open(w), Abort(w)}
       \union {Send(w, b) : b \in IF CanSend(w) /\ w.x.n < MaxSends THEN BOOLEAN ELSE {}}
       \union {Open(Push(w, <<Call("send", 0)>>))}

===============================================================================
