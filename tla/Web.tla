---------------------------------- MODULE Web ----------------------------------
(***************************************************************************)
(* fetch() under the three that call it: a program that reads the body     *)
(* itself, an XMLHttpRequest and an EventSource.  One of them is there,    *)
(* `who`; what they share is the JS thread, whose order of work is the     *)
(* host's: a round of ticks, fetch before timers, then the microtasks      *)
(* until there are none.  So a timer may come between the tick that has    *)
(* settled a promise and the reaction to it.                               *)
(*                                                                         *)
(* The server and curl are the environment: at each tick curl may hand     *)
(* over some bytes of a transfer, and may be done with it.                 *)
(***************************************************************************)
EXTENDS Xhr, EventSource

VARIABLES who,     \* "program", "xhr" or "eventsource"
          net,     \* fetch: its table, the bodies, the microtasks
          ticked,  \* fetch's tick has run in this round, microtasks have not
          x,       \* the XMLHttpRequest
          es,      \* the EventSource
          signals, \* the signals of the program's requests that have fired
          wired,   \* the requests that listen to their signal
          got,     \* bytes read of the body of each request
          finish,  \* how reading it ended: "reading", "done", "error"
          ignored  \* history: the sends in whose reaction a handler threw an AbortError

vars == <<who, net, ticked, x, es, signals, wired, got, finish, ignored>>

Init == /\ who \in {"program", "xhr", "eventsource"}
        /\ \E timeout \in IF who = "xhr" THEN BOOLEAN ELSE {FALSE} : x = NewXhr(timeout)
        /\ LET w == Connect([f |-> NewFetchState, es |-> NewEventSource], TRUE)
           IN  IF who = "eventsource" THEN net = w.f /\ es = w.es
               ELSE net = NewFetchState /\ es = NewEventSource
        /\ ticked = FALSE
        /\ signals = {}
        /\ wired = {}
        /\ got = [id \in Ids |-> 0]
        /\ finish = [id \in Ids |-> "none"]
        /\ ignored = {}

reading == <<got, finish>>
program == <<signals, wired>>

-------------------------------------------------------------------------------
(* The host's round. *)

Idle == x.script = <<>>
Quiet == Idle /\ net.jobs = <<>>
\* Work outside of the microtasks: a tick of another component, a timer.
Task == Idle /\ (net.jobs = <<>> \/ ticked)

\* Bounds: sizes of chunks tell events apart and matter to an EventSource only.
\* The others are sent chunks of one unit: a program two of them, and an
\* XMLHttpRequest, which joins what it reads before it looks at it, one.
Sizes == IF who = "eventsource" THEN 0 .. 3 ELSE 0 .. 1
Limit == CASE who = "eventsource" -> MaxBytes
           [] who = "program"     -> 2
           [] OTHER               -> 1

Arrivals == {c \in [DOMAIN net.req -> Sizes] :
               \A id \in DOMAIN c :
                 c[id] > 0 => net.req[id].easy /\ net.sent[id] + c[id] <= Limit}

\* A redirect is refused before there is a response.
Results(c) == {r \in [DOMAIN net.req -> {"running", "ok", "failed", "refused"}] :
                 \A id \in DOMAIN r :
                   /\ r[id] # "running" => net.req[id].easy
                   /\ r[id] = "refused" => ~net.req[id].received /\ c[id] = 0}

Tick ==
  /\ Quiet
  /\ \E c \in Arrivals : \E r \in Results(c) : net' = FetchTick(net, c, r)
  /\ ticked' = TRUE
  /\ UNCHANGED <<who, x, es, program, reading, ignored>>

\* The host takes back the grant a transfer runs under.
Revoke ==
  /\ Task
  /\ \E id \in Transfers(net) : net' = AbortRequest(net, id, TRUE)
  /\ UNCHANGED <<who, ticked, x, es, program, reading, ignored>>

-------------------------------------------------------------------------------
(* The microtasks: the first one, with the others behind it. *)

job == Head(net.jobs)
popped == [net EXCEPT !.jobs = Tail(@)]
Runs(on) == Idle /\ net.jobs # <<>> /\ job.on = on

BodyReaction ==
  /\ Runs("pull")
  /\ net' = BodyPulled(popped, job.id)
  /\ ticked' = FALSE
  /\ UNCHANGED <<who, x, es, program, reading, ignored>>

\* The pump that joins the chunks of a body for text() or arrayBuffer().
Pumps == who \in {"program", "xhr"}

ReadOn ==
  /\ Pumps /\ Runs("read") /\ job.ok /\ job.chunk # 0
  /\ net' = ReadBody(popped, job.id)
  /\ got' = [got EXCEPT ![job.id] = @ + job.chunk]
  /\ ticked' = FALSE
  /\ UNCHANGED <<who, x, es, program, finish, ignored>>

SendOf(id) == CHOOSE n \in 1 .. MaxSends : x.flight[n].id = id

ReadOver ==
  /\ Pumps /\ Runs("read") /\ (job.ok => job.chunk = 0)
  /\ finish' = [finish EXCEPT ![job.id] = IF job.ok THEN "done" ELSE "error"]
  /\ IF who = "xhr"
     THEN LET v == [f |-> popped, x |-> x]
              w == IF job.ok THEN BodyRead(v, SendOf(job.id))
                             ELSE Rejected(v, SendOf(job.id), FALSE)
          IN  net' = w.f /\ x' = w.x
     ELSE net' = popped /\ UNCHANGED x
  /\ ticked' = FALSE
  /\ UNCHANGED <<who, es, program, got, ignored>>

-------------------------------------------------------------------------------
(* The program on its own: fetch(), then text() of the response. *)

MayFetch == net.next <= IF who = "eventsource" THEN MaxRequests ELSE MaxSends

\* The classes of fetch_classes.js stand in front of the native fetch: a signal
\* given in a Request is not handed on.
CallFetchAPI ==
  /\ who = "program" /\ Task /\ MayFetch
  /\ \E how \in {"http", "local", "denied", "missing", "aborted"}, listens \in BOOLEAN :
       /\ net' = CASE how = "http"    -> StartTransfer(net)
                   [] how = "local"   -> QueueLocalResponse(net)
                   [] how = "missing" -> RejectAtOnce(net, "network")
                   [] OTHER           -> RejectAtOnce(net, how)
       /\ wired' = IF listens THEN wired \union {net.next} ELSE wired
  /\ UNCHANGED <<who, ticked, x, es, signals, reading, ignored>>

FireSignal ==
  /\ who = "program" /\ Task
  /\ \E id \in 1 .. net.next - 1 :
       /\ id \notin signals
       /\ signals' = signals \union {id}
       /\ net' = IF id \in wired THEN AbortRequest(net, id, FALSE) ELSE net
  /\ UNCHANGED <<who, ticked, x, es, wired, reading, ignored>>

ProgramGotResponse ==
  /\ who = "program" /\ Runs("fetched")
  /\ net' = IF job.ok THEN ReadBody(popped, job.id) ELSE popped
  /\ finish' = [finish EXCEPT ![job.id] = IF job.ok THEN "reading" ELSE @]
  /\ ticked' = FALSE
  /\ UNCHANGED <<who, x, es, program, got, ignored>>

-------------------------------------------------------------------------------
(* The XMLHttpRequest. *)

\* The handlers of an event, or the program, act on the request.
Sets(w) == net' = w.f /\ x' = w.x

XhrStep ==
  /\ x.script # <<>>
  /\ LET step == Head(x.script)
     IN  \E how \in IF step.do = "fetch" THEN {"http", "local", "denied"} ELSE {"none"} :
           LET w == ScriptStep([f |-> net, x |-> x], step, how)
               g == IF w.x.script = <<>> THEN [w EXCEPT !.x.frame = 0] ELSE w
           IN  \/ Sets(g) /\ UNCHANGED ignored
               \/ /\ Dispatches(step)
                  /\ \E c \in XhrCalls(w) : Sets(c)
                  /\ UNCHANGED ignored
               \/ /\ Dispatches(step)
                  /\ Sets(Throw(w, FALSE))
                  /\ UNCHANGED ignored
               \/ /\ Dispatches(step) /\ x.frame # 0
                  /\ Sets(Throw(w, TRUE))
                  /\ ignored' = ignored \union {x.frame}
  /\ UNCHANGED <<who, ticked, es, program, reading>>

XhrCall ==
  /\ who = "xhr" /\ Task
  /\ \E c \in XhrCalls([f |-> net, x |-> x]) : Sets(c)
  /\ UNCHANGED <<who, ticked, es, program, reading, ignored>>

XhrTimer ==
  /\ who = "xhr" /\ Task
  /\ \E seq \in x.armed : Sets(TimedOut([f |-> net, x |-> x], seq))
  /\ UNCHANGED <<who, ticked, es, program, reading, ignored>>

XhrReaction ==
  /\ who = "xhr" /\ (Runs("fetched") \/ Runs("threw"))
  /\ LET v == [f |-> popped, x |-> x]
     IN  Sets(IF job.ok THEN Fetched(v, SendOf(job.id))
              ELSE Rejected(v, SendOf(job.id),
                            job.on = "fetched" /\ net.told[job.id] = "aborted"))
  /\ ticked' = FALSE
  /\ UNCHANGED <<who, es, program, reading, ignored>>

-------------------------------------------------------------------------------
(* The EventSource. *)

SetsEs(w) == net' = w.f /\ es' = w.es

EsOpened ==
  /\ who = "eventsource" /\ Runs("fetched")
  /\ LET v == [f |-> popped, es |-> es]
     IN  \E okay, closes \in BOOLEAN :
           SetsEs(IF job.ok THEN Opened(v, okay, closes) ELSE FailAndReconnect(v, closes))
  /\ ticked' = FALSE
  /\ UNCHANGED <<who, x, program, reading, ignored>>

EsRead ==
  /\ who = "eventsource" /\ Runs("read")
  /\ LET v == [f |-> popped, es |-> es]
     IN  \E closes \in BOOLEAN, k \in 0 .. 2 :
           SetsEs(StreamRead(v, job.ok, job.chunk, closes, k))
  /\ ticked' = FALSE
  /\ UNCHANGED <<who, x, program, reading, ignored>>

EsTimer ==
  /\ who = "eventsource" /\ Task /\ es.timers > 0 /\ MayFetch
  /\ \E allowed \in BOOLEAN : SetsEs(Reconnect([f |-> net, es |-> es], allowed))
  /\ UNCHANGED <<who, ticked, x, program, reading, ignored>>

EsClose ==
  /\ who = "eventsource" /\ Task /\ ~es.closed
  /\ SetsEs(Close([f |-> net, es |-> es]))
  /\ UNCHANGED <<who, ticked, x, program, reading, ignored>>

-------------------------------------------------------------------------------
Microtask == BodyReaction \/ ReadOn \/ ReadOver \/ ProgramGotResponse
               \/ XhrReaction \/ EsOpened \/ EsRead

Next ==
  \/ Tick
  \/ Revoke
  \/ Microtask
  \/ CallFetchAPI
  \/ FireSignal
  \/ XhrStep
  \/ XhrCall
  \/ XhrTimer
  \/ EsTimer
  \/ EsClose

\* JavaScript runs to its end, script and microtasks, so the host gets to tick; and
\* a tick leaves no local response parked.  (Written out, since ENABLED of a tick
\* costs TLC too much.)  Of a server nothing is expected: curl is given no time by
\* which a transfer has to end.
Fairness == []<>Quiet /\ []<>(net.localPending = <<>>)

Spec == Init /\ [][Next]_vars /\ Fairness

-------------------------------------------------------------------------------
(* Properties. *)

\* A reader that waits for more of a body is one that curl will wake: the
\* transfer is running, under its grant, and nothing is there to read.  And
\* while somebody waits for a promise of fetch() or of read(), the host is told
\* that there is something pending, and goes on ticking.
WaitersAreServed ==
  /\ \A id \in DOMAIN net.req :
       LET q == net.req[id]
       IN  /\ q.wait => q.easy /\ q.chunks = <<>> /\ ~q.complete
           /\ q.easy <=> q.held
           /\ q.easy <=> \E i \in DOMAIN net.pending : net.pending[i] = id
  /\ Quiet /\ (\/ \E id \in 1 .. net.next - 1 : net.told[id] = "nothing"
               \/ \E id \in DOMAIN net.body : net.body[id].pendingReads > 0)
     => HasPending(net)

Aborted(id) == \/ id \in signals \intersect wired
               \/ \E n \in x.aborted : x.flight[n].id = id

\* A body that reads to a clean end is all the server sent of a response that
\* ended well, unless its signal was fired or the connection failed: chunks
\* that wait in the table, in the stream or in a reaction when curl finishes
\* all arrive, and a revoked grant never looks like the end of the body.
WholeOrError ==
  \A id \in Ids : finish[id] = "done" /\ ~Aborted(id) /\ net.end[id] # "failed"
                   => net.end[id] = "ok" /\ got[id] = net.sent[id]

Outcomes == {"load", "error", "abort", "timeout"}

\* Each send() of the request has one outcome at most, loadend follows it and
\* nothing comes after, whatever handlers call in the middle of the events and
\* whichever of answer, timeout and abort comes first; and a request that was
\* aborted, by a method or a timeout, or lost its grant never loads.
OneOutcome ==
  \A n \in 1 .. MaxSends :
    /\ \E o \in Outcomes : IsPrefix(x.hist[n], <<"loadstart", o, "loadend">>)
    /\ Contains(x.hist[n], "load") => n \notin x.aborted /\ net.end[x.flight[n].id] # "denied"

\* A source that is not closed hangs on exactly one thread: the request it has
\* made, the read it waits for or a timer to reconnect.  None would be silence
\* for ever, two would multiply with every failure.
OneLifeline ==
  who = "eventsource" /\ ~es.closed
  => LET connecting == \/ net.told[es.conn] = "nothing"
                       \/ \E i \in DOMAIN net.jobs : /\ net.jobs[i].on = "fetched"
                                                     /\ net.jobs[i].id = es.conn
     IN  es.timers + (IF connecting THEN 1 ELSE 0) + (IF es.pump THEN 1 ELSE 0) = 1

\* The events of the server arrive in order, none twice and none left out,
\* across chunks that cut them and reconnections that resume from the last id.
EventsOnce == \A i \in DOMAIN es.seen : es.seen[i] = i

\* Somebody waits for request id: for the promise of fetch(), for the rest of the
\* body, or for a send() to come out of flight.
Awaited(id) == \/ id < net.next /\ net.told[id] = "nothing"
               \/ finish[id] = "reading"
               \/ x.send /\ x.n \notin ignored /\ x.flight[x.n].id = id

\* A request whose transfer ends, well or not, leaves nobody waiting: the promise of
\* fetch() is settled, the body read to its end or to an error, and the send() that
\* made it is no longer in flight, even if handlers throw; but for an AbortError
\* thrown in its reaction, which the send takes for its own controller's.
AllSettle ==
  \A id \in Ids : <>(net.end[id] # "running") => (Awaited(id) ~> ~Awaited(id))

===============================================================================
