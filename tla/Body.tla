---------------------------------- MODULE Body ---------------------------------
(***************************************************************************)
(* The body of a Response or Request (src/src/api/js/fetch_classes.js,     *)
(* js/fetch_helpers.js) and the streams it is split into: text() and its   *)
(* like, which read to the end; clone(), by tee() if the body is a stream; *)
(* pipeThrough() a TransformStream; and a reader of the program's own.     *)
(*                                                                         *)
(* Every one of these is a pump, a reader whose reaction to one read makes *)
(* the next one.  Streams, pumps and microtasks are one record, and each   *)
(* operation an operator from it to the next one.                          *)
(*                                                                         *)
(* A body that came from the network is a stream whose source answers each *)
(* pull with a chunk, the end or an error.  A body whose bytes are at hand *)
(* is replayed by its stream, and text() answers from the bytes.  The      *)
(* promises that are resolved in the code as soon as they are made, those  *)
(* of a transform and of start(), have their reactions queued one          *)
(* microtask deep here.                                                    *)
(***************************************************************************)
EXTENDS ReadableStream, WritableStream, SequencesExt

CONSTANTS MaxChunks,   \* bound: chunks of the body
          MaxObjects,  \* bound: Response or Request objects, clones included
          MaxPumps     \* bound: readers ever taken

ASSUME BodyAssumption == {MaxChunks, MaxObjects, MaxPumps} \subseteq Nat \ {0}

VARIABLES b,       \* the streams, their pumps, the microtasks
          objects, \* the Response or Request objects
          sent,    \* history: the chunks of the body that were enqueued
          end      \* how the body ended: "open", "closed", "errored"

vars == <<b, objects, sent, end>>

\* A stream: `feed` says who enqueues, `reader` is the pump that has its lock, or
\* 0; `clean` (history): nobody but its pump took chunks from it or cancelled it.
Stream(r, feed, clean) == [r |-> r, feed |-> feed, reader |-> 0, clean |-> clean]

\* Streams without a pull callback are never asked for anything.
Branch(clean) == Stream(NewReadable, "pump", clean)
Replay == Stream([NewReadable EXCEPT !.started = TRUE], "replay", TRUE)

\* What a pump does with the chunks: "text" collects them, "tee" enqueues them to
\* two streams, "pipe" writes them to the transform `w`, whose readable side is
\* `to`; "program" reads when the program likes.
Pump(does, on, to) == [does |-> does, on |-> on, to |-> to, w |-> NewWritable,
                       got |-> <<>>, ended |-> "no"]

BodyJob(on, ok, i) == [on |-> on, ok |-> ok, chunk |-> 0, pump |-> i]
Tag(jobs, i) == [k \in DOMAIN jobs |-> [BodyJob(jobs[k].on, jobs[k].ok, i)
                                          EXCEPT !.chunk = jobs[k].chunk]]

-------------------------------------------------------------------------------
(* Streams and pumps. *)

\* Stream k made a step; what it settled are promises of its reader.
OnStream(p, k, step) ==
  [p EXCEPT !.s[k].r = step.r, !.jobs = @ \o Tag(step.jobs, p.s[k].reader)]

\* The source of a replay enqueues all it has, and closes when pulled again; its
\* pull() has returned by then.
ServeReplay(p, k) ==
  LET st == p.s[k]
      q == [p EXCEPT !.s[k].r.asked = FALSE]
      step == IF p.replayed[k] THEN CloseReadable(q.s[k].r) ELSE Enqueue(q.s[k].r, 1)
  IN  IF st.feed # "replay" \/ ~st.r.asked THEN p
      ELSE [OnStream(q, k, step) EXCEPT !.replayed[k] = TRUE,
                                        !.jobs = Append(@, BodyJob("pull", TRUE, k))]

\* reader.read() of pump i.
ReadOnce(p, i) ==
  LET k == p.pump[i].on IN ServeReplay(OnStream(p, k, Read(p.s[k].r)), k)

AddStream(p, stream) == [p EXCEPT !.s = Append(@, stream), !.replayed = Append(@, FALSE)]

\* getReader(), and the first read.
AddPump(p, pump) ==
  LET i == Len(p.pump) + 1
      q == [p EXCEPT !.pump = Append(@, pump), !.s[pump.on].reader = i]
  IN  IF pump.does = "program" THEN q ELSE ReadOnce(q, i)

NewPump(p) == Len(p.pump) < MaxPumps

-------------------------------------------------------------------------------
(* The transform of a pipe: its writable side is the pump's, the readable   *)
(* side a stream.  `fails`: the transformer throws, or its promise rejects. *)

\* The sink is called: it transforms, flushes at the end, and tells the outcome.
CallSink(p, i, before, fails) ==
  LET w == p.pump[i].w
      out == p.s[p.pump[i].to[1]].r
      writes == w.writing # 0 /\ before.writing # w.writing
      closes == w.closing = "asked" /\ before.closing = "no"
      step == IF fails THEN ErrorReadable(out)
              ELSE IF writes THEN Enqueue(out, w.writing) ELSE CloseReadable(out)
      q == OnStream(p, p.pump[i].to[1], step)
  IN  IF ~writes /\ ~closes THEN p
      ELSE [q EXCEPT !.jobs = Append(@, BodyJob(IF writes THEN "write" ELSE "close", ~fails, i))]

\* The writable side of pump i makes a move.
OnWritable(p, i, move, fails) ==
  CallSink([p EXCEPT !.pump[i].w = move.w, !.jobs = @ \o Tag(move.jobs, i)],
           i, p.pump[i].w, fails)

-------------------------------------------------------------------------------
(* The reactions to a read, by what the pump does. *)

TextReads(p, i, r) ==
  IF r.ok /\ r.chunk # 0 THEN ReadOnce([p EXCEPT !.pump[i].got = Append(@, r.chunk)], i)
  ELSE [p EXCEPT !.pump[i].ended = IF r.ok THEN "done" ELSE "error"]

\* Mutant: the pump ends when one of the branches is cancelled.
TeeReadsWhileBoth(p, i, r) ==
  LET to == p.pump[i].to
      Both(Put(_, _)) == Put(Put(p, to[1]), to[2])
  IN  IF ~r.ok THEN p
      ELSE IF r.chunk = 0 THEN Both(LAMBDA q, k : OnStream(q, k, CloseReadable(q.s[k].r)))
      ELSE IF \E n \in 1 .. 2 : p.s[to[n]].r.state # "readable" THEN p
      ELSE ReadOnce(Both(LAMBDA q, k : OnStream(q, k, Enqueue(q.s[k].r, r.chunk))), i)

\* A cancelled branch is left out, which its state does here as well.  Nothing
\* is there to take an error.
TeeReads(p, i, r) ==
  LET to == p.pump[i].to
      Both(Put(_, _)) == Put(Put(p, to[1]), to[2])
  IN  IF ~r.ok THEN p
      ELSE IF r.chunk = 0 THEN Both(LAMBDA q, k : OnStream(q, k, CloseReadable(q.s[k].r)))
      ELSE ReadOnce(Both(LAMBDA q, k : OnStream(q, k, Enqueue(q.s[k].r, r.chunk))), i)

\* Mutant: an aborted transform is terminated, as at the end.
AbortTerminates(p, i) ==
  LET k == p.pump[i].to[1]
      q == OnWritable(p, i, Abort(p.pump[i].w), FALSE)
  IN  IF p.pump[i].w.state = "closed" THEN q ELSE OnStream(q, k, CloseReadable(q.s[k].r))

\* abort() of the writer has the sink error the readable side.
AbortTransform(p, i) ==
  LET k == p.pump[i].to[1]
      q == OnWritable(p, i, Abort(p.pump[i].w), FALSE)
  IN  IF p.pump[i].w.state = "closed" THEN q ELSE OnStream(q, k, ErrorReadable(q.s[k].r))

PipeReads(p, i, r, fails) ==
  IF ~r.ok THEN AbortTransform(p, i)
  ELSE OnWritable(p, i, IF r.chunk = 0 THEN CloseWritable(p.pump[i].w)
                                       ELSE Write(p.pump[i].w, r.chunk), fails)

\* A read of the program's own reader.
ProgramReads(p, i, r) ==
  IF r.ok /\ r.chunk # 0 THEN [p EXCEPT !.pump[i].got = Append(@, r.chunk)] ELSE p

\* reader.cancel().
CancelStream(p, k) == [OnStream(p, k, Cancel(p.s[k].r)) EXCEPT !.s[k].clean = FALSE]

\* The promise of a write() of a pipe.
EntryOfPipe(p, i, r) == IF r.ok THEN ReadOnce(p, i) ELSE CancelStream(p, p.pump[i].on)

ReadReaction(p, r, fails) ==
  CASE p.pump[r.pump].does = "text"    -> TextReads(p, r.pump, r)
    [] p.pump[r.pump].does = "tee"     -> TeeReads(p, r.pump, r)
    [] p.pump[r.pump].does = "pipe"    -> PipeReads(p, r.pump, r, fails)
    [] p.pump[r.pump].does = "program" -> ProgramReads(p, r.pump, r)

React(p, r, fails) ==
  CASE r.on = "read"   -> ReadReaction(p, r, fails)
    [] r.on = "pull"   -> ServeReplay(OnStream(p, r.pump, Pulled(p.s[r.pump].r, TRUE)), r.pump)
    [] r.on = "wstart" -> OnWritable(p, r.pump, SinkStarted(p.pump[r.pump].w, TRUE), fails)
    [] r.on = "write"  -> OnWritable(p, r.pump, SinkWrote(p.pump[r.pump].w, r.ok), fails)
    [] r.on = "close"  -> OnWritable(p, r.pump, SinkClosed(p.pump[r.pump].w, r.ok), fails)
    [] r.on = "entry"  -> EntryOfPipe(p, r.pump, r)
    [] r.on = "closed" -> p

-------------------------------------------------------------------------------
(* The objects.  "stream": the body is a stream; "complete": a response     *)
(* whose bytes have come with it; "class": made by the constructor from     *)
(* bytes.                                                                   *)

Object(kind, k) == [kind |-> kind, stream |-> k, bodyUsed |-> FALSE]

Init ==
  /\ \E kind \in {"stream", "complete", "class"} :
       LET stream == Stream([NewReadable EXCEPT !.started = TRUE], "source", TRUE)
       IN  /\ objects = <<Object(kind, 1)>>
           /\ b = [s |-> <<IF kind = "stream" THEN stream ELSE Replay>>, replayed |-> <<FALSE>>,
                   pump |-> <<>>, jobs |-> <<>>]
           /\ sent = IF kind = "stream" THEN <<>> ELSE <<1>>
           /\ end = IF kind = "stream" THEN "open" ELSE "closed"

\* Tasks make readers and have the program's own read, and the source answers in
\* one; releasing and cancelling may come in any reaction too.
Task == b.jobs = <<>>

Locked(o) == b.s[objects[o].stream].reader # 0

\* text(), arrayBuffer(), blob() or json(): of bytes, which are there at once.
ConsumeBytes(o) ==
  /\ objects[o].kind # "stream"
  /\ objects[o].bodyUsed => objects[o].kind = "complete"
  /\ b' = [b EXCEPT !.pump = Append(@, [Pump("text", objects[o].stream, <<>>) EXCEPT
                                         !.got = sent, !.ended = "done"])]

\* Of a stream: if it is locked the call throws, with the body used up.
ConsumeStream(o) ==
  /\ objects[o].kind = "stream" /\ ~objects[o].bodyUsed
  /\ b' = IF Locked(o) THEN b ELSE AddPump(b, Pump("text", objects[o].stream, <<>>))

Consume(o) ==
  /\ NewPump(b) /\ Task
  /\ ConsumeBytes(o) \/ ConsumeStream(o)
  /\ objects' = [objects EXCEPT ![o].bodyUsed = TRUE]
  /\ UNCHANGED <<sent, end>>

\* clone(): a second object; over the same bytes, with a stream of its own, or
\* over the other one of the two branches of a tee().
CloneBytes(o) ==
  /\ objects[o].kind # "stream"
  /\ objects' = Append(objects, Object(objects[o].kind, Len(b.s) + 1))
  /\ b' = AddStream(b, Replay)

CloneStream(o) ==
  LET k == objects[o].stream
      n == Len(b.s)
      branch == Branch(b.s[k].clean)
  IN  /\ objects[o].kind = "stream"
      /\ objects' = Append([objects EXCEPT ![o].stream = n + 1], Object("stream", n + 2))
      /\ b' = AddPump(AddStream(AddStream(b, branch), branch),
                      Pump("tee", k, <<n + 1, n + 2>>))

Clone(o) ==
  /\ NewPump(b) /\ Task /\ Len(objects) < MaxObjects
  /\ ~objects[o].bodyUsed /\ ~Locked(o)
  /\ CloneBytes(o) \/ CloneStream(o)
  /\ UNCHANGED <<sent, end>>

\* body.pipeThrough(transform), read to the end as text() would.
PipeThrough(o) ==
  LET k == objects[o].stream
      n == Len(b.s) + 1
      i == Len(b.pump) + 1
      piped == AddPump([AddStream(b, Branch(b.s[k].clean)) EXCEPT
                          !.jobs = Append(@, BodyJob("wstart", TRUE, i))],
                       Pump("pipe", k, <<n>>))
  IN  /\ Len(b.pump) + 2 <= MaxPumps /\ Task
      /\ ~Locked(o)
      /\ b' = AddPump(piped, Pump("text", n, <<>>))
  /\ UNCHANGED <<objects, sent, end>>

\* body.getReader().
TakeReader(o) ==
  /\ NewPump(b) /\ Task /\ ~Locked(o)
  /\ b' = AddPump(b, Pump("program", objects[o].stream, <<>>))
  /\ UNCHANGED <<objects, sent, end>>

Holds(i) == b.pump[i].does = "program" /\ b.s[b.pump[i].on].reader = i

\* The program's reader: read(), one at a time and not past the end; releaseLock()
\* and cancel().
ProgramRead(i) ==
  /\ Holds(i) /\ Task
  /\ b.s[b.pump[i].on].r.pendingReads = 0 /\ b.s[b.pump[i].on].r.state = "readable"
  /\ b' = ReadOnce([b EXCEPT !.s[b.pump[i].on].clean = FALSE], i)
  /\ UNCHANGED <<objects, sent, end>>

ProgramReleases(i) ==
  /\ Holds(i)
  /\ LET k == b.pump[i].on
     IN  b' = [OnStream(b, k, ReleaseReader(b.s[k].r)) EXCEPT !.s[k].reader = 0]
  /\ UNCHANGED <<objects, sent, end>>

ProgramCancels(i) ==
  /\ Holds(i) /\ b.s[b.pump[i].on].r.state = "readable"
  /\ b' = CancelStream(b, b.pump[i].on)
  /\ UNCHANGED <<objects, sent, end>>

-------------------------------------------------------------------------------
\* The network answers a pull.
Arrive(what) ==
  LET q == [b EXCEPT !.s[1].r.asked = FALSE]
      chunk == Len(sent) + 1
      step == CASE what = "chunk"  -> Enqueue(q.s[1].r, chunk)
                [] what = "end"    -> CloseReadable(q.s[1].r)
                [] what = "error"  -> ErrorReadable(q.s[1].r)
  IN  /\ b.s[1].feed = "source" /\ b.s[1].r.asked /\ Task
      /\ what = "chunk" => chunk <= MaxChunks
      /\ b' = [OnStream(q, 1, step) EXCEPT !.jobs = Append(@, BodyJob("pull", TRUE, 1))]
      /\ sent' = IF what = "chunk" /\ Accepts(b.s[1].r) THEN Append(sent, chunk) ELSE sent
      /\ end' = CASE what = "end" -> "closed" [] what = "error" -> "errored" [] OTHER -> end
  /\ UNCHANGED objects

Microtask ==
  /\ b.jobs # <<>>
  /\ \E fails \in BOOLEAN : b' = React([b EXCEPT !.jobs = Tail(@)], Head(b.jobs), fails)
  /\ UNCHANGED <<objects, sent, end>>

Next ==
  \/ Microtask
  \/ \E what \in {"chunk", "end", "error"} : Arrive(what)
  \/ \E o \in DOMAIN objects : Consume(o) \/ Clone(o) \/ PipeThrough(o) \/ TakeReader(o)
  \/ \E i \in DOMAIN b.pump : ProgramRead(i) \/ ProgramReleases(i) \/ ProgramCancels(i)

\* The microtasks that are pending all run, and the source answers a pull.
Fairness == []<>Task /\ WF_vars(\E what \in {"chunk", "end", "error"} : Arrive(what))

Spec == Init /\ [][Next]_vars /\ Fairness

-------------------------------------------------------------------------------
(* Properties. *)

\* Who reads a body to the end, from the object, from a clone, from a clone of a
\* clone or through a transform, has every chunk in order: whatever the readers
\* of the other branches do, cancel or leave, and whenever the branches were
\* made.  A failing source or transform never looks like the end.
WholeBody ==
  \A i \in DOMAIN b.pump :
    LET p == b.pump[i]
    IN  p.does = "text" /\ b.s[p.on].clean =>
          /\ IsPrefix(p.got, sent)
          /\ p.ended = "done" => p.got = sent /\ end = "closed"

\* Reading to the end comes to an end, by the source's or an error, except below
\* a tee() of a source that fails.
Reading(i) == i \in DOMAIN b.pump /\ b.pump[i].does = "text" /\ b.pump[i].ended = "no"
BelowTee(i) == \E t \in DOMAIN b.pump : b.pump[t].does = "tee" /\ b.pump[t].on < b.pump[i].on

BodiesSettle ==
  \A i \in 1 .. MaxPumps :
    Reading(i) ~> (i \in DOMAIN b.pump /\ (~Reading(i) \/ (end = "errored" /\ BelowTee(i))))

===============================================================================
