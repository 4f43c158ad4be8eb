-------------------------------- MODULE PipeTo --------------------------------
(***************************************************************************)
(* ReadableStream.pipeTo (src/src/api/js/readable_stream.js) from a        *)
(* readable to a writable stream, on one JS thread: the reactions its two  *)
(* streams queue run one by one in FIFO order, and between two of them the *)
(* program may act: the source on its controller, the sink on its own, the *)
(* holder of the abort signal, and whoever cancels the readable stream.    *)
(* What the callbacks of source and sink return is a promise the           *)
(* environment settles when it likes; a callback that returns or throws at *)
(* once is one that is settled in the next step.  The error a stream fails *)
(* with may be undefined, by which pipeTo takes it that there is none; the *)
(* reason of an abort signal never is.                                     *)
(*                                                                         *)
(* There may be no pipe, or one that has given its writer back: the        *)
(* program can then take a writer itself, which it keeps, and writes       *)
(* without waiting for the promises.                                       *)
(***************************************************************************)
EXTENDS ReadableStream, WritableStream, SequencesExt

CONSTANTS MaxChunks,  \* bound: chunks enqueued, or written by the program
          Options     \* the sets of prevent* options a pipe is tried with

ASSUME OptionsAssumption == /\ MaxChunks \in Nat
                            /\ Options \subseteq SUBSET {"close", "abort", "cancel"}

VARIABLES r,          \* the readable stream
          w,          \* the writable stream
          jobs,       \* the microtasks waiting, in order
          starts,     \* the start callbacks whose promise has had no reaction
          pipe,       \* the pipe: "none", "running", settled with its action under
                      \*   way ("closing", "failing", or "blank" if its error is
                      \*   undefined), "fulfilled" or "rejected"
          prevent,    \* preventClose, preventAbort, preventCancel
          awaited,    \* the callbacks a pipe that has failed waits for
          writer,     \* who holds the writer
          accepted,   \* history: chunks the readable stream, or the program's
                      \*   writer, has accepted
          delivered   \* history: chunks the sink has reported written

vars == <<r, w, jobs, starts, pipe, prevent, awaited, writer, accepted, delivered>>

Callbacks == {"rstart", "pull", "cancel", "wstart", "write", "close", "abort"}

Chunks == 1 .. MaxChunks

Init == /\ \E s \in BOOLEAN : r = [NewReadable EXCEPT !.started = s]
        /\ \E s \in BOOLEAN : w = [NewWritable EXCEPT !.started = s]
        /\ starts = {c \in {"rstart"} : ~r.started} \union {c \in {"wstart"} : ~w.started}
        /\ jobs = <<>>
        /\ pipe = "none"
        /\ prevent = {}
        /\ awaited = {}
        /\ writer = "free"
        /\ accepted = <<>>
        /\ delivered = <<>>

-------------------------------------------------------------------------------
(* The callbacks of source and sink that are under way, and their answers. *)

Called == starts \union awaited
            \union {c \in {"pull"} : r.pullInProgress}
            \union {c \in {"write"} : w.writing # 0}
            \union {c \in {"close"} : w.closing = "asked"}

Unsettled == {c \in Called : \A i \in DOMAIN jobs : jobs[i].on # c}

Answer(c, ok) ==
  /\ c \in Unsettled
  /\ jobs' = Append(jobs, Reaction(c, ok, 0))
  /\ delivered' = IF c = "write" /\ ok THEN Append(delivered, w.writing) ELSE delivered
  /\ UNCHANGED <<r, w, starts, pipe, prevent, awaited, writer, accepted>>

-------------------------------------------------------------------------------
(* A microtask runs: Head(jobs), with `rest` behind it. *)

Runs(names) == jobs # <<>> /\ Head(jobs).on \in names
job == Head(jobs)
rest == Tail(jobs)

SourceReaction ==
  /\ Runs({"rstart", "pull"})
  /\ LET s == IF job.on = "rstart" THEN SourceStarted(r, job.ok) ELSE Pulled(r, job.ok)
     IN  r' = s.r /\ jobs' = rest \o s.jobs
  /\ starts' = starts \ {job.on}
  /\ UNCHANGED <<w, pipe, prevent, awaited, writer, accepted, delivered>>

SinkReaction ==
  /\ Runs({"wstart", "write", "close"})
  /\ LET m == CASE job.on = "wstart" -> SinkStarted(w, job.ok)
                [] job.on = "write"  -> SinkWrote(w, job.ok)
                [] job.on = "close"  -> SinkClosed(w, job.ok)
     IN  w' = m.w /\ jobs' = rest \o m.jobs
  /\ starts' = starts \ {job.on}
  /\ UNCHANGED <<r, pipe, prevent, awaited, writer, accepted, delivered>>

-------------------------------------------------------------------------------
(* The pipe. *)

\* pump(): read once more.
Pump(before) ==
  LET s == Read(r)
  IN  /\ r' = s.r
      /\ jobs' = before \o s.jobs
      /\ UNCHANGED <<w, awaited>>

\* shutdownWithAction with an error: `actions` are called, and the pipe's
\* promise is rejected once they have all succeeded or one has failed.  With an
\* error that is `undefined` it is resolved if they have all succeeded.
FailWith(actions, before, undefined) ==
  LET a == IF "abort" \in actions THEN Abort(w) ELSE Move(w, <<>>)
      c == IF "cancel" \in actions THEN Cancel(r) ELSE Step(r, <<>>)
      called == {x \in actions : IF x = "abort" THEN w.state # "closed"
                                               ELSE r.state = "readable"}
      refused == "cancel" \in actions /\ r.state = "errored"
  IN  /\ w' = a.w
      /\ r' = c.r
      /\ pipe' = IF undefined THEN "blank" ELSE "failing"
      /\ awaited' = IF refused THEN {} ELSE called
      /\ jobs' = before \o a.jobs \o c.jobs
                   \o IF awaited' = {} THEN <<Reaction("action", ~refused, 0)>> ELSE <<>>

ReadSettled ==
  /\ Runs({"read"})
  /\ \/ /\ pipe = "running" /\ job.ok /\ job.chunk # 0
        /\ LET m == Write(w, job.chunk) IN w' = m.w /\ jobs' = rest \o m.jobs
        /\ UNCHANGED <<r, pipe, awaited, writer>>
     \/ /\ pipe = "running" /\ job = Done /\ "close" \notin prevent
        /\ LET m == CloseWritable(w) IN w' = m.w /\ jobs' = rest \o m.jobs
        /\ pipe' = "closing"
        /\ UNCHANGED <<r, awaited, writer>>
     \/ /\ pipe = "running" /\ job = Done /\ "close" \in prevent
        /\ pipe' = "fulfilled" /\ writer' = "free" /\ jobs' = rest
        /\ UNCHANGED <<r, w, awaited>>
     \/ /\ pipe = "running" /\ ~job.ok /\ "abort" \notin prevent
        /\ \E undefined \in BOOLEAN : FailWith({"abort"}, rest, undefined)
        /\ UNCHANGED writer
     \/ /\ pipe = "running" /\ ~job.ok /\ "abort" \in prevent
        /\ pipe' = "rejected" /\ writer' = "free" /\ jobs' = rest
        /\ UNCHANGED <<r, w, awaited>>
     \/ /\ pipe # "running"
        /\ jobs' = rest
        /\ UNCHANGED <<r, w, pipe, awaited, writer>>
  /\ UNCHANGED <<starts, prevent, accepted, delivered>>

\* The promise of a write() is settled; those of the program's have no part here.
EntrySettled ==
  /\ Runs({"entry"})
  /\ \/ /\ pipe = "running" /\ job.ok
        /\ Pump(rest)
        /\ UNCHANGED pipe
     \/ /\ pipe = "running" /\ ~job.ok /\ "cancel" \notin prevent
        /\ \E undefined \in BOOLEAN : FailWith({"cancel"}, rest, undefined)
     \/ /\ pipe = "running" /\ ~job.ok /\ "cancel" \in prevent
        /\ LET s == ReleaseReader(r) IN r' = s.r /\ jobs' = rest \o s.jobs
        /\ pipe' = "rejected"
        /\ UNCHANGED <<w, awaited>>
     \/ /\ pipe # "running"
        /\ jobs' = rest
        /\ UNCHANGED <<r, w, pipe, awaited>>
  /\ UNCHANGED <<starts, prevent, writer, accepted, delivered>>

\* The action of a settled pipe has ended.
ActionEnded ==
  /\ Runs({"closed", "abort", "cancel", "action"})
  /\ awaited' = IF job.ok THEN awaited \ {job.on} ELSE {}
  /\ pipe' = CASE pipe \in {"closing", "blank"} -> IF job.ok THEN "fulfilled" ELSE "rejected"
               [] pipe = "failing" /\ awaited' = {} -> "rejected"
               [] OTHER -> pipe
  /\ jobs' = rest
  /\ UNCHANGED <<r, w, starts, prevent, writer, accepted, delivered>>

\* The call: with a signal aborted before, or not; refused if the program has
\* a writer.
CallPipeTo(options, aborted) ==
  /\ pipe = "none"
  /\ prevent' = options
  /\ \/ /\ writer # "free"
        /\ pipe' = "rejected"
        /\ UNCHANGED <<r, w, jobs, awaited, writer>>
     \/ /\ writer = "free" /\ aborted
        /\ writer' = "pipe"
        /\ FailWith({"abort", "cancel"} \ options, jobs, FALSE)
     \/ /\ writer = "free" /\ ~aborted
        /\ writer' = "pipe"
        /\ pipe' = "running"
        /\ Pump(jobs)
  /\ UNCHANGED <<starts, accepted, delivered>>

-------------------------------------------------------------------------------
(* What the program does between two microtasks. *)

\* The abort event: the listener is gone once the pipe is settled.
AbortSignal ==
  /\ pipe = "running"
  /\ FailWith({"abort", "cancel"} \ prevent, jobs, FALSE)
  /\ UNCHANGED <<starts, prevent, writer, accepted, delivered>>

\* Nobody reads any more: the pipe is settled, or there will be none.
Unread == pipe \notin {"none", "running"} \/ writer = "program"

\* The source calls its controller; that answers a pull.
SourceActs(call) ==
  /\ ~Unread
  /\ LET chunk == Len(accepted) + 1
         s == CASE call = "enqueue" -> Enqueue(r, chunk)
                [] call = "close"   -> CloseReadable(r)
                [] call = "error"   -> ErrorReadable(r)
     IN  /\ call = "enqueue" => chunk \in Chunks
         /\ r' = [s.r EXCEPT !.asked = FALSE]
         /\ jobs' = jobs \o s.jobs
         /\ accepted' = IF call = "enqueue" /\ Accepts(r) THEN Append(accepted, chunk)
                                                          ELSE accepted
  /\ UNCHANGED <<w, starts, pipe, prevent, awaited, writer, delivered>>

\* Somebody cancels the stream, which does not look at its lock.
ProgramCancels ==
  /\ ~Unread
  /\ LET s == Cancel(r) IN r' = s.r /\ jobs' = jobs \o s.jobs
  /\ UNCHANGED <<w, starts, pipe, prevent, awaited, writer, accepted, delivered>>

\* The sink calls its controller's error().
SinkErrors ==
  /\ LET m == ErrorWritable(w) IN w' = m.w /\ jobs' = jobs \o m.jobs
  /\ UNCHANGED <<r, starts, pipe, prevent, awaited, writer, accepted, delivered>>

TakeWriter ==
  /\ writer = "free"
  /\ pipe = "none" => accepted = <<>>
  /\ writer' = "program"
  /\ UNCHANGED <<r, w, jobs, starts, pipe, prevent, awaited, accepted, delivered>>

\* A write() the stream refuses at once changes nothing, and is left out.
ProgramWrites ==
  /\ writer = "program" /\ w.state = "writable"
  /\ LET chunk == Len(accepted) + 1
         m == Write(w, chunk)
     IN  /\ chunk \in Chunks
         /\ w' = m.w
         /\ jobs' = jobs \o m.jobs
         /\ accepted' = Append(accepted, chunk)
  /\ UNCHANGED <<r, starts, pipe, prevent, awaited, writer, delivered>>

\* close() or abort() of the program's writer.
ProgramEnds ==
  /\ writer = "program"
  /\ \E m \in {CloseWritable(w), Abort(w)} : m.w # w /\ w' = m.w /\ jobs' = jobs \o m.jobs
  /\ UNCHANGED <<r, starts, pipe, prevent, awaited, writer, accepted, delivered>>

-------------------------------------------------------------------------------
Microtask == SourceReaction \/ SinkReaction \/ ReadSettled \/ EntrySettled \/ ActionEnded

SourceAnswers == r.asked /\ \E call \in {"enqueue", "close", "error"} : SourceActs(call)

Next ==
  \/ Microtask
  \/ \E c \in Callbacks, ok \in BOOLEAN : Answer(c, ok)
  \/ \E options \in Options, aborted \in BOOLEAN :
        CallPipeTo(options, aborted)
  \/ \E call \in {"enqueue", "close", "error"} : SourceActs(call)
  \/ AbortSignal
  \/ ProgramCancels
  \/ SinkErrors
  \/ TakeWriter
  \/ ProgramWrites
  \/ ProgramEnds

\* Microtasks run while there are any; the callbacks of source and sink settle
\* the promises they return, and a source that is pulled enqueues, closes or
\* errs: what the streams ask of them.
Fairness == /\ WF_vars(Microtask)
            /\ \A c \in Callbacks : WF_vars(\E ok \in BOOLEAN : Answer(c, ok))
            /\ WF_vars(SourceAnswers)

Spec == Init /\ [][Next]_vars /\ Fairness

-------------------------------------------------------------------------------
(* Properties. *)

\* The sink gets the chunks in the order they were enqueued or written, none
\* twice and none left out, through two queues, pending reads and reactions.
InOrder == IsPrefix(delivered, accepted)

\* A pipe whose promise is fulfilled has had every chunk the source enqueued
\* written by the sink, wherever the chunks were when the source was closed or
\* cancelled; but for a pipe that has failed with an error that is undefined, which
\* the code fulfils as well.
FulfilledIsComplete ==
  [][pipe' = "fulfilled" /\ pipe \notin {"fulfilled", "blank"} => delivered' = accepted']_vars

\* A running pipe settles its promise once source and sink answer what they are
\* asked: no pull is lost to one that is in flight, no chunk to a sink that has
\* not started, no failure to a callback that is still running.
PipeSettles == pipe = "running" ~> pipe \in {"fulfilled", "rejected"}

===============================================================================
