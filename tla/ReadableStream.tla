---------------------------- MODULE ReadableStream ----------------------------
(***************************************************************************)
(* One readable stream (src/src/api/js/readable_stream.js): controller,    *)
(* default reader and stream, as operators from the stream's record to its *)
(* next one.  An operator that settles promises of read() also returns the *)
(* reactions it queues, as `jobs`; a module that has the stream among its  *)
(* variables puts them behind the microtasks already waiting.              *)
(*                                                                         *)
(* The call of source.pull is recorded in `asked`: what the source does    *)
(* about it, at once or later, is the business of that module.             *)
(***************************************************************************)
EXTENDS Naturals, Sequences

\* A reaction: the promise it waits for, how that was settled, a chunk or 0.
Reaction(on, ok, chunk) == [on |-> on, ok |-> ok, chunk |-> chunk]
Value(chunk) == Reaction("read", TRUE, chunk)
Done == Reaction("read", TRUE, 0)
Failed == Reaction("read", FALSE, 0)

NewReadable == [state |-> "readable", queue |-> <<>>, pendingReads |-> 0,
                closeRequested |-> FALSE, started |-> FALSE,
                pullInProgress |-> FALSE, pullAgain |-> FALSE, asked |-> FALSE]

Step(r, jobs) == [r |-> r, jobs |-> jobs]

\* Every pending read is settled, in order.
Settle(r, state, reaction) ==
  Step([r EXCEPT !.state = state, !.pendingReads = 0],
       [i \in 1 .. r.pendingReads |-> reaction])

-------------------------------------------------------------------------------
\* Whether enqueue(chunk) takes the chunk; else it throws or does nothing.
Accepts(r) == ~r.closeRequested /\ r.state = "readable"

Enqueue(r, chunk) ==
  IF ~Accepts(r) THEN Step(r, <<>>)
  ELSE IF r.pendingReads > 0
       THEN Step([r EXCEPT !.pendingReads = @ - 1], <<Value(chunk)>>)
       ELSE Step([r EXCEPT !.queue = Append(@, chunk)], <<>>)

\* close() looks at its own flag only, and not at the state.
CloseReadable(r) ==
  IF r.closeRequested THEN Step(r, <<>>)
  ELSE Settle([r EXCEPT !.closeRequested = TRUE], "closed", Done)

ErrorReadable(r) ==
  IF r.state = "readable" THEN Settle(r, "errored", Failed) ELSE Step(r, <<>>)

-------------------------------------------------------------------------------
\* For a source that has a pull callback; without one nothing is called.
PullIfNeeded(r) ==
  LET wanted == r.pendingReads > 0 \/ (r.queue = <<>> /\ ~r.closeRequested)
  IN  IF ~r.started THEN r
      ELSE IF r.pullInProgress THEN [r EXCEPT !.pullAgain = TRUE]
      ELSE IF r.state = "readable" /\ wanted
           THEN [r EXCEPT !.pullInProgress = TRUE, !.asked = TRUE]
           ELSE r

\* start() and pull() return promises; these are the reactions to them.
SourceStarted(r, ok) ==
  IF ok THEN Step(PullIfNeeded([r EXCEPT !.started = TRUE]), <<>>)
  ELSE ErrorReadable(r)

\* Mutant: a pull asked for while one was in progress is forgotten.
PulledOnce(r, ok) ==
  LET idle == [r EXCEPT !.pullInProgress = FALSE, !.pullAgain = FALSE]
  IN  IF ok THEN Step(idle, <<>>) ELSE ErrorReadable(idle)

Pulled(r, ok) ==
  LET idle == [r EXCEPT !.pullInProgress = FALSE]
  IN  IF ~ok THEN ErrorReadable(idle)
      ELSE IF r.pullAgain
           THEN Step(PullIfNeeded([idle EXCEPT !.pullAgain = FALSE]), <<>>)
           ELSE Step(idle, <<>>)

-------------------------------------------------------------------------------
-------------------------------------------------------------------------------
\* Mutant: the queue is popped where it is pushed.
ReadFromBack(r) ==
  IF r.queue # <<>>
  THEN Step(PullIfNeeded([r EXCEPT !.queue = SubSeq(@, 1, Len(@) - 1)]),
            <<Value(r.queue[Len(r.queue)])>>)
  ELSE CASE r.state = "closed"   -> Step(r, <<Done>>)
         [] r.state = "errored"  -> Step(r, <<Failed>>)
         [] r.state = "readable" ->
              Step(PullIfNeeded([r EXCEPT !.pendingReads = @ + 1]), <<>>)

\* Mutant: the state is looked at before the queue.
ReadStateFirst(r) ==
  CASE r.state = "closed"   -> Step(r, <<Done>>)
    [] r.state = "errored"  -> Step(r, <<Failed>>)
    [] r.state = "readable" ->
         IF r.queue = <<>> THEN Step(PullIfNeeded([r EXCEPT !.pendingReads = @ + 1]), <<>>)
         ELSE Step(PullIfNeeded([r EXCEPT !.queue = Tail(@)]), <<Value(Head(r.queue))>>)

\* read(): what is queued comes first, whatever became of the stream.
Read(r) ==
  IF r.queue # <<>>
  THEN Step(PullIfNeeded([r EXCEPT !.queue = Tail(@)]), <<Value(Head(r.queue))>>)
  ELSE CASE r.state = "closed"   -> Step(r, <<Done>>)
         [] r.state = "errored"  -> Step(r, <<Failed>>)
         [] r.state = "readable" ->
              Step(PullIfNeeded([r EXCEPT !.pendingReads = @ + 1]), <<>>)

\* releaseLock() of the reader.
ReleaseReader(r) == Settle(r, r.state, Failed)

\* cancel() of the stream or of its reader; it calls source.cancel if the
\* stream was readable.
Cancel(r) ==
  IF r.state = "readable" THEN Settle(r, "closed", Done) ELSE Step(r, <<>>)

===============================================================================
